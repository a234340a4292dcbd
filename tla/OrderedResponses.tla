-------------------------- MODULE OrderedResponses --------------------------
(***************************************************************************)
(* What an interaction's action queue promises its user, without the list, *)
(* the locks and the references: calls are accepted until one fails, at    *)
(* most one is running, they run and are answered in the order of          *)
(* acceptance, the next one starts only when its predecessor's callbacks   *)
(* have returned, and after a failure the rest are answered without        *)
(* running.                                                                *)
(***************************************************************************)
EXTENDS Integers, Sequences

VARIABLES
  accepted,  \* calls accepted so far
  answers,   \* their terminal statuses, in order
  running,   \* the call that is running or whose callbacks run; 0 for none
  broken     \* a call failed: nothing is accepted or started any more

promise == <<accepted, answers, running, broken>>

Init ==
  accepted = 0 /\ answers = <<>> /\ running = 0 /\ broken = FALSE

(* A call accepted by an idle queue runs at once.                          *)
Accept ==
  /\ ~broken
  /\ accepted' = accepted + 1
  /\ running' = IF running = 0 THEN accepted + 1 ELSE running
  /\ running = 0 => Len(answers) = accepted
  /\ UNCHANGED <<answers, broken>>

(* The running call ends; a failure breaks the queue.                      *)
Answer ==
  /\ running # 0 /\ Len(answers) = running - 1
  /\ \E s \in {"OK", "ERROR", "CANCELED"} :
       answers' = Append(answers, s) /\ broken' = (s # "OK")
  /\ UNCHANGED <<accepted, running>>

(* The callbacks of the running call return: the next one starts, or is    *)
(* refused, which breaks the queue as well.                                *)
Return ==
  /\ running # 0 /\ Len(answers) = running
  /\ \/ /\ ~broken /\ running < accepted
        /\ running' = running + 1
        /\ UNCHANGED broken
     \/ /\ broken \/ running = accepted
        /\ running' = 0
        /\ UNCHANGED broken
     \/ /\ ~broken /\ running < accepted
        /\ running' = 0
        /\ broken' = TRUE
  /\ UNCHANGED <<accepted, answers>>

(* After a failure the waiting calls are answered in turn, none with OK.   *)
AnswerDependent ==
  /\ broken /\ running = 0 /\ Len(answers) < accepted
  /\ \E s \in {"STATE", "CANCELED", "REJECTED"} : answers' = Append(answers, s)
  /\ UNCHANGED <<accepted, running, broken>>

Next == Accept \/ Answer \/ Return \/ AnswerDependent

Spec == Init /\ [][Next]_promise
=============================================================================
