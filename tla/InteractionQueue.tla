-------------------------- MODULE InteractionQueue --------------------------
(***************************************************************************)
(* The per-interaction action queue of the application layer               *)
(* (src/src/app/app_interaction_queue.c), with its users: the dispatcher   *)
(* that runs the handler and then destroys the flow (app_routes.c), the    *)
(* auto-defer timer (app_auto_defer.c) and the REST workers that finalize  *)
(* an action's request handle (rest/rest_request_handle.c).                *)
(*                                                                         *)
(* Discord takes one initial response for an interaction and then edits    *)
(* and followups, in order.  The queue admits actions in call order, hands *)
(* only its head to REST, starts the next one from the post-hook of its    *)
(* predecessor, and on a failure delivers a local terminal result to every *)
(* dependent.  Whatever runs under the queue mutex is one step here; what  *)
(* runs after an unlock is a step of its own.                              *)
(***************************************************************************)
EXTENDS Integers, Sequences, FiniteSets

CONSTANTS
  MaxAccepted,    \* bound: actions accepted in a behaviour
  Cost,           \* reserved_bytes of the n-th action (measure)
  IdentityCharge, \* bytes charged for the queue and its flow
  MaxActions,     \* client->interaction_max_actions_per_queue
  MaxQueueBytes,  \* client->interaction_max_reserved_bytes_per_queue
  MaxTotalBytes,  \* client->interaction_max_reserved_bytes_total
  MaxOthers,      \* bound: bytes the other queues hold at once
  MaxCancels,     \* bound: actions that are canceled
  None

Actions == 1 .. MaxAccepted

ASSUME SizesAssumption ==
  /\ MaxAccepted \in Nat \ {0}
  /\ Cost \in [Actions -> Nat \ {0}]
  /\ {IdentityCharge, MaxActions, MaxQueueBytes, MaxTotalBytes, MaxOthers,
      MaxCancels} \subseteq Nat
  /\ IdentityCharge <= MaxQueueBytes
  /\ MaxQueueBytes <= MaxTotalBytes

(* The public calls; "reply" picks its kind from the projected state.      *)
Calls == {"reply", "edit", "followup", "defer", "modal", "delete"}
FlowStates == {"READY", "QUEUED", "DEFERRED", "REPLIED", "EDITED",
               "FOLLOWED_UP", "MODAL", "FAILED"}
Outcomes == {"OK", "ERROR", "CANCELED", "STATE", "REJECTED"}

ASSUME NoneAssumption == None \notin Outcomes

VARIABLES
  list,              \* the actions linked from queue->head to queue->tail
  active,            \* queue->active
  failed,            \* queue->failed
  initial_admitted,  \* queue->initial_admitted
  owner_destroyed,   \* queue->owner_destroyed
  references,        \* queue->references
  committed,         \* committed_state and committed_original_exists
  projected,         \* projected_state and projected_original_exists
  accepted,          \* how many actions were accepted; the n-th is action n
  act,               \* what the n-th action does when it succeeds
  stage,             \* where the n-th action is
  status,            \* terminal status of the n-th action, None before it
  terminals,         \* the actions in the order of their terminal results
  cancel_requested,  \* request->cancel_requested of the n-th action
  hook,              \* locals of the post-hook of the n-th action
  reserved,          \* queue->reserved_bytes
  action_count,      \* queue->action_count
  total,             \* rest_runtime_stats.interaction_reserved_bytes
  others,            \* the part of total that other queues hold
  handler,           \* the dispatcher: where the handler call is
  timer,             \* the auto-defer task
  stopping,          \* the client is stopping: REST admits nothing
  storage            \* the queue's memory

linked == <<list, active, failed>>
flags == <<initial_admitted, projected>>
works == <<act, accepted>>
bytes == <<reserved, action_count, total>>
vars == <<linked, flags, works, bytes, owner_destroyed, references, committed,
          stage, status, terminals, cancel_requested, hook, others, handler,
          timer, stopping, storage>>

NoWork == [initial |-> FALSE, queued |-> "READY", state |-> "READY",
           original |-> FALSE]
NoHook == [deps |-> <<>>, answer |-> "STATE", cascade |-> FALSE]

Init ==
  /\ list = <<>> /\ active = FALSE /\ failed = FALSE
  /\ initial_admitted = FALSE /\ owner_destroyed = FALSE
  /\ references = 1
  /\ committed = [state |-> "READY", original |-> FALSE]
  /\ projected = [state |-> "READY", original |-> FALSE]
  /\ accepted = 0
  /\ act = [a \in Actions |-> NoWork]
  /\ stage = [a \in Actions |-> "unused"]
  /\ status = [a \in Actions |-> None]
  /\ terminals = <<>>
  /\ cancel_requested = [a \in Actions |-> FALSE]
  /\ hook = [a \in Actions |-> NoHook]
  /\ reserved = IdentityCharge
  /\ action_count = 0
  /\ others = 0
  /\ total = IdentityCharge
  /\ handler = "starting" /\ timer = "none"
  /\ stopping = FALSE
  /\ storage = "live"

-----------------------------------------------------------------------------
(* Admission: which calls the projected state allows, and what they do.    *)

KindOf(call) ==
  IF call # "reply" THEN call
  ELSE IF ~initial_admitted THEN "message"
  ELSE IF projected.state = "DEFERRED" /\ projected.original THEN "edit"
  ELSE "followup"

Initial(kind) == kind \in {"message", "defer", "modal"}

Allowed(kind) ==
  /\ ~failed /\ ~owner_destroyed
  /\ Initial(kind) => ~initial_admitted
  /\ kind \in {"edit", "delete"} => projected.original
  /\ kind = "followup" => initial_admitted

Work(kind) ==
  [initial  |-> Initial(kind),
   queued   |-> IF Initial(kind) THEN "QUEUED" ELSE "READY",
   state    |-> CASE kind = "message"  -> "REPLIED"
                  [] kind = "defer"    -> "DEFERRED"
                  [] kind = "modal"    -> "MODAL"
                  [] kind = "edit"     -> "EDITED"
                  [] kind = "followup" -> "FOLLOWED_UP"
                  [] OTHER             -> projected.state,
   original |-> CASE kind \in {"message", "defer"}  -> TRUE
                  [] kind \in {"modal", "delete"}   -> FALSE
                  [] OTHER                          -> projected.original]

RoomIgnoringOthers(a) ==
  /\ action_count < MaxActions
  /\ Cost[a] <= MaxQueueBytes - reserved

Room(a) ==
  /\ action_count < MaxActions
  /\ Cost[a] <= MaxQueueBytes - reserved
  /\ Cost[a] <= MaxTotalBytes - total

Reserve(a) ==
  /\ reserved' = reserved + Cost[a]
  /\ action_count' = action_count + 1
  /\ total' = total + Cost[a]

Release(a) ==
  /\ reserved' = reserved - Cost[a]
  /\ action_count' = action_count - 1
  /\ total' = total - Cost[a]

(* submit_head hands the head to REST when nothing is in flight.  It fails *)
(* when the head was canceled, or when REST refuses it: always once the    *)
(* client is stopping, and for its own limits at any time.                 *)
SubmitHeadRefusals(a) == IF cancel_requested[a] THEN {"CANCELED"} ELSE {"REJECTED"}
SubmitHeadAdmits(a) == ~cancel_requested[a] /\ ~stopping

Pushed(a) == Append(list, a)

StagedBy(a) == [b \in Actions |->
                  IF ~active /\ b = Head(Pushed(a)) THEN "submitted"
                  ELSE IF b = a THEN "queued" ELSE stage[b]]

NowAdmittedMessage(kind) == initial_admitted \/ kind = "message"

NowAdmitted(kind) == initial_admitted \/ Initial(kind)

(* An accepted call: the action joins the tail and, when the queue was     *)
(* idle, the head starts at once.                                          *)
Accept(a, kind) ==
  /\ Allowed(kind) /\ Room(a)
  /\ active \/ SubmitHeadAdmits(Head(Pushed(a)))
  /\ list' = Pushed(a)
  /\ active' = TRUE
  /\ stage' = StagedBy(a)
  /\ act' = [act EXCEPT ![a] = Work(kind)]
  /\ projected' = [state |-> Work(kind).state, original |-> Work(kind).original]
  /\ initial_admitted' = NowAdmitted(kind)
  /\ accepted' = a
  /\ Reserve(a)
  /\ UNCHANGED failed

RollbackKeepsProjection(a, kind) ==
  /\ Allowed(kind) /\ Room(a)
  /\ ~active
  /\ list' = <<>>
  /\ projected' = [state |-> Work(kind).state, original |-> Work(kind).original]
  /\ UNCHANGED <<active, failed, initial_admitted, works, bytes, stage>>

(* REST refuses the first head: the call rolls everything back and reports *)
(* the error.  The whole list is cleared, which loses nothing only because *)
(* an idle queue is empty.                                                 *)
Rollback(a, kind) ==
  /\ Allowed(kind) /\ Room(a)
  /\ ~active
  /\ list' = <<>>
  /\ UNCHANGED <<active, failed, flags, works, bytes, stage>>

(* A call on the flow, by the handler or by a callback that still has its  *)
(* context.  A refused call changes nothing and is not a step.             *)
Enqueue(call) ==
  LET a == accepted + 1
      kind == KindOf(call)
  IN  /\ handler = "running"
      /\ a \in Actions
      /\ Accept(a, kind) \/ Rollback(a, kind)
      /\ UNCHANGED <<owner_destroyed, references, committed, status, terminals,
                     cancel_requested, hook, others, handler, timer, stopping,
                     storage>>

(* dcc_rest_request_cancel on a handle the caller holds: remembered on the *)
(* handle; for the submitted action the REST worker then reports it.       *)
Cancel(a) ==
  /\ stage[a] \in {"queued", "submitted", "dependent"}
  /\ ~cancel_requested[a]
  /\ Cardinality({b \in Actions : cancel_requested[b]}) < MaxCancels
  /\ cancel_requested' = [cancel_requested EXCEPT ![a] = TRUE]
  /\ UNCHANGED <<linked, flags, works, bytes, owner_destroyed, references,
                 committed, stage, status, terminals, hook, others, handler,
                 timer, stopping, storage>>

-----------------------------------------------------------------------------
(* Terminal delivery.                                                      *)

(* The queue's part of the terminal result of action a.                    *)
Result(a, s) ==
  /\ status' = [status EXCEPT ![a] = s]
  /\ terminals' = Append(terminals, a)
  /\ IF s = "OK"
     THEN /\ committed' = [state |-> act[a].state, original |-> act[a].original]
          /\ UNCHANGED <<failed, projected>>
     ELSE /\ failed' = TRUE
          /\ committed' = [committed EXCEPT !.state = "FAILED"]
          /\ projected' = [projected EXCEPT !.state = "FAILED"]

(* A REST worker finalizes the submitted action: the result callback runs  *)
(* under the queue lock, then the user callback and the error observers.   *)
Deliver(a) ==
  /\ stage[a] = "submitted"
  /\ \E s \in {"OK", "ERROR", "CANCELED"} :
       /\ s = "CANCELED" => cancel_requested[a] \/ stopping
       /\ Result(a, s)
  /\ stage' = [stage EXCEPT ![a] = "delivered"]
  /\ UNCHANGED <<list, active, initial_admitted, works, bytes, owner_destroyed,
                 references, cancel_requested, hook, others, handler, timer,
                 stopping, storage>>

Unlink(a) == IF list # <<>> /\ Head(list) = a THEN Tail(list) ELSE list

DetachIdle(a, deps, s) ==
  /\ list' = <<>>
  /\ active' = FALSE
  /\ hook' = [hook EXCEPT ![a] =
                [deps |-> deps, answer |-> s, cascade |-> deps # <<>>]]
  /\ stage' = [b \in Actions |->
                 IF b = a THEN "hook"
                 ELSE IF \E i \in 1 .. Len(deps) : deps[i] = b THEN "dependent"
                 ELSE stage[b]]

DetachSilently(a, deps, s) ==
  /\ list' = <<>>
  /\ active' = FALSE
  /\ hook' = [hook EXCEPT ![a] = NoHook]
  /\ stage' = [stage EXCEPT ![a] = "hook"]

(* The dependents leave the queue; active stays set until each has its     *)
(* local terminal result.                                                  *)
Detach(a, deps, s) ==
  /\ list' = <<>>
  /\ active' = (deps # <<>>)
  /\ hook' = [hook EXCEPT ![a] =
                [deps |-> deps, answer |-> s, cascade |-> deps # <<>>]]
  /\ stage' = [b \in Actions |->
                 IF b = a THEN "hook"
                 ELSE IF \E i \in 1 .. Len(deps) : deps[i] = b THEN "dependent"
                 ELSE stage[b]]

Retain == references' = references + 1

(* The post-hook of action a, first critical section: the action leaves    *)
(* the queue, and the next one starts or the dependents are detached.      *)
PostResultFails(a) ==
  /\ status[a] # "OK"
  /\ Detach(a, Unlink(a), IF status[a] = "CANCELED" THEN "CANCELED" ELSE "STATE")
  /\ UNCHANGED failed

PostResultIdle(a) ==
  /\ status[a] = "OK"
  /\ Unlink(a) = <<>> \/ failed
  /\ list' = Unlink(a)
  /\ active' = FALSE
  /\ hook' = [hook EXCEPT ![a] = NoHook]
  /\ stage' = [stage EXCEPT ![a] = "hook"]
  /\ UNCHANGED failed

PostResultStarts(a) ==
  /\ status[a] = "OK"
  /\ Unlink(a) # <<>> /\ ~failed
  /\ SubmitHeadAdmits(Head(Unlink(a)))
  /\ list' = Unlink(a)
  /\ active' = TRUE
  /\ hook' = [hook EXCEPT ![a] = NoHook]
  /\ stage' = [stage EXCEPT ![a] = "hook", ![Head(Unlink(a))] = "submitted"]
  /\ UNCHANGED failed

PostResultRefusedQuietly(a) ==
  /\ status[a] = "OK"
  /\ Unlink(a) # <<>> /\ ~failed
  /\ UNCHANGED failed
  /\ \E s \in SubmitHeadRefusals(Head(Unlink(a))) : Detach(a, Unlink(a), s)

PostResultRefused(a) ==
  /\ status[a] = "OK"
  /\ Unlink(a) # <<>> /\ ~failed
  /\ failed' = TRUE
  /\ \E s \in SubmitHeadRefusals(Head(Unlink(a))) : Detach(a, Unlink(a), s)

PostResult(a) ==
  /\ stage[a] = "delivered"
  /\ Retain
  /\ Release(a)
  /\ \/ PostResultFails(a)
     \/ PostResultIdle(a)
     \/ PostResultStarts(a)
     \/ PostResultRefused(a)
  /\ UNCHANGED <<flags, works, owner_destroyed, committed, status, terminals,
                 cancel_requested, others, handler, timer, stopping, storage>>

(* deliver_synthetic: the next detached dependent gets its local terminal  *)
(* result (and its user callback runs) ...                                 *)
DeliverSynthetic(a) ==
  /\ stage[a] = "hook" /\ hook[a].deps # <<>>
  /\ LET d == Head(hook[a].deps) IN
       /\ stage[d] = "dependent"
       /\ Result(d, hook[a].answer)
       /\ stage' = [stage EXCEPT ![d] = "finalized"]
  /\ UNCHANGED <<list, active, initial_admitted, works, bytes, owner_destroyed,
                 references, cancel_requested, hook, others, handler, timer,
                 stopping, storage>>

(* ... and then its bytes are returned and it is freed.                    *)
ReleaseSynthetic(a) ==
  /\ stage[a] = "hook" /\ hook[a].deps # <<>>
  /\ LET d == Head(hook[a].deps) IN
       /\ stage[d] = "finalized"
       /\ Release(d)
       /\ stage' = [stage EXCEPT ![d] = "done"]
  /\ hook' = [hook EXCEPT ![a] = [deps |-> Tail(hook[a].deps), answer |-> "STATE",
                                  cascade |-> hook[a].cascade]]
  /\ UNCHANGED <<linked, flags, works, owner_destroyed, references, committed,
                 status, terminals, cancel_requested, others, handler, timer,
                 stopping, storage>>

DropAtZero(act_now) ==
  /\ references' = references - 1
  /\ storage' = IF references - 1 = 0 THEN "released" ELSE storage

(* Dropping a reference: the last one out of an idle, empty queue releases *)
(* it, after the unlock.                                                   *)
Drop(act_now) ==
  /\ references' = references - 1
  /\ storage' = IF references - 1 = 0 /\ ~act_now /\ list = <<>>
                THEN "released" ELSE storage

(* The post-hook of action a, last critical section.                       *)
PostResultEnds(a) ==
  /\ stage[a] = "hook" /\ hook[a].deps = <<>>
  /\ active' = (active /\ ~hook[a].cascade)
  /\ Drop(active')
  /\ stage' = [stage EXCEPT ![a] = "done"]
  /\ UNCHANGED <<list, failed, flags, works, bytes, owner_destroyed, committed,
                 status, terminals, cancel_requested, hook, others, handler,
                 timer, stopping>>

(* finalize: what is left in the list is freed, the identity charge is     *)
(* returned and the memory goes.                                           *)
Finalize ==
  /\ storage = "released"
  /\ storage' = "freed"
  /\ total' = total - IdentityCharge
  /\ UNCHANGED <<linked, flags, works, reserved, action_count, owner_destroyed,
                 references, committed, stage, status, terminals,
                 cancel_requested, hook, others, handler, timer, stopping>>

-----------------------------------------------------------------------------
(* The dispatcher and the auto-defer timer.                                *)

(* dcc_app_auto_defer_start: the timer holds a reference of the queue; a   *)
(* failed spawn gives it back at once.                                     *)
AutoDeferStart ==
  /\ handler = "starting"
  /\ handler' = "running"
  /\ \/ timer' = "armed" /\ Retain
     \/ UNCHANGED <<timer, references>>
  /\ UNCHANGED <<linked, flags, works, bytes, owner_destroyed, committed, stage,
                 status, terminals, cancel_requested, hook, others, stopping,
                 storage>>

(* The timer wakes: unless the handler has finished it defers the initial  *)
(* response, which the queue refuses when one was admitted.  The test of   *)
(* done and the call are two steps of the task.                            *)
TimerWakes ==
  /\ timer = "armed"
  /\ timer' = IF handler = "running" THEN "defers" ELSE "releases"
  /\ UNCHANGED <<linked, flags, works, bytes, owner_destroyed, references,
                 committed, stage, status, terminals, cancel_requested, hook,
                 others, handler, stopping, storage>>

TimerDefers ==
  LET a == accepted + 1
  IN  /\ timer = "defers"
      /\ timer' = "releases"
      /\ \/ a \in Actions /\ (Accept(a, "defer") \/ Rollback(a, "defer"))
         \/ /\ ~(Allowed("defer") /\ a \in Actions /\ Room(a))
            /\ UNCHANGED <<linked, flags, works, bytes, stage>>
      /\ UNCHANGED <<owner_destroyed, references, committed, status, terminals,
                     cancel_requested, hook, others, handler, stopping, storage>>

TimerRearms ==
  /\ timer = "releases"
  /\ timer' = "armed"
  /\ UNCHANGED <<references, storage>>
  /\ UNCHANGED <<linked, flags, works, bytes, owner_destroyed, committed, stage,
                 status, terminals, cancel_requested, hook, others, handler,
                 stopping>>

TimerReleases ==
  /\ timer = "releases"
  /\ timer' = "done"
  /\ Drop(active)
  /\ UNCHANGED <<linked, flags, works, bytes, owner_destroyed, committed, stage,
                 status, terminals, cancel_requested, hook, others, handler,
                 stopping>>

(* The handler returns: dcc_app_auto_defer_finish ...                      *)
HandlerReturns ==
  /\ handler = "running"
  /\ handler' = "finished"
  /\ UNCHANGED <<linked, flags, works, bytes, owner_destroyed, references,
                 committed, stage, status, terminals, cancel_requested, hook,
                 others, timer, stopping, storage>>

(* ... and dcc_flow_destroy, which gives up the owner's reference.         *)
FlowDestroy ==
  /\ handler = "finished"
  /\ handler' = "gone"
  /\ owner_destroyed' = TRUE
  /\ Drop(active)
  /\ UNCHANGED <<linked, flags, works, bytes, committed, stage, status, terminals,
                 cancel_requested, hook, others, timer, stopping>>

(* Other queues of the client, which share the limit on the total.         *)
OthersReserve ==
  /\ total < MaxTotalBytes
  /\ others < MaxOthers
  /\ total' = total + 1
  /\ others' = others + 1
  /\ UNCHANGED <<linked, flags, works, reserved, action_count, owner_destroyed,
                 references, committed, stage, status, terminals,
                 cancel_requested, hook, handler, timer, stopping, storage>>

OthersRelease ==
  /\ others > 0
  /\ total' = total - 1
  /\ others' = others - 1
  /\ UNCHANGED <<linked, flags, works, reserved, action_count, owner_destroyed,
                 references, committed, stage, status, terminals,
                 cancel_requested, hook, handler, timer, stopping, storage>>

ClientStop ==
  /\ ~stopping
  /\ stopping' = TRUE
  /\ UNCHANGED <<linked, flags, works, bytes, owner_destroyed, references,
                 committed, stage, status, terminals, cancel_requested, hook,
                 others, handler, timer, storage>>

(* Everything is over: the behaviour may stop here.                        *)
Over ==
  /\ storage = "freed"
  /\ UNCHANGED vars

(* The steps of the worker that finalizes action a.                        *)
Worker(a) ==
  \/ Deliver(a) \/ PostResult(a) \/ PostResultEnds(a)
  \/ DeliverSynthetic(a) \/ ReleaseSynthetic(a)

Environment ==
  \/ OthersReserve \/ OthersRelease \/ ClientStop \/ Over

Next ==
  \/ \E call \in Calls : Enqueue(call)
  \/ \E a \in Actions : Cancel(a) \/ Worker(a)
  \/ Finalize \/ AutoDeferStart
  \/ TimerWakes \/ TimerDefers \/ TimerReleases
  \/ HandlerReturns \/ FlowDestroy
  \/ Environment

Spec == Init /\ [][Next]_vars

(* What the runtime owes: REST delivers a terminal result for what it      *)
(* admitted, a delivering worker runs on, a sleeping timer wakes, and the  *)
(* thread that drops the last reference goes on to free the queue.  The    *)
(* handler is user code; that it returns is assumed.                       *)
Fairness ==
  /\ \A a \in Actions : WF_vars(Worker(a))
  /\ WF_vars(Finalize)
  /\ WF_vars(TimerWakes) /\ WF_vars(TimerDefers) /\ WF_vars(TimerReleases)
  /\ WF_vars(AutoDeferStart) /\ WF_vars(HandlerReturns) /\ WF_vars(FlowDestroy)

FairSpec == Spec /\ Fairness

-----------------------------------------------------------------------------
(* Properties.                                                             *)

Stages == {"unused", "queued", "submitted", "delivered", "hook", "done",
           "dependent", "finalized"}
FlowView == [state : FlowStates, original : BOOLEAN]
Works == [initial : BOOLEAN, queued : FlowStates, state : FlowStates,
          original : BOOLEAN]

TypeQueue ==
  /\ list \in Seq(Actions)
  /\ active \in BOOLEAN
  /\ accepted \in 0 .. MaxAccepted
  /\ stage \in [Actions -> Stages]
  /\ status \in [Actions -> Outcomes \cup {None}]
  /\ terminals \in Seq(Actions)
  /\ cancel_requested \in [Actions -> BOOLEAN]
  /\ hook \in [Actions -> [deps : Seq(Actions), answer : Outcomes,
                          cascade : BOOLEAN]]

TypeFlow ==
  /\ failed \in BOOLEAN
  /\ initial_admitted \in BOOLEAN
  /\ committed \in FlowView /\ projected \in FlowView
  /\ act \in [Actions -> Works]

TypeUse ==
  /\ references \in Nat
  /\ owner_destroyed \in BOOLEAN
  /\ stopping \in BOOLEAN
  /\ handler \in {"starting", "running", "finished", "gone"}
  /\ timer \in {"none", "armed", "defers", "releases", "done"}
  /\ storage \in {"live", "released", "freed"}

TypeBytes ==
  /\ reserved \in Nat /\ action_count \in Nat
  /\ total \in Nat /\ others \in Nat

(* The variables keep their types; the counters never go below zero, so    *)
(* the guards against underflow in action_release and in the reference     *)
(* drops never take effect.                                                *)
TypeOK == TypeQueue /\ TypeFlow /\ TypeUse /\ TypeBytes

Cascading(a) == stage[a] = "hook" /\ hook[a].cascade

(* What queue->active means outside the lock: an inactive queue holds no   *)
(* action, and an active one has either its head in REST's hands, the rest *)
(* waiting, or no list at all and one post-hook answering dependents.  The *)
(* rollback of a first head clears the whole list because of it.           *)
ActiveMeansInFlight ==
  /\ ~active => list = <<>> /\ \A a \in Actions : ~Cascading(a)
  /\ active /\ list # <<>> =>
       /\ stage[Head(list)] \in {"submitted", "delivered"}
       /\ \A i \in 2 .. Len(list) : stage[list[i]] = "queued"
       /\ \A a \in Actions : ~Cascading(a)
  /\ active /\ list = <<>> => \E a \in Actions : Cascading(a)

(* The first accepted action, and only it, is an initial response, however *)
(* the handler, its callbacks and the auto-defer timer interleave.         *)
InitialComesFirstOnce ==
  \A a \in 1 .. accepted : act[a].initial <=> a = 1

(* The reference count is the number of parties that still use the queue,  *)
(* and once the queue is to be released nobody is left who would touch it: *)
(* no owner, no timer, no action in REST, in the list or in a post-hook.   *)
ReferencesExact ==
  /\ references = Cardinality({a \in Actions : stage[a] = "hook"})
                    + (IF owner_destroyed THEN 0 ELSE 1)
                    + (IF timer \in {"armed", "defers", "releases"} THEN 1 ELSE 0)
  /\ storage # "live" =>
       /\ owner_destroyed
       /\ timer \in {"none", "done"}
       /\ \A a \in Actions : stage[a] \in {"unused", "done"}

(* What dcc_app_interaction_queue_state reports.                           *)
ReportedState ==
  IF failed THEN "FAILED"
  ELSE IF active /\ list # <<>> /\ status[Head(list)] = None
            /\ act[Head(list)].queued # "READY"
  THEN act[Head(list)].queued
  ELSE committed.state

(* The reported state never says READY again once an initial response was  *)
(* admitted, and an idle queue that has not failed has committed exactly   *)
(* what its calls projected.                                               *)
ReportedStateTracksCalls ==
  /\ initial_admitted => ReportedState # "READY"
  /\ ~active /\ ~failed => committed = projected

Held(a) == stage[a] \in {"queued", "submitted", "delivered", "dependent", "finalized"}
CostOf[n \in 0 .. MaxAccepted] ==
  IF n = 0 THEN 0 ELSE CostOf[n - 1] + (IF Held(n) THEN Cost[n] ELSE 0)

(* The byte counters are exact: the queue's holds its identity and the     *)
(* actions it still has, the client's holds that and the other queues',    *)
(* and both stay within their limits.                                      *)
BytesExact ==
  /\ reserved = IdentityCharge + CostOf[MaxAccepted]
  /\ action_count = Cardinality({a \in Actions : Held(a)})
  /\ total = others + (IF storage = "freed" THEN 0 ELSE reserved)
  /\ reserved <= MaxQueueBytes /\ total <= MaxTotalBytes

(* Every accepted action gets its terminal result: from some moment on all *)
(* of the (boundedly many) accepted actions have theirs.                   *)
AcceptedIsAnswered ==
  <>[](\A a \in 1 .. accepted : status[a] # None)

(* A queue whose flow was destroyed is freed.                              *)
DestroyedIsFreed ==
  owner_destroyed ~> storage = "freed"

Abstract == INSTANCE OrderedResponses WITH
  answers <- [i \in 1 .. Len(terminals) |-> status[terminals[i]]],
  running <- IF \E a \in Actions : stage[a] \in {"submitted", "delivered"}
             THEN CHOOSE a \in Actions : stage[a] \in {"submitted", "delivered"}
             ELSE 0,
  broken  <- failed

(* The queue implements the ordered responses it promises.                 *)
ImplementsOrderedResponses == Abstract!Spec
=============================================================================
