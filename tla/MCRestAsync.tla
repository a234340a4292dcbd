---------------------------- MODULE MCRestAsync ----------------------------
(* Small instances of RestAsync for TLC. *)
EXTENDS RestAsync

CONSTANTS r1, r2, r3, ra, rb

(* r1 and r2 share a route, r2 and r3 a priority, the lower one; the two   *)
(* routes share a bucket.                                                  *)
MCRouteOf == [r \in Requests |-> IF r = r3 THEN rb ELSE ra]
MCPriorityOf == [r \in Requests |-> IF r = r1 THEN 1 ELSE 0]
MCChargeOf == [r \in Requests |-> 2]
MCBucketOf == [rt \in Routes |-> "hash"]

(* What the program does when nothing else is said: it submits s. *)
Submits(s) ==
    [submits |-> s, cancels |-> {}, limited |-> {}, destroys |-> FALSE,
     spawns |-> 0, bulk |-> 0, waits |-> 0]

(* Requests that are waited for; one canceled behind one that is answered  *)
(* 429 and retried, while a task is refused; a client destroyed under      *)
(* them, also while they are retried; a bulk cancellation of two routes,   *)
(* and one that the client is destroyed under; three requests of two       *)
(* routes and two priorities, one of them taken from the middle of its     *)
(* list when its task is refused.                                          *)
RestEnvironments ==
    {[Submits({r1}) EXCEPT !.limited = {r1}, !.waits = 1],
     [Submits({r1, r2}) EXCEPT !.waits = 1],
     [Submits({r1, r2}) EXCEPT !.limited = {r1}, !.cancels = {r2}, !.spawns = 1],
     [Submits({r1}) EXCEPT !.limited = {r1}, !.destroys = TRUE],
     [Submits({r1, r2}) EXCEPT !.destroys = TRUE],
     [Submits({r1, r3}) EXCEPT !.bulk = 1],
     [Submits({r1}) EXCEPT !.bulk = 1, !.destroys = TRUE],
     [Submits({r1, r2, r3}) EXCEPT !.spawns = 1]}

(* Requests that are submitted and left alone. *)
QuietEnvironments == {[Submits(Requests) EXCEPT !.limited = Requests]}
=============================================================================
