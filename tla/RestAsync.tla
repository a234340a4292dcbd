----------------------------- MODULE RestAsync -----------------------------
(***************************************************************************)
(* The asynchronous REST queue of the DCC client (src/src/rest): admission *)
(* of a request, the per-priority pending lists, the drain loop that moves *)
(* requests from a list to a worker task, the worker with its 429 retry,   *)
(* cancellation, dcc_rest_async_wait and the REST part of the client's     *)
(* teardown.                                                               *)
(*                                                                         *)
(* Every critical section of rest_lock is one action, except that the      *)
(* drain loop, which runs with rest_lock held, is a sequence of steps:     *)
(* resource_lock is taken and released inside it, so that a submission may *)
(* reserve bytes between two of its steps.  While drain # NoDrain the      *)
(* thread drain.by holds rest_lock.                                        *)
(*                                                                         *)
(* Time is relative: reset_in[rt] is the time left until the bucket of     *)
(* route rt resets (its remaining count being 0), and so on; Tick is the   *)
(* passing of one unit of time.                                            *)
(***************************************************************************)
EXTENDS FiniteSets, Lists

CONSTANTS
    Requests,           \* the requests that threads of the program submit
    Routes,             \* rate-limit route keys
    Levels,             \* DCC_REST_PRIORITY_LEVELS, priorities are 0..Levels-1
    RouteOf,            \* request->route
    PriorityOf,         \* request->priority
    ChargeOf,           \* request->resource_charge
    BucketOf,           \* the X-RateLimit-Bucket hash of a route
    ResponseSizes,      \* sizes of a response body
    Concurrency,        \* dcc_rest_async_concurrency(client)
    RouteCap,           \* DCC_REST_BUCKET_CAP
    MaxRetries,         \* DCC_REST_MAX_RATE_LIMIT_RETRIES
    MaxRequestBytes, MaxQueuedRequests, MaxQueuedBytes,
    MaxActiveBytes, MaxResponseBytes,   \* client->rest_max_...
    SizeMod,            \* SIZE_MAX + 1
    MaxWait,            \* bound: longest reset time a response can announce
    Environments,       \* bound: what may happen in a behaviour, see Environment
    None                \* no request

Priorities == 0 .. Levels - 1

(* Threads that can run the drain loop or hold a detached list. *)
Submitter(r) == <<"submit", r>>
Worker(r) == <<"worker", r>>
Canceler(r) == <<"cancel", r>>
Waker == <<"wake", None>>
Waiter == <<"wait", None>>
Bulk == <<"bulk", None>>
Destroyer == <<"destroy", None>>

Threads == {Waker, Waiter, Bulk, Destroyer} \cup
    {<<k, r>> : k \in {"submit", "worker", "cancel"}, r \in Requests}

(* What the program, the runtime and Discord may do in a behaviour: the    *)
(* requests submitted, those canceled and those whose responses may be     *)
(* 429, whether the client is destroyed, and how many tasks are refused by *)
(* dcc_runtime_spawn, bulk cancellations made and waits called.            *)
Environment ==
    [submits : SUBSET Requests, cancels : SUBSET Requests,
     limited : SUBSET Requests, destroys : BOOLEAN, spawns : Nat, bulk : Nat, waits : Nat]

ASSUME ConstantsAssumption ==
    /\ Levels \in Nat \ {0}
    /\ RouteOf \in [Requests -> Routes]
    /\ PriorityOf \in [Requests -> Priorities]
    /\ ChargeOf \in [Requests -> Nat \ {0}]
    /\ DOMAIN BucketOf = Routes
    /\ ResponseSizes \subseteq Nat
    /\ MaxRetries \in Nat /\ MaxWait \in Nat
    /\ None \notin Requests /\ None \notin Threads
    /\ Environments \subseteq Environment

(* The limits dcc_client_create accepts, and the clamp of                  *)
(* dcc_rest_async_concurrency.                                             *)
ASSUME LimitsAssumption ==
    /\ Concurrency \in Nat \ {0} /\ RouteCap \in Nat /\ Concurrency <= RouteCap
    /\ MaxRequestBytes \in Nat /\ MaxQueuedRequests \in Nat
    /\ MaxQueuedBytes \in Nat /\ MaxActiveBytes \in Nat
    /\ MaxResponseBytes \in Nat /\ SizeMod \in Nat
    /\ MaxQueuedBytes >= MaxRequestBytes
    /\ MaxActiveBytes >= MaxRequestBytes + MaxResponseBytes
    /\ MaxQueuedBytes < SizeMod /\ MaxActiveBytes < SizeMod

VARIABLES
    queue,              \* rest_async_heads/tails: the pending list of each priority
    active_list,        \* the requests linked from rest_async_active_head
    active,             \* rest_async_active
    active_routes,      \* rest_async_active_routes[0..count-1]
    route_claimed,      \* request->route_claimed
    drain,              \* the drain loop in progress (and with it rest_lock)
    queued_requests, queued_request_bytes, active_request_bytes, \* runtime stats
    resource_state,     \* request->resource_state
    response_bytes,     \* captured.reserved_body_bytes of the request's worker
    reset_in,           \* time until the bucket of a route resets
    global_in,          \* time until rest_global_reset_at_ms
    retry_in,           \* time until request->not_before_ms
    retry_attempt,      \* request->retry_attempt
    wakes,              \* retry wake tasks: <<request, attempt, time left>>
    wait_in,            \* time until the waiter's timed wait ends, or -1
    sub,                \* progress of dcc_rest_submit_core for a request
    worker,             \* progress of the request's worker task
    outcome,            \* what the worker got from dcc_rest_request_raw_impl
    handle_cancel,      \* request_handle->cancel_requested
    cancel_requested,   \* request->cancel_requested
    canceler,           \* progress of dcc_rest_request_cancel for a request
    owner,              \* thread that holds the request on a detached list
    terminal,           \* calls that finalize the request's handle
    stopping,           \* client->stopping
    admission_closed,   \* client->rest_admission_closed
    operations,         \* rest_operations_in_flight
    teardown,           \* progress of dcc_client_prepare_destroy
    waiter,             \* progress of a thread in dcc_rest_async_wait
    budget,             \* what of its environment the behaviour has not used yet
    submitted           \* history: the requests in the order they were queued

sched == <<queue, active_list, active, active_routes, route_claimed>>
res == <<queued_requests, queued_request_bytes, active_request_bytes,
         resource_state, response_bytes>>
limits == <<reset_in, global_in>>
work == <<worker, outcome, retry_attempt>>
cancels == <<handle_cancel, cancel_requested, canceler, owner>>
client == <<stopping, admission_closed, operations, teardown>>
vars == <<sched, drain, res, limits, retry_in, wakes, wait_in, sub, work,
          cancels, terminal, client, waiter, budget, submitted>>

(* The drain loop: the thread that runs it, the submission it runs for,    *)
(* whether the caller runs it a second time after a failure, and the       *)
(* request it took with its index in the pending list.                     *)
NoDrain == [by |-> None, admission |-> None, again |-> FALSE,
            taken |-> None, at |-> 0]

Draining(thread, admission, again) ==
    [by |-> thread, admission |-> admission, again |-> again,
     taken |-> None, at |-> 0]

Taking(r, i) ==
    [by |-> drain.by, admission |-> drain.admission, again |-> drain.again,
     taken |-> r, at |-> i]

LockFree == drain = NoDrain

-----------------------------------------------------------------------------
(* Arithmetic and sequences.                                               *)

Larger(a, b) == IF a >= b THEN a ELSE b

(* Subtraction of two size_t values: it wraps around. *)
SizeSub(a, b) == IF a >= b THEN a - b ELSE SizeMod + a - b

(* A decrement the code guards with "if (value >= amount)". *)
GuardedSub(a, b) == IF a >= b THEN a - b ELSE a

(* Mutant: the element after i is lost and i kept. *)
UnlinkNext(s, i) == IF i < Len(s) THEN Without(s, i + 1) ELSE Without(s, i)

Unlink(s, i) == Without(s, i)

(* Mutant: restored at the head of the list. *)
RestoreFirst(s, i, e) == <<e>> \o s

Restore(s, i, e) == WithAt(s, i, e)

InQueue(r) == r \in Elements(queue[PriorityOf[r]])

Pending == {r \in Requests : InQueue(r)}

-----------------------------------------------------------------------------
(* Resource accounting: each of these is one critical section of           *)
(* resource_lock.                                                          *)

ReserveQueued(r) ==
    /\ ChargeOf[r] <= MaxRequestBytes
    /\ queued_requests < MaxQueuedRequests
    /\ ChargeOf[r] <= SizeSub(MaxQueuedBytes, queued_request_bytes)
    /\ queued_requests' = queued_requests + 1
    /\ queued_request_bytes' = queued_request_bytes + ChargeOf[r]
    /\ resource_state' = [resource_state EXCEPT ![r] = 1]
    /\ UNCHANGED <<active_request_bytes, response_bytes>>

CanActivate(r) ==
    /\ resource_state[r] = 1
    /\ ChargeOf[r] <= SizeSub(MaxActiveBytes, active_request_bytes)

Activate(r) ==
    /\ queued_requests' = GuardedSub(queued_requests, 1)
    /\ queued_request_bytes' = GuardedSub(queued_request_bytes, ChargeOf[r])
    /\ active_request_bytes' = active_request_bytes + ChargeOf[r]
    /\ resource_state' = [resource_state EXCEPT ![r] = 2]
    /\ UNCHANGED response_bytes

(* Mutant: the active bytes are not given back. *)
RequeueKeepsActive(r) ==
    /\ queued_requests' = queued_requests + 1
    /\ queued_request_bytes' = queued_request_bytes + ChargeOf[r]
    /\ resource_state' = [resource_state EXCEPT ![r] = 1]
    /\ UNCHANGED <<active_request_bytes, response_bytes>>

Requeue(r) ==
    IF resource_state[r] # 2
    THEN UNCHANGED res
    ELSE /\ active_request_bytes' = GuardedSub(active_request_bytes, ChargeOf[r])
         /\ queued_requests' = queued_requests + 1
         /\ queued_request_bytes' = queued_request_bytes + ChargeOf[r]
         /\ resource_state' = [resource_state EXCEPT ![r] = 1]
         /\ UNCHANGED response_bytes

ReleaseRequest(r) ==
    /\ \/ /\ resource_state[r] = 1
          /\ queued_requests' = GuardedSub(queued_requests, 1)
          /\ queued_request_bytes' = GuardedSub(queued_request_bytes, ChargeOf[r])
          /\ UNCHANGED active_request_bytes
       \/ /\ resource_state[r] = 2
          /\ active_request_bytes' = GuardedSub(active_request_bytes, ChargeOf[r])
          /\ UNCHANGED <<queued_requests, queued_request_bytes>>
    /\ resource_state' = [resource_state EXCEPT ![r] = 0]
    /\ UNCHANGED response_bytes

(* dcc_rest_async_request_free: the charge is given back and the job is    *)
(* zeroed.                                                                 *)
FreeJob(r) ==
    /\ ReleaseRequest(r)
    /\ cancel_requested' = [cancel_requested EXCEPT ![r] = FALSE]
    /\ retry_attempt' = [retry_attempt EXCEPT ![r] = 0]
    /\ retry_in' = [retry_in EXCEPT ![r] = 0]

-----------------------------------------------------------------------------
(* Pending lists and routes.                                               *)

(* dcc_rest_async_request_wait_ms_locked *)
WaitMs(r) == Larger(Larger(global_in, reset_in[RouteOf[r]]), retry_in[r])

(* dcc_rest_async_next_wake_ms_locked: the shortest wait, -1 if there is none. *)
NextWakeMs ==
    LET waits == {WaitMs(r) : r \in {q \in Pending : RouteOf[q] \notin active_routes}}
                    \ {0}
    IN  IF waits = {} THEN {-1} ELSE {w \in waits : \A v \in waits : w <= v}

(* Mutants: the route of an active request, the rate limits, or a          *)
(* cancellation is not looked at.                                          *)
EligibleAnyRoute(r) == cancel_requested[r] \/ WaitMs(r) = 0
EligibleAnyTime(r) == cancel_requested[r] \/ RouteOf[r] \notin active_routes
EligibleLive(r) == RouteOf[r] \notin active_routes /\ WaitMs(r) = 0

Eligible(r) ==
    \/ cancel_requested[r]
    \/ RouteOf[r] \notin active_routes /\ WaitMs(r) = 0

(* dcc_rest_async_take_next_locked stops at index i of the list of p. *)
IsNext(p, i) ==
    /\ Eligible(queue[p][i])
    /\ \A j \in 1 .. i - 1 : ~Eligible(queue[p][j])
    /\ \A q \in p + 1 .. Levels - 1 :
          \A j \in 1 .. Len(queue[q]) : ~Eligible(queue[q][j])

NothingEligible ==
    \A p \in Priorities : \A i \in 1 .. Len(queue[p]) : ~Eligible(queue[p][i])

PushTail(q, r) == [q EXCEPT ![PriorityOf[r]] = Append(@, r)]

(* Mutant: the route is not given back. *)
FinishActiveKeepsRoute(r) ==
    /\ active' = GuardedSub(active, 1)
    /\ active_list' = active_list \ {r}
    /\ route_claimed' = [route_claimed EXCEPT ![r] = FALSE]
    /\ UNCHANGED active_routes

(* dcc_rest_async_finish_active_locked *)
FinishActive(r) ==
    /\ active' = GuardedSub(active, 1)
    /\ active_list' = active_list \ {r}
    /\ active_routes' = IF route_claimed[r] THEN active_routes \ {RouteOf[r]}
                                            ELSE active_routes
    /\ route_claimed' = [route_claimed EXCEPT ![r] = FALSE]

(* Mutant: the heads of the lists are not cleared. *)
DetachPendingCopies(t) ==
    /\ owner' = [r \in Requests |-> IF InQueue(r) THEN t ELSE owner[r]]
    /\ UNCHANGED queue

(* dcc_rest_async_detach_pending_all_locked: thread t takes the whole list. *)
DetachPending(t) ==
    /\ queue' = [p \in Priorities |-> << >>]
    /\ owner' = [r \in Requests |-> IF InQueue(r) THEN t ELSE owner[r]]

(* Mutant: the broadcast is forgotten. *)
NoSignal == UNCHANGED waiter

(* dcc_rest_async_signal: every broadcast is made under rest_wait_mutex,   *)
(* which the waiter holds from its check until it sleeps.                  *)
Signal == waiter' = IF waiter = "asleep" THEN "check" ELSE waiter

-----------------------------------------------------------------------------
(* The drain loop: dcc_rest_async_drain_impl_locked.                       *)

(* The loop returns DCC_OK.  The waiter then reads the counts, still       *)
(* holding rest_lock; every other thread unlocks and signals.              *)
DrainReturns ==
    /\ drain' = NoDrain
    /\ IF drain.by = Waiter
       THEN IF Pending' = {} /\ active' = 0
            THEN waiter' = "out" /\ wait_in' = -1
            ELSE waiter' = "asleep" /\ wait_in' \in NextWakeMs'
       ELSE Signal /\ UNCHANGED wait_in

(* The loop ends: the client stops, all worker slots are taken, no request *)
(* is eligible, or the next one does not fit in the active bytes and goes  *)
(* back to its place.                                                      *)
DrainStop ==
    /\ ~LockFree /\ drain.taken = None
    /\ \/ stopping
       \/ active >= Concurrency
       \/ NothingEligible
       \/ \E p \in Priorities : \E i \in 1 .. Len(queue[p]) :
             IsNext(p, i) /\ ~CanActivate(queue[p][i])
    /\ UNCHANGED <<sched, res, limits, retry_in, wakes, sub, work, cancels,
                   terminal, client, budget, submitted>>
    /\ DrainReturns

(* One iteration up to the spawn: the next request leaves its list, its    *)
(* bytes become active, and it claims its route unless it was canceled.    *)
(* dcc_rest_async_mark_route_active_locked cannot find its table full:     *)
(* see RouteTableFits.                                                     *)
TakeAt(p, i) ==
    LET r == queue[p][i] IN
    /\ IsNext(p, i) /\ CanActivate(r)
    /\ Activate(r)
    /\ queue' = [queue EXCEPT ![p] = Unlink(@, i)]
    /\ active_routes' = IF cancel_requested[r] THEN active_routes
                                         ELSE active_routes \cup {RouteOf[r]}
    /\ route_claimed' = [route_claimed EXCEPT ![r] = ~cancel_requested[r]]
    /\ active' = active + 1
    /\ active_list' = active_list \cup {r}
    /\ drain' = Taking(r, i)
    /\ UNCHANGED <<limits, retry_in, wakes, wait_in, sub, work, cancels,
                   terminal, client, waiter, budget, submitted>>

DrainTake ==
    /\ ~LockFree /\ drain.taken = None
    /\ ~stopping /\ active < Concurrency
    /\ \E p \in Priorities : \E i \in 1 .. Len(queue[p]) : TakeAt(p, i)

(* dcc_runtime_spawn accepts the worker task. *)
DrainSpawn ==
    /\ drain.taken # None
    /\ worker' = [worker EXCEPT ![drain.taken] = "start"]
    /\ drain' = Draining(drain.by, drain.admission, drain.again)
    /\ UNCHANGED <<sched, res, limits, retry_in, wakes, wait_in, sub, outcome,
                   retry_attempt, cancels, terminal, client, waiter, budget,
                   submitted>>

(* dcc_runtime_spawn refuses: the submission the loop runs for is rejected *)
(* with its bytes still active; any other request becomes queued again at  *)
(* its exact place.  A caller that retries runs the loop once more.        *)
DrainSpawnFails ==
    LET r == drain.taken IN
    /\ r # None
    /\ budget.spawns > 0
    /\ budget' = [budget EXCEPT !.spawns = @ - 1]
    /\ active' = active - 1
    /\ active_list' = active_list \ {r}
    /\ active_routes' = IF route_claimed[r] THEN active_routes \ {RouteOf[r]}
                                            ELSE active_routes
    /\ route_claimed' = [route_claimed EXCEPT ![r] = FALSE]
    /\ IF r = drain.admission
       THEN /\ sub' = [sub EXCEPT ![r] = "rejecting"]
            /\ UNCHANGED <<queue, res>>
       ELSE /\ Requeue(r)
            /\ queue' = [queue EXCEPT ![PriorityOf[r]] = Restore(@, drain.at, r)]
            /\ UNCHANGED sub
    /\ UNCHANGED <<limits, retry_in, wakes, work, cancels, terminal, client, submitted>>
    /\ IF drain.again
       THEN /\ drain' = Draining(drain.by, drain.admission, FALSE)
            /\ UNCHANGED <<waiter, wait_in>>
       ELSE DrainReturns

-----------------------------------------------------------------------------
(* Submission: dcc_rest_submit_core.                                       *)

(* dcc_rest_operation_begin *)
OperationBegin(r) ==
    /\ r \in budget.submits /\ sub[r] = "new" /\ LockFree
    /\ IF admission_closed
       THEN sub' = [sub EXCEPT ![r] = "refused"] /\ UNCHANGED operations
       ELSE /\ sub' = [sub EXCEPT ![r] = "begun"]
            /\ operations' = operations + 1
    /\ UNCHANGED <<sched, drain, res, limits, retry_in, wakes, wait_in, work,
                   cancels, terminal, stopping, admission_closed, teardown,
                   waiter, budget, submitted>>

(* The stopping check and the reservation of queue space; the handle and   *)
(* the job are then built and the handle is published to the caller.       *)
SubmitReserve(r) ==
    /\ sub[r] = "begun"
    /\ ~stopping
    /\ ReserveQueued(r)
    /\ sub' = [sub EXCEPT ![r] = "reserved"]
    /\ UNCHANGED <<sched, drain, limits, retry_in, wakes, wait_in, work,
                   cancels, terminal, client, waiter, budget, submitted>>

(* The client stops or a queue limit is reached: a local rejection. *)
SubmitRejected(r) ==
    /\ sub[r] = "begun"
    /\ \/ stopping
       \/ ChargeOf[r] > MaxRequestBytes
       \/ queued_requests >= MaxQueuedRequests
       \/ ChargeOf[r] > SizeSub(MaxQueuedBytes, queued_request_bytes)
    /\ sub' = [sub EXCEPT ![r] = "refusing"]
    /\ UNCHANGED <<sched, drain, res, limits, retry_in, wakes, wait_in, work,
                   cancels, terminal, client, waiter, budget, submitted>>

(* The handle or the job cannot be allocated, after the reservation and    *)
(* before the caller sees a handle to cancel.                              *)
SubmitNoMemory(r) ==
    /\ sub[r] = "reserved" /\ ~handle_cancel[r]
    /\ sub' = [sub EXCEPT ![r] = "refusing"]
    /\ ReleaseRequest(r)
    /\ UNCHANGED <<sched, drain, limits, retry_in, wakes, wait_in, work,
                   cancels, terminal, client, waiter, budget, submitted>>

(* Under rest_lock: a cancellation of the published handle is carried over *)
(* to the job, the job joins the tail of its list and the drain loop runs. *)
SubmitEnqueue(r) ==
    /\ sub[r] = "reserved" /\ LockFree
    /\ sub' = [sub EXCEPT ![r] = "queued"]
    /\ cancel_requested' = [cancel_requested EXCEPT ![r] = handle_cancel[r]]
    /\ queue' = PushTail(queue, r)
    /\ submitted' = Append(submitted, r)
    /\ drain' = Draining(Submitter(r), r, FALSE)
    /\ UNCHANGED <<active_list, active, active_routes, route_claimed, res, limits,
                   retry_in, wakes, wait_in, work, handle_cancel, canceler,
                   owner, terminal, client, waiter, budget>>

(* A job the loop rejected is freed. *)
SubmitFreeRejected(r) ==
    /\ sub[r] = "rejecting"
    /\ sub' = [sub EXCEPT ![r] = "refusing"]
    /\ FreeJob(r)
    /\ UNCHANGED <<sched, drain, limits, wakes, wait_in, worker, outcome,
                   handle_cancel, canceler, owner, terminal, client, waiter,
                   budget, submitted>>

(* The submission returns, after dcc_rest_operation_end. *)
SubmitReturn(r) ==
    /\ LockFree
    /\ \/ sub[r] = "queued" /\ sub' = [sub EXCEPT ![r] = "accepted"]
       \/ sub[r] = "refusing" /\ sub' = [sub EXCEPT ![r] = "refused"]
    /\ operations' = GuardedSub(operations, 1)
    /\ Signal
    /\ UNCHANGED <<sched, drain, res, limits, retry_in, wakes, wait_in, work,
                   cancels, terminal, stopping, admission_closed, teardown,
                   budget, submitted>>

-----------------------------------------------------------------------------
(* The worker task: dcc_rest_async_worker_task.                            *)

WorkerStart(r) ==
    /\ worker[r] = "start"
    /\ IF cancel_requested[r]
       THEN /\ worker' = [worker EXCEPT ![r] = "deliver"]
            /\ outcome' = [outcome EXCEPT ![r] = "canceled"]
       ELSE /\ worker' = [worker EXCEPT ![r] = "http"]
            /\ UNCHANGED outcome
    /\ UNCHANGED <<sched, drain, res, limits, retry_in, wakes, wait_in, sub,
                   retry_attempt, cancels, terminal, client, waiter, budget,
                   submitted>>

(* The firewall, the preparation or the transport fails, which includes    *)
(* the socket closed by a cancellation.                                    *)
HttpFails(r) ==
    /\ worker[r] = "http"
    /\ worker' = [worker EXCEPT ![r] = "deliver"]
    /\ outcome' = [outcome EXCEPT ![r] = IF cancel_requested[r] THEN "canceled"
                                                                ELSE "error"]
    /\ UNCHANGED <<sched, drain, res, limits, retry_in, wakes, wait_in, sub,
                   retry_attempt, cancels, terminal, client, waiter, budget,
                   submitted>>

(* dcc_rest_update_rate_limit: the routes whose bucket entry carries the   *)
(* same hash as the route of r, which is known or not yet.                 *)
Related(r) == {{RouteOf[r]}, {rt \in Routes : BucketOf[rt] = BucketOf[RouteOf[r]]}}

SetReset(routes, w) == reset_in' = [rt \in Routes |-> IF rt \in routes THEN w ELSE reset_in[rt]]

(* A response arrives and its rate-limit headers are applied: a 429 closes *)
(* the bucket, and all routes when it is global; another response closes   *)
(* it, opens it, or says nothing about it.                                 *)
HttpResponse(r) ==
    /\ worker[r] = "http" /\ LockFree
    /\ worker' = [worker EXCEPT ![r] = "classify"]
    /\ \/ /\ r \in budget.limited
          /\ outcome' = [outcome EXCEPT ![r] = "limited"]
          /\ \E w \in 0 .. MaxWait, routes \in Related(r) :
                /\ SetReset(routes, w)
                /\ global_in' \in {global_in, IF w = 0 THEN global_in ELSE w}
       \/ /\ outcome' = [outcome EXCEPT ![r] = "ok"]
          /\ \/ UNCHANGED reset_in
             \/ \E w \in 0 .. MaxWait, routes \in Related(r) : SetReset(routes, w)
          /\ UNCHANGED global_in
    /\ UNCHANGED <<sched, drain, res, retry_in, wakes, wait_in, sub,
                   retry_attempt, cancels, terminal, client, waiter, budget,
                   submitted>>

MayRetry(r) == retry_attempt[r] < MaxRetries

(* dcc_rest_capture_cb copies the body within the response and the active  *)
(* bytes; then the worker decides: canceled, failed, retried or delivered. *)
Classify(r) ==
    /\ worker[r] = "classify"
    /\ \E bytes \in ResponseSizes :
          LET fits == /\ bytes <= MaxResponseBytes
                      /\ bytes <= SizeSub(MaxActiveBytes, active_request_bytes)
              result == IF cancel_requested[r] THEN "canceled"
                        ELSE IF fits THEN outcome[r] ELSE "error"
              retried == result = "limited" /\ MayRetry(r)
          IN
          /\ response_bytes' = [response_bytes EXCEPT ![r] = IF fits THEN bytes ELSE 0]
          /\ active_request_bytes' = active_request_bytes + IF fits THEN bytes ELSE 0
          /\ outcome' = [outcome EXCEPT ![r] = result]
          /\ worker' = [worker EXCEPT ![r] = IF retried THEN "backoff" ELSE "deliver"]
          /\ retry_attempt' = [retry_attempt EXCEPT ![r] = IF retried THEN @ + 1 ELSE @]
    /\ UNCHANGED <<sched, drain, queued_requests, queued_request_bytes,
                   resource_state, limits, retry_in, wakes, wait_in, sub,
                   cancels, terminal, client, waiter, budget, submitted>>

(* dcc_rest_async_retry_not_before_ms *)
Backoff(r) ==
    /\ worker[r] = "backoff" /\ LockFree
    /\ worker' = [worker EXCEPT ![r] = "retry"]
    /\ retry_in' = [retry_in EXCEPT ![r] =
                      Larger(1, Larger(global_in, reset_in[RouteOf[r]]))]
    /\ UNCHANGED <<sched, drain, res, limits, wakes, wait_in, sub, outcome,
                   retry_attempt, cancels, terminal, client, waiter, budget,
                   submitted>>

(* dcc_rest_captured_response_deinit, before the retry and after the       *)
(* delivery.                                                               *)
ReleaseResponse(r) ==
    /\ \/ worker[r] = "retry" /\ worker' = [worker EXCEPT ![r] = "requeue"]
       \/ worker[r] = "delivered" /\ worker' = [worker EXCEPT ![r] = "complete"]
    /\ active_request_bytes' = GuardedSub(active_request_bytes, response_bytes[r])
    /\ response_bytes' = [response_bytes EXCEPT ![r] = 0]
    /\ UNCHANGED <<sched, drain, queued_requests, queued_request_bytes,
                   resource_state, limits, retry_in, wakes, wait_in, sub,
                   outcome, retry_attempt, cancels, terminal, client, waiter,
                   budget, submitted>>

(* Mutant: a request that cannot be retried completes without a result. *)
RetryAbandonedSilently(r) ==
    /\ worker[r] = "requeue" /\ LockFree
    /\ worker' = [worker EXCEPT ![r] = "complete"]
    /\ UNCHANGED <<sched, drain, res, limits, retry_in, wakes, wait_in, sub,
                   outcome, retry_attempt, cancels, terminal, client, waiter,
                   budget, submitted>>

(* dcc_rest_async_requeue_retry gives up: no memory for the wake task, or  *)
(* the client is stopping.                                                 *)
RetryAbandoned(r) ==
    /\ worker[r] = "requeue" /\ LockFree
    /\ worker' = [worker EXCEPT ![r] = "deliver"]
    /\ outcome' = [outcome EXCEPT ![r] = "canceled"]
    /\ UNCHANGED <<sched, drain, res, limits, retry_in, wakes, wait_in, sub,
                   retry_attempt, cancels, terminal, client, waiter, budget,
                   submitted>>

(* dcc_rest_async_requeue_retry: the request leaves its worker slot, joins *)
(* the tail of its list with a start time, and the drain loop runs.  The   *)
(* wake task that will run the loop at that time may fail to spawn.        *)
RequeueRetry(r) ==
    /\ worker[r] = "requeue" /\ LockFree
    /\ ~stopping
    /\ FinishActive(r)
    /\ Requeue(r)
    /\ queue' = PushTail(queue, r)
    /\ worker' = [worker EXCEPT ![r] = "none"]
    /\ outcome' = [outcome EXCEPT ![r] = "none"]
    /\ drain' = Draining(Worker(r), None, FALSE)
    /\ \/ /\ wakes' = wakes \cup {<<r, retry_attempt[r], retry_in[r]>>}
          /\ UNCHANGED budget
       \/ /\ budget.spawns > 0
          /\ budget' = [budget EXCEPT !.spawns = @ - 1]
          /\ UNCHANGED wakes
    /\ UNCHANGED <<limits, retry_in, wait_in, sub, retry_attempt, cancels,
                   terminal, client, waiter, submitted>>

(* The call of dcc_rest_request_handle_finalize, which delivers the        *)
(* terminal result and whose compare-and-swap drops a second call.         *)
Deliver(r) ==
    /\ worker[r] = "deliver"
    /\ worker' = [worker EXCEPT ![r] = "delivered"]
    /\ outcome' = [outcome EXCEPT ![r] = "none"]
    /\ terminal' = [terminal EXCEPT ![r] = @ + 1]
    /\ UNCHANGED <<sched, drain, res, limits, retry_in, wakes, wait_in, sub,
                   retry_attempt, cancels, client, waiter, budget, submitted>>

(* dcc_rest_async_complete: the slot and the route are given back and the  *)
(* drain loop runs, a second time if it fails; a stopping client detaches  *)
(* the pending requests instead.                                           *)
Complete(r) ==
    /\ worker[r] = "complete" /\ LockFree
    /\ worker' = [worker EXCEPT ![r] = "free"]
    /\ FinishActive(r)
    /\ IF stopping
       THEN /\ DetachPending(Worker(r))
            /\ Signal
            /\ UNCHANGED drain
       ELSE /\ drain' = Draining(Worker(r), None, TRUE)
            /\ UNCHANGED <<queue, owner, waiter>>
    /\ UNCHANGED <<res, limits, retry_in, wakes, wait_in, sub, outcome,
                   retry_attempt, handle_cancel, cancel_requested, canceler,
                   terminal, client, budget, submitted>>

(* The worker has canceled the list it detached, if any, and frees its job. *)
WorkerFree(r) ==
    /\ worker[r] = "free"
    /\ drain.by # Worker(r)
    /\ \A q \in Requests : owner[q] # Worker(r)
    /\ worker' = [worker EXCEPT ![r] = "none"]
    /\ FreeJob(r)
    /\ UNCHANGED <<sched, drain, limits, wakes, wait_in, sub, outcome,
                   handle_cancel, canceler, owner, terminal, client, waiter,
                   budget, submitted>>

(* dcc_rest_async_cancel_pending_list: the thread that detached r delivers *)
(* DCC_ERR_CANCELED and frees the job.                                     *)
CancelDetached(r) ==
    /\ owner[r] # None
    /\ owner' = [owner EXCEPT ![r] = None]
    /\ terminal' = [terminal EXCEPT ![r] = @ + 1]
    /\ FreeJob(r)
    /\ UNCHANGED <<sched, drain, limits, wakes, wait_in, sub, worker, outcome,
                   handle_cancel, canceler, client, waiter, budget, submitted>>

(* dcc_rest_async_retry_wake_worker, once its time has come. *)
RetryWake(w) ==
    /\ w \in wakes /\ w[3] = 0 /\ LockFree
    /\ wakes' = wakes \ {w}
    /\ IF stopping
       THEN Signal /\ UNCHANGED drain
       ELSE drain' = Draining(Waker, None, FALSE) /\ UNCHANGED waiter
    /\ UNCHANGED <<sched, res, limits, retry_in, wait_in, sub, work, cancels,
                   terminal, client, budget, submitted>>

-----------------------------------------------------------------------------
(* Cancellation.                                                           *)

(* dcc_rest_request_cancel, up to rest_lock, on a handle the caller has;   *)
(* terminal[r] # 0 is terminal_claimed.  dcc_rest_request_destroy makes    *)
(* the same call.                                                          *)
RequestCancel(r) ==
    /\ r \in budget.cancels
    /\ sub[r] \in {"reserved", "queued", "accepted"}
    /\ canceler[r] = "idle"
    /\ terminal[r] = 0
    /\ handle_cancel' = [handle_cancel EXCEPT ![r] = TRUE]
    /\ canceler' = [canceler EXCEPT ![r] = "lock"]
    /\ UNCHANGED <<sched, drain, res, limits, retry_in, wakes, wait_in, sub,
                   work, cancel_requested, owner, terminal, client, waiter,
                   budget, submitted>>

(* dcc_rest_request_cancel under rest_lock: an active or pending job is    *)
(* marked, and for a pending one the drain loop runs, twice if it fails.   *)
RequestCancelLocked(r) ==
    /\ canceler[r] = "lock" /\ LockFree
    /\ canceler' = [canceler EXCEPT ![r] = "done"]
    /\ IF terminal[r] = 0 /\ (InQueue(r) \/ r \in active_list)
       THEN cancel_requested' = [cancel_requested EXCEPT ![r] = TRUE]
       ELSE UNCHANGED cancel_requested
    /\ IF terminal[r] = 0 /\ InQueue(r)
       THEN drain' = Draining(Canceler(r), None, TRUE) /\ UNCHANGED waiter
       ELSE Signal /\ UNCHANGED drain
    /\ UNCHANGED <<sched, res, limits, retry_in, wakes, wait_in, sub, work,
                   handle_cancel, owner, terminal, client, budget, submitted>>

(* dcc_rest_async_cancel_active_locked *)
CancelActive ==
    cancel_requested' = [r \in Requests |-> cancel_requested[r] \/ r \in active_list]

(* dcc_rest_async_cancel_pending, _cancel_active and _cancel_all, called   *)
(* by the program: which of the two lists they cancel is the difference.   *)
BulkCancel ==
    /\ LockFree
    /\ budget.bulk > 0
    /\ \A r \in Requests : owner[r] # Bulk
    /\ budget' = [budget EXCEPT !.bulk = @ - 1]
    /\ \/ DetachPending(Bulk) /\ UNCHANGED cancel_requested
       \/ CancelActive /\ UNCHANGED <<queue, owner>>
       \/ CancelActive /\ DetachPending(Bulk)
    /\ Signal
    /\ UNCHANGED <<active_list, active, active_routes, route_claimed, drain, res,
                   limits, retry_in, wakes, wait_in, sub, work, handle_cancel,
                   canceler, terminal, client, submitted>>

-----------------------------------------------------------------------------
(* dcc_rest_async_wait with no timeout.                                    *)

WaitBegin ==
    /\ waiter = "out" /\ teardown = "up"
    /\ budget.waits > 0
    /\ budget' = [budget EXCEPT !.waits = @ - 1]
    /\ waiter' = "check"
    /\ UNCHANGED <<sched, drain, res, limits, retry_in, wakes, wait_in, sub,
                   work, cancels, terminal, client, submitted>>

(* The loop body: the drain loop runs when requests are pending and no     *)
(* worker is left to run it; the thread returns when nothing is left.      *)
WaitCheck ==
    /\ waiter = "check" /\ LockFree
    /\ IF Pending # {} /\ active = 0 /\ ~stopping
       THEN drain' = Draining(Waiter, None, FALSE) /\ UNCHANGED <<waiter, wait_in>>
       ELSE /\ UNCHANGED drain
            /\ IF Pending = {} /\ active = 0
               THEN waiter' = "out" /\ wait_in' = -1
               ELSE waiter' = "asleep" /\ wait_in' \in NextWakeMs
    /\ UNCHANGED <<sched, res, limits, retry_in, wakes, sub, work, cancels,
                   terminal, client, budget, submitted>>

(* pthread_cond_timedwait returns ETIMEDOUT. *)
WaitElapsed ==
    /\ waiter = "asleep" /\ wait_in = 0
    /\ waiter' = "check"
    /\ UNCHANGED <<sched, drain, res, limits, retry_in, wakes, wait_in, sub,
                   work, cancels, terminal, client, budget, submitted>>

-----------------------------------------------------------------------------
(* dcc_client_prepare_destroy, its REST part, and dcc_client_stop.         *)

(* dcc_client_stop, called by the program or by the teardown. *)
ClientStop ==
    /\ budget.destroys
    /\ \/ teardown = "up" /\ ~stopping /\ UNCHANGED teardown
       \/ teardown = "closed" /\ teardown' = "stopped"
    /\ stopping' = TRUE
    /\ UNCHANGED <<sched, drain, res, limits, retry_in, wakes, wait_in, sub,
                   work, cancels, terminal, admission_closed, operations,
                   waiter, budget, submitted>>

(* dcc_rest_close_admission *)
CloseAdmission ==
    /\ budget.destroys /\ teardown = "up" /\ LockFree
    /\ teardown' = "closed"
    /\ admission_closed' = TRUE
    /\ UNCHANGED <<sched, drain, res, limits, retry_in, wakes, wait_in, sub,
                   work, cancels, terminal, stopping, operations, waiter,
                   budget, submitted>>

(* dcc_rest_async_cancel_all, before and after dcc_rest_operations_wait. *)
TeardownCancelAll ==
    /\ LockFree
    /\ \/ teardown = "stopped" /\ teardown' = "canceled"
       \/ teardown = "drained" /\ teardown' = "canceled again"
    /\ CancelActive
    /\ DetachPending(Destroyer)
    /\ Signal
    /\ UNCHANGED <<active_list, active, active_routes, route_claimed, drain, res,
                   limits, retry_in, wakes, wait_in, sub, work, handle_cancel,
                   canceler, terminal, stopping, admission_closed, operations,
                   budget, submitted>>

(* Mutant: the operations in flight are not waited for. *)
OperationsIgnored ==
    /\ teardown = "canceled"
    /\ \A r \in Requests : owner[r] # Destroyer
    /\ teardown' = "drained"
    /\ UNCHANGED <<sched, drain, res, limits, retry_in, wakes, wait_in, sub,
                   work, cancels, terminal, stopping, admission_closed,
                   operations, waiter, budget, submitted>>

(* dcc_rest_operations_wait, after the canceled list has been delivered. *)
OperationsWait ==
    /\ teardown = "canceled" /\ LockFree
    /\ \A r \in Requests : owner[r] # Destroyer
    /\ operations = 0
    /\ teardown' = "drained"
    /\ UNCHANGED <<sched, drain, res, limits, retry_in, wakes, wait_in, sub,
                   work, cancels, terminal, stopping, admission_closed,
                   operations, waiter, budget, submitted>>

(* dcc_runtime_quiesce: llam_run returns once every task has returned. *)
RuntimeQuiesce ==
    /\ teardown = "canceled again"
    /\ \A r \in Requests : owner[r] # Destroyer /\ worker[r] = "none"
    /\ wakes = {} /\ drain.by # Waker /\ \A r \in Requests : drain.by # Worker(r)
    /\ teardown' = "quiet"
    /\ UNCHANGED <<sched, drain, res, limits, retry_in, wakes, wait_in, sub,
                   work, cancels, terminal, stopping, admission_closed,
                   operations, waiter, budget, submitted>>

(* dcc_rest_async_wait and the test that nothing is active or pending. *)
TeardownWait ==
    /\ teardown = "quiet" /\ LockFree
    /\ Pending = {} /\ active = 0 /\ active_list = {}
    /\ teardown' = "quiesced"
    /\ UNCHANGED <<sched, drain, res, limits, retry_in, wakes, wait_in, sub,
                   work, cancels, terminal, stopping, admission_closed,
                   operations, waiter, budget, submitted>>

-----------------------------------------------------------------------------
Sooner(t) == IF t > 0 THEN t - 1 ELSE t

(* One unit of time passes. *)
Tick ==
    /\ \/ global_in > 0 \/ wait_in > 0
       \/ \E rt \in Routes : reset_in[rt] > 0
       \/ \E r \in Requests : retry_in[r] > 0
       \/ \E w \in wakes : w[3] > 0
    /\ global_in' = Sooner(global_in)
    /\ wait_in' = Sooner(wait_in)
    /\ reset_in' = [rt \in Routes |-> Sooner(reset_in[rt])]
    /\ retry_in' = [r \in Requests |-> Sooner(retry_in[r])]
    /\ wakes' = {<<w[1], w[2], Sooner(w[3])>> : w \in wakes}
    /\ UNCHANGED <<sched, drain, res, sub, work, cancels, terminal, client,
                   waiter, budget, submitted>>

Init ==
    /\ queue = [p \in Priorities |-> << >>]
    /\ active_list = {} /\ active = 0 /\ active_routes = {}
    /\ route_claimed = [r \in Requests |-> FALSE]
    /\ drain = NoDrain
    /\ queued_requests = 0 /\ queued_request_bytes = 0 /\ active_request_bytes = 0
    /\ resource_state = [r \in Requests |-> 0]
    /\ response_bytes = [r \in Requests |-> 0]
    /\ reset_in = [rt \in Routes |-> 0] /\ global_in = 0
    /\ retry_in = [r \in Requests |-> 0] /\ wakes = {} /\ wait_in = -1
    /\ retry_attempt = [r \in Requests |-> 0]
    /\ sub = [r \in Requests |-> "new"]
    /\ worker = [r \in Requests |-> "none"]
    /\ outcome = [r \in Requests |-> "none"]
    /\ handle_cancel = [r \in Requests |-> FALSE]
    /\ cancel_requested = [r \in Requests |-> FALSE]
    /\ canceler = [r \in Requests |-> "idle"]
    /\ owner = [r \in Requests |-> None]
    /\ terminal = [r \in Requests |-> 0]
    /\ stopping = FALSE /\ admission_closed = FALSE /\ operations = 0
    /\ teardown = "up" /\ waiter = "out"
    /\ budget \in Environments
    /\ submitted = << >>

DrainStep == DrainStop \/ DrainTake \/ DrainSpawn \/ DrainSpawnFails

SubmitStep(r) ==
    \/ OperationBegin(r) \/ SubmitReserve(r) \/ SubmitRejected(r)
    \/ SubmitNoMemory(r) \/ SubmitEnqueue(r) \/ SubmitFreeRejected(r)
    \/ SubmitReturn(r)

WorkerStep(r) ==
    \/ WorkerStart(r) \/ HttpFails(r) \/ HttpResponse(r) \/ Classify(r)
    \/ Backoff(r) \/ ReleaseResponse(r) \/ RetryAbandoned(r) \/ RequeueRetry(r)
    \/ Deliver(r) \/ Complete(r) \/ WorkerFree(r)

CancelStep(r) == RequestCancel(r) \/ RequestCancelLocked(r) \/ CancelDetached(r)

WaitStep == WaitBegin \/ WaitCheck \/ WaitElapsed

TeardownStep ==
    \/ ClientStop \/ CloseAdmission \/ TeardownCancelAll \/ OperationsWait
    \/ RuntimeQuiesce \/ TeardownWait

Next ==
    \/ DrainStep
    \/ \E r \in Requests : SubmitStep(r) \/ WorkerStep(r) \/ CancelStep(r)
    \/ \E w \in wakes : RetryWake(w)
    \/ BulkCancel
    \/ WaitStep
    \/ TeardownStep
    \/ Tick

Spec == Init /\ [][Next]_vars

(* Fairness: the LLAM runtime runs every task it accepted, a request that  *)
(* is on the wire ends (the transport has timeouts), a thread inside a     *)
(* call goes on, a sleeping task or thread wakes up and time passes.       *)
(* Nothing makes the program submit, cancel, wait or destroy.              *)
Fairness ==
    /\ WF_vars(DrainStop \/ DrainTake \/ DrainSpawn)
    /\ WF_vars(Tick)
    /\ WF_vars(WaitCheck \/ WaitElapsed)
    /\ WF_vars(\E w \in wakes : RetryWake(w))
    /\ WF_vars(teardown # "up" /\ TeardownStep)
    /\ \A r \in Requests :
          /\ WF_vars(sub[r] # "new" /\ SubmitStep(r))
          /\ WF_vars(WorkerStep(r))
          /\ WF_vars(RequestCancelLocked(r))
          /\ WF_vars(CancelDetached(r))

FairSpec == Spec /\ Fairness

-----------------------------------------------------------------------------
(* Properties.                                                             *)

SubStates == {"new", "begun", "reserved", "queued", "rejecting",
              "refusing", "refused", "accepted"}
WorkerStates == {"none", "start", "http", "classify", "backoff", "retry",
                 "requeue", "deliver", "delivered", "complete", "free"}
Outcomes == {"none", "ok", "limited", "error", "canceled"}
TeardownStates == {"up", "closed", "stopped", "canceled", "drained",
                   "canceled again", "quiet", "quiesced"}

TypeSched ==
    /\ queue \in [Priorities -> Seq(Requests)]
    /\ active_list \subseteq Requests /\ active \in Nat
    /\ active_routes \subseteq Routes
    /\ route_claimed \in [Requests -> BOOLEAN]
    /\ submitted \in Seq(Requests)

TypeDrain ==
    drain \in [by : Threads \cup {None}, admission : Requests \cup {None},
               again : BOOLEAN, taken : Requests \cup {None}, at : Nat]

TypeRes ==
    /\ queued_requests \in Nat /\ queued_request_bytes \in Nat
    /\ active_request_bytes \in Nat
    /\ resource_state \in [Requests -> 0 .. 2]
    /\ response_bytes \in [Requests -> Nat]

TypeTime ==
    /\ reset_in \in [Routes -> 0 .. MaxWait] /\ global_in \in 0 .. MaxWait
    /\ retry_in \in [Requests -> Nat] /\ wait_in \in Nat \cup {-1}
    /\ retry_attempt \in [Requests -> 0 .. MaxRetries]
    /\ wakes \subseteq Requests \X (0 .. MaxRetries) \X Nat

TypeThreads ==
    /\ sub \in [Requests -> SubStates]
    /\ worker \in [Requests -> WorkerStates]
    /\ outcome \in [Requests -> Outcomes]
    /\ canceler \in [Requests -> {"idle", "lock", "done"}]
    /\ owner \in [Requests -> Threads \cup {None}]
    /\ teardown \in TeardownStates
    /\ waiter \in {"out", "check", "asleep"}

TypeFlags ==
    /\ handle_cancel \in [Requests -> BOOLEAN]
    /\ cancel_requested \in [Requests -> BOOLEAN]
    /\ terminal \in [Requests -> Nat]
    /\ stopping \in BOOLEAN /\ admission_closed \in BOOLEAN
    /\ operations \in Nat
    /\ budget \in Environment

(* The state of the queue, of its counters and of every thread is of the   *)
(* kind the fields of dcc_client_t and dcc_rest_async_request_t declare,   *)
(* and the retries of a request stay within their bound.                   *)
TypeOK ==
    TypeSched /\ TypeDrain /\ TypeRes /\ TypeTime /\ TypeThreads /\ TypeFlags

(* Two requests of one route are never on the wire together: a route is    *)
(* claimed by at most one active request, and the table of active routes   *)
(* holds exactly the claimed routes (mark and unmark in the drain loop,    *)
(* its failure path, finish_active and the retry).                         *)
RouteExclusive ==
    /\ \A r, q \in active_list :
          route_claimed[r] /\ route_claimed[q] /\ RouteOf[r] = RouteOf[q] => r = q
    /\ active_routes = {RouteOf[r] : r \in {q \in active_list : route_claimed[q]}}
    /\ \A r \in Requests : worker[r] \in {"http", "classify"} => route_claimed[r]

(* rest_async_active counts the active list, and never passes the          *)
(* concurrency of the client, whatever spawn failures and retries occur.   *)
ActiveCounted ==
    /\ active = Cardinality(active_list)
    /\ active <= Concurrency

(* The table of active routes has room whenever the drain loop may start a *)
(* worker: the DCC_ERR_STATE of mark_route_active never happens.           *)
RouteTableFits == active < Concurrency => Cardinality(active_routes) < RouteCap

(* Every job a submission queued is in exactly one place until it is       *)
(* freed: a pending list, the hand of the drain loop, a worker or a        *)
(* detached list.  No job is lost or shared when lists, retries, spawn     *)
(* failures and cancellations hand it around.                              *)
OnePlace ==
    \A r \in Requests :
        LET places == {x \in {"list", "hand", "worker", "detached"} :
                         \/ x = "list" /\ InQueue(r)
                         \/ x = "hand" /\ drain.taken = r
                         \/ x = "worker" /\ worker[r] # "none"
                         \/ x = "detached" /\ owner[r] # None}
        IN  IF sub[r] \in {"queued", "accepted"} /\ resource_state[r] # 0
            THEN \E x \in {"list", "hand", "worker", "detached"} : places = {x}
            ELSE places = {}

(* A rejected submission delivers nothing; an accepted one is finalized at *)
(* most once, and exactly once by the time its job is freed.               *)
ExactlyOneTerminal ==
    \A r \in Requests :
        /\ terminal[r] <= 1
        /\ sub[r] \notin {"queued", "accepted"} => terminal[r] = 0
        /\ sub[r] \in {"queued", "accepted"} /\ resource_state[r] = 0 => terminal[r] = 1

(* Active jobs and captured responses together never exceed                *)
(* rest_max_active_bytes, so its subtraction never wraps around.           *)
ActiveBytesBounded == active_request_bytes <= MaxActiveBytes

(* The three limits of the drain loop hold together, whatever spawn        *)
(* failures, retries and cancellations occur: the worker slots, the table  *)
(* of active routes and the active bytes.                                  *)
WithinCapacity == ActiveCounted /\ RouteTableFits /\ ActiveBytesBounded

(* Request a was queued before request b. *)
Before(a, b) ==
    \E m, n \in 1 .. Len(submitted) : m < n /\ submitted[m] = a /\ submitted[n] = b

Fresh(r) == retry_attempt[r] = 0

(* In a pending list, jobs that were not retried keep the order in which   *)
(* they were submitted: a job that was taken and restored is back at its   *)
(* exact place.                                                            *)
QueueOrdered ==
    \A p \in Priorities : \A i, j \in 1 .. Len(queue[p]) :
        i < j /\ Fresh(queue[p][i]) /\ Fresh(queue[p][j])
        => Before(queue[p][i], queue[p][j])

(* The bytes of all requests, size[r] of each, as a set of units: what a   *)
(* counter of bytes counts is the cardinality.                             *)
Bytes(size) == UNION {{r} \X (1 .. size[r]) : r \in Requests}

Queued == {r \in Requests : resource_state[r] = 1}

QueuedSize == [r \in Requests |-> IF resource_state[r] = 1 THEN ChargeOf[r] ELSE 0]

ActiveSize ==
    [r \in Requests |-> IF resource_state[r] = 2 THEN ChargeOf[r] + response_bytes[r]
                                                 ELSE response_bytes[r]]

(* The runtime statistics are exact: the queued counters are the jobs in   *)
(* resource_state 1, the active bytes the jobs in state 2 and the captured *)
(* responses, so that none of the guarded decrements is ever skipped.      *)
AccountingExact ==
    /\ queued_requests = Cardinality(Queued)
    /\ queued_request_bytes = Cardinality(Bytes(QueuedSize))
    /\ active_request_bytes = Cardinality(Bytes(ActiveSize))

(* The drain loop starts a request that is not canceled only when its      *)
(* bucket, the global limit and its own retry time are all open.           *)
StartsWithinLimits ==
    [][\A r \in Requests :
          worker[r] = "none" /\ worker'[r] = "start" /\ ~cancel_requested[r]
          => WaitMs(r) = 0]_vars

(* When the teardown has quiesced the client, every job is freed, every    *)
(* accepted request has its terminal result, no byte is charged and no     *)
(* operation is in flight: two rounds of cancel_all around                 *)
(* operations_wait catch the submissions that pass the admission late.     *)
(* A bulk cancellation that the program has not finished is apart: it      *)
(* begins no operation, and the teardown does not wait for its list.       *)
TeardownClean ==
    teardown = "quiesced" /\ (\A r \in Requests : owner[r] # Bulk) =>
        /\ \A r \in Requests : resource_state[r] = 0 /\ worker[r] = "none"
        /\ \A r \in Requests : sub[r] = "accepted" => terminal[r] = 1
        /\ queued_request_bytes = 0 /\ active_request_bytes = 0
        /\ operations = 0

-----------------------------------------------------------------------------
(* The inductive invariant behind OnePlace, ExactlyOneTerminal,            *)
(* RouteExclusive and ActiveCounted.                                       *)

(* Every list holds requests of its priority, each once. *)
QueueShape ==
    \A p \in Priorities : /\ NoDuplicates(queue[p])
                          /\ \A r \in Elements(queue[p]) : PriorityOf[r] = p

(* The place the drain loop took its request from is still a place of its  *)
(* list: rest_lock is held from the take to the restore.                   *)
DrainPlace ==
    drain.taken # None =>
        drain.at \in 1 .. Len(queue[PriorityOf[drain.taken]]) + 1

Live(r) == sub[r] \in {"queued", "accepted"}

Charged(s) == IF s = "reserved" THEN 1 ELSE IF s = "rejecting" THEN 2 ELSE 0

(* Where a job is decides its charge, its progress and its terminal.       *)
PlaceOf(r) ==
    /\ InQueue(r) => /\ Live(r) /\ resource_state[r] = 1 /\ terminal[r] = 0
                     /\ worker[r] = "none" /\ owner[r] = None /\ drain.taken # r
    /\ drain.taken = r => /\ Live(r) /\ resource_state[r] = 2 /\ terminal[r] = 0
                          /\ worker[r] = "none" /\ owner[r] = None
    /\ worker[r] # "none" =>
          /\ Live(r) /\ resource_state[r] = 2 /\ owner[r] = None
          /\ worker[r] \in {"delivered", "complete", "free"} => terminal[r] = 1
          /\ worker[r] \notin {"delivered", "complete", "free"} => terminal[r] = 0
    /\ owner[r] # None => Live(r) /\ resource_state[r] = 1 /\ terminal[r] = 0
    /\ Live(r) /\ resource_state[r] # 0 =>
          InQueue(r) \/ drain.taken = r \/ worker[r] # "none" \/ owner[r] # None
    /\ Live(r) /\ resource_state[r] = 0 => terminal[r] = 1
    /\ ~Live(r) => terminal[r] = 0 /\ resource_state[r] = Charged(sub[r])

Places == \A r \in Requests : PlaceOf(r)

(* The active list is the job in the hand of the drain loop and those of   *)
(* the workers; a job without a claim on its route was canceled.           *)
ClaimOf(r) ==
    /\ r \in active_list <=> drain.taken = r \/ worker[r] \notin {"none", "free"}
    /\ route_claimed[r] => r \in active_list
    /\ worker[r] \in {"http", "classify"} => route_claimed[r]
    /\ (drain.taken = r \/ worker[r] = "start") /\ ~route_claimed[r]
       => cancel_requested[r]

Claims == \A r \in Requests : ClaimOf(r)

ActiveFinite == IsFiniteSet(active_list)

(* A request taken and not canceled is within the limits until it starts:  *)
(* rest_lock is held, so that only time changes them.                      *)
HandOpen ==
    drain.taken # None /\ ~cancel_requested[drain.taken] => WaitMs(drain.taken) = 0

IndInv == /\ TypeOK /\ QueueShape /\ DrainPlace /\ Places /\ Claims
          /\ RouteExclusive /\ ActiveFinite /\ ActiveCounted
          /\ HandOpen /\ ActiveBytesBounded

-----------------------------------------------------------------------------
(* The inductive invariant behind AccountingExact, QueueOrdered and        *)
(* TeardownClean, on top of the first.                                     *)

(* The sets that are counted are finite. *)
UnitsFinite ==
    /\ IsFiniteSet(Queued)
    /\ IsFiniteSet(Bytes(QueuedSize)) /\ IsFiniteSet(Bytes(ActiveSize))

(* A body is captured between the response and its release. *)
ResponseHeld ==
    \A r \in Requests :
        response_bytes[r] # 0 => worker[r] \in {"backoff", "retry", "deliver", "delivered"}

(* The request in the hand of the drain loop goes between the jobs before  *)
(* its place and the jobs from its place on.                               *)
HandOrdered ==
    \A r \in Requests : drain.taken = r /\ Fresh(r) =>
        \A j \in 1 .. Len(queue[PriorityOf[r]]) :
            LET q == queue[PriorityOf[r]][j] IN
            Fresh(q) => IF j < drain.at THEN Before(q, r) ELSE Before(r, q)

(* Every queued job is in the history, and a job that goes back to its     *)
(* list has a retry.                                                       *)
Recorded ==
    \A r \in Requests :
        /\ Live(r) => r \in Elements(submitted)
        /\ worker[r] \in {"backoff", "retry", "requeue"} => ~Fresh(r)

(* dcc_rest_operation_begin and _end are paired: the operations are the    *)
(* submissions that have begun and not returned.                           *)
InFlight ==
    {r \in Requests : sub[r] \in {"begun", "reserved", "queued", "rejecting", "refusing"}}

OperationsExact == IsFiniteSet(InFlight) /\ operations = Cardinality(InFlight)

(* The submission a drain loop runs for has not returned, and the loop     *)
(* does not run twice for it.                                              *)
AdmissionQueued ==
    \A r \in Requests : drain.admission = r => sub[r] = "queued" /\ ~drain.again

(* Who may hold a detached job: the program, the teardown or a worker that *)
(* has completed and not freed its own job.                                *)
OwnerKinds ==
    \A r \in Requests :
        \/ owner[r] \in {None, Bulk, Destroyer}
        \/ \E q \in Requests : owner[r] = Worker(q) /\ worker[q] = "free"

(* What each phase of the teardown has achieved. *)
Phases ==
    /\ teardown # "up" => admission_closed
    /\ teardown \notin {"up", "closed"} => stopping
    /\ teardown \in {"drained", "canceled again", "quiet", "quiesced"} => InFlight = {}
    /\ teardown \in {"canceled again", "quiet", "quiesced"} =>
          drain.taken = None /\ \A r \in Requests : ~InQueue(r)
    /\ teardown \in {"quiet", "quiesced"} =>
          \A r \in Requests : worker[r] = "none" /\ owner[r] # Destroyer

IndInv2 == /\ AccountingExact /\ UnitsFinite /\ ResponseHeld
           /\ QueueOrdered /\ HandOrdered /\ Recorded
           /\ OperationsExact /\ AdmissionQueued /\ OwnerKinds /\ Phases

-----------------------------------------------------------------------------
(* A submission that dcc_rest_resource_reserve_queued admits leaves the    *)
(* queued bytes within rest_max_queued_bytes.                              *)
AdmissionWithinQueuedBytes ==
    [][\A r \in Requests :
          sub[r] = "begun" /\ sub'[r] = "reserved"
          => queued_request_bytes' <= MaxQueuedBytes]_vars

(* An accepted request gets its terminal result, with no further call of   *)
(* the program.                                                            *)
AcceptedIsDelivered == \A r \in Requests : sub[r] = "accepted" ~> terminal[r] = 1

(* A canceled request gets its terminal result although its route is rate  *)
(* limited or one spawn fails: the drain loops of the cancellation and of  *)
(* every completion leave it in no list without a worker to come.          *)
CanceledIsDelivered ==
    <>[](\A r \in Requests : handle_cancel[r] /\ sub[r] = "accepted" => terminal[r] = 1)

(* dcc_rest_async_wait returns: it runs the drain loop itself when no      *)
(* worker is left, and sleeps only while a signal or a timer is to come.   *)
(* And dcc_client_destroy, once it has closed the admission, gets through  *)
(* cancellation and drain to a quiesced client.                            *)
CallsReturn == <>[](waiter = "out" /\ teardown \in {"up", "quiesced"})
=============================================================================
