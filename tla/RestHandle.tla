----------------------------- MODULE RestHandle -----------------------------
(***************************************************************************)
(* Request handles: who holds a dcc_rest_request_t, who frees it, what a    *)
(* wait, a cancellation and a destroy see while the terminal result is      *)
(* delivered.  Source: src/rest/rest_request_handle.c, the handle's part of *)
(* src/rest/rest_submit.c and rest_async_cancel_pending.c, and the post-hook *)
(* of src/app/app_interaction_queue.c, which submits and finalizes handles  *)
(* that exist before their transport job.                                   *)
(*                                                                          *)
(* Every thread and task is a context with a stack of calls: a callback     *)
(* runs on top of the finalization that delivers it, and may itself wait,   *)
(* cancel, destroy or bulk-cancel.  How a job gets to run is RestAsync's    *)
(* matter, what its result is InteractionQueue's; both are chosen here.     *)
(***************************************************************************)
EXTENDS Integers, Sequences, FiniteSets, SequencesExt

CONSTANTS
    Plain,         \* requests of dcc_rest_submit
    Chained,       \* requests of one interaction's action queue
    Hosts,         \* host threads
    Tasks,         \* LLAM tasks of the program
    Environments,  \* bound: what the program does, see Environment
    None

Requests == Plain \cup Chained

\* A worker task exists for each request and is named by it.
Contexts == Hosts \cup Tasks \cup Requests

\* The requests the program makes; how many waits, cancellations, destroys and bulk
\* cancellations; whether a callback may bulk-cancel, and waits have a timeout.
Environment ==
    [requests : SUBSET Requests, waits : Nat, cancels : Nat, destroys : Nat,
     bulk : Nat, nested : BOOLEAN, timeouts : BOOLEAN]

ASSUME HandleAssumption ==
    /\ Plain \cap Chained = {} /\ Hosts \cap Requests = {}
    /\ Tasks \cap (Hosts \cup Requests) = {}
    /\ None \notin Contexts
    /\ Environments \subseteq Environment

VARIABLES
    life,              \* whether the handle is allocated
    references, terminal_claimed, completed, cancel_requested,
    callback_task,
    caller_reference_released,
    host_delivery,     \* dcc_rest_host_request_delivery, one for each thread
    job,               \* the transport job: where it is, whether canceled
    attached,          \* async_request is not NULL
    action,            \* whether an action of the queue holds the handle
    chain,             \* the queue: its actions, in order, and whether it failed
    failed,
    stack,             \* the calls each context is in, innermost last
    delivered,         \* how far the handle's callback is
    env                \* what the program may still do

handle == <<life, references, terminal_claimed, completed, cancel_requested,
            callback_task, caller_reference_released, attached>>
vars == <<handle, host_delivery, job, action, chain, failed, stack, delivered, env>>

Init ==
    /\ life = [r \in Requests |-> "unborn"]
    /\ references = [r \in Requests |-> 0]
    /\ terminal_claimed = [r \in Requests |-> FALSE]
    /\ completed = [r \in Requests |-> FALSE]
    /\ cancel_requested = [r \in Requests |-> FALSE]
    /\ callback_task = [r \in Requests |-> None]
    /\ caller_reference_released = [r \in Requests |-> TRUE]
    /\ host_delivery = [h \in Hosts |-> None]
    /\ job = [r \in Requests |-> [at |-> "none", canceled |-> FALSE]]
    /\ attached = [r \in Requests |-> FALSE]
    /\ action = [r \in Requests |-> FALSE]
    /\ chain = <<>> /\ failed = FALSE
    /\ stack = [c \in Contexts |-> <<>>]
    /\ delivered = [r \in Requests |-> "no"]
    /\ env \in Environments

-----------------------------------------------------------------------------
(* Contexts.                                                                *)

\* A call frame: which function, on which request, how far, and the requests a
\* loop over a list has still to finalize.
Frame(fn, r, pc, more) == [fn |-> fn, r |-> r, pc |-> pc, more |-> more]

Top(c) == Last(stack[c])
In(c, fn, pc) == stack[c] # <<>> /\ Top(c).fn = fn /\ Top(c).pc = pc
Push(c, frame) == [stack EXCEPT ![c] = Append(@, frame)]
Goto(c, pc) == [stack EXCEPT ![c][Len(stack[c])].pc = pc]
Pop(c) == [stack EXCEPT ![c] = Front(@)]

InCallback(c) == In(c, "finalize", "callback")

\* The program runs on idle host threads, in its tasks and in the callbacks.
MayCall(c) == (c \notin Requests /\ stack[c] = <<>>) \/ InCallback(c)

\* ... and uses a handle until it destroys it, and not while it does.
Calling(r) == {c \in Contexts : stack[c] # <<>> /\ Top(c).r = r
                                  /\ Top(c).fn \in {"wait", "cancel"}}
Usable(r) == life[r] = "live" /\ ~caller_reference_released[r]

-----------------------------------------------------------------------------
(* References.                                                              *)

Release(rs) ==
    /\ references' = [r \in Requests |-> IF r \in rs THEN references[r] - 1
                                                     ELSE references[r]]
    /\ life' = [r \in Requests |-> IF r \in rs /\ references[r] = 1 THEN "freed"
                                                                    ELSE life[r]]

\* dcc_rest_submit: handle, job and admission; the handle goes to the caller
\* before the job can run.  A refused submission leaves nothing behind.
Submit(c, r) ==
    /\ MayCall(c) /\ r \in Plain /\ r \in env.requests
    /\ env' = [env EXCEPT !.requests = @ \ {r}]
    /\ \E caller \in BOOLEAN :
          /\ references' = [references EXCEPT ![r] = IF caller THEN 2 ELSE 1]
          /\ caller_reference_released' = [caller_reference_released EXCEPT ![r] = ~caller]
    /\ life' = [life EXCEPT ![r] = "live"]
    /\ job' = [job EXCEPT ![r].at = "queued"]
    /\ attached' = [attached EXCEPT ![r] = TRUE]
    /\ UNCHANGED <<terminal_claimed, completed, cancel_requested, callback_task,
                   host_delivery, action, chain, failed, stack, delivered>>

\* dcc_app_interaction_queue_enqueue: the action holds its handle, and the head
\* of the queue is handed to REST, which retains it once more for the job.
Enqueue(c, r) ==
    LET head == chain = <<>>
    IN  /\ MayCall(c) /\ r \in Chained /\ r \in env.requests /\ ~failed
        /\ env' = [env EXCEPT !.requests = @ \ {r}]
        /\ \E caller \in {0, 1} :
              /\ references' = [references EXCEPT ![r] = 1 + caller + (IF head THEN 1 ELSE 0)]
              /\ caller_reference_released' =
                    [caller_reference_released EXCEPT ![r] = caller = 0]
        /\ life' = [life EXCEPT ![r] = "live"]
        /\ action' = [action EXCEPT ![r] = TRUE]
        /\ chain' = Append(chain, r)
        /\ job' = IF head THEN [job EXCEPT ![r].at = "queued"] ELSE job
        /\ attached' = [attached EXCEPT ![r] = head]
        /\ UNCHANGED <<terminal_claimed, completed, cancel_requested, callback_task,
                       host_delivery, failed, stack, delivered>>

-----------------------------------------------------------------------------
(* Delivery.                                                                *)

\* A drain starts the worker of a queued request; it holds the job until it has
\* finalized the handle and freed the job.
StartWorker(r) ==
    /\ job[r].at = "queued"
    /\ job' = [job EXCEPT ![r].at = "active"]
    /\ stack' = Push(r, Frame("jobs", None, "next", <<r>>))
    /\ UNCHANGED <<handle, host_delivery, action, chain, failed, delivered, env>>

\* dcc_rest_async_cancel_all: active jobs are canceled, pending ones detached and
\* finalized by the calling thread.
BulkCancel(c) ==
    LET pending == {r \in Requests : job[r].at = "queued"}
    IN  /\ MayCall(c) /\ env.bulk > 0
        /\ env.nested \/ stack[c] = <<>>
        /\ pending # {}
        /\ env' = [env EXCEPT !.bulk = @ - 1]
        /\ job' = [r \in Requests |->
                     IF r \in pending THEN [job[r] EXCEPT !.at = "detached"]
                     ELSE IF job[r].at = "active" THEN [job[r] EXCEPT !.canceled = TRUE]
                     ELSE job[r]]
        /\ \E order \in SetToSeqs(pending) :
              stack' = Push(c, Frame("jobs", None, "next", order))
        /\ UNCHANGED <<handle, host_delivery, action, chain, failed, delivered>>

\* dcc_rest_request_handle_finalize up to the callback: claim, result, and the
\* mark a wait of this very context will find.  The action's result is the one its
\* job got, a failure when the job was detached.
Claim(c, r) ==
    /\ terminal_claimed' = [terminal_claimed EXCEPT ![r] = TRUE]
    /\ delivered' = [delivered EXCEPT ![r] = "running"]
    /\ callback_task' = IF c \in Hosts THEN callback_task
                                       ELSE [callback_task EXCEPT ![r] = c]
    /\ host_delivery' = IF c \in Hosts THEN [host_delivery EXCEPT ![c] = r]
                                       ELSE host_delivery
    /\ stack' = [stack EXCEPT ![c] = Append([@ EXCEPT ![Len(@)].pc = "free"],
                                            Frame("finalize", r, "callback", <<>>))]
    /\ \/ failed' = failed /\ (r \in Chained => job[r].at # "detached")
       \/ failed' = TRUE /\ r \in Chained

\* Mutant: the finalization does not keep a reference of its own.
FinalizeUnretained(c, r) == Claim(c, r) /\ UNCHANGED references

\* ... and it keeps the handle alive until it has completed it.
Finalize(c, r) ==
    /\ Claim(c, r)
    /\ references' = [references EXCEPT ![r] = @ + 1]

\* The loops over a worker's job, a detached list and the failed dependents.
ListNext(c) ==
    /\ In(c, "jobs", "next") \/ In(c, "dependents", "next")
    /\ IF Top(c).more = <<>> \/ terminal_claimed[Head(Top(c).more)]
       THEN /\ stack' = IF Top(c).more = <<>> THEN Pop(c) ELSE Goto(c, "free")
            /\ UNCHANGED <<terminal_claimed, references, delivered, callback_task,
                           host_delivery, failed>>
       ELSE Finalize(c, Head(Top(c).more))
    /\ UNCHANGED <<life, completed, cancel_requested, caller_reference_released,
                   attached, job, action, chain, env>>

\* dcc_rest_async_request_free detaches the job and drops its reference;
\* dcc_app_interaction_action_free drops the action's.
ListFree(c) ==
    LET r == Head(Top(c).more)
    IN  /\ In(c, "jobs", "free") \/ In(c, "dependents", "free")
        /\ Release({r})
        /\ IF Top(c).fn = "jobs"
           THEN /\ attached' = [attached EXCEPT ![r] = FALSE]
                /\ job' = [job EXCEPT ![r].at = "freed"]
                /\ UNCHANGED action
           ELSE action' = [action EXCEPT ![r] = FALSE] /\ UNCHANGED <<attached, job>>
        /\ stack' = [stack EXCEPT ![c][Len(stack[c])] =
                        [@ EXCEPT !.pc = "next", !.more = Tail(@)]]
        /\ UNCHANGED <<terminal_claimed, completed, cancel_requested, callback_task,
                       caller_reference_released, host_delivery, chain, failed,
                       delivered, env>>

\* The callback returns; wait may no longer be refused.
CallbackReturns(c) ==
    /\ InCallback(c)
    /\ LET r == Top(c).r
       IN  /\ delivered' = [delivered EXCEPT ![r] = "done"]
           /\ callback_task' = IF c \in Hosts THEN callback_task
                                              ELSE [callback_task EXCEPT ![r] = None]
           /\ host_delivery' = IF c \in Hosts /\ host_delivery[c] = r
                               THEN [host_delivery EXCEPT ![c] = None]
                               ELSE host_delivery
    /\ stack' = Goto(c, "post_hook")
    /\ UNCHANGED <<life, references, terminal_claimed, completed, cancel_requested,
                   caller_reference_released, attached, job, action, chain, failed, env>>

\* The queue's post-hook takes its action off the queue.  A failure, or a cancel
\* request that came before the next action was submitted, makes the rest of the
\* queue dependents, finalized here one after the other; otherwise the next action
\* gets a job, attached but not yet in REST's queue.
PostHook(c) ==
    LET r == Top(c).r
        rest == Tail(chain)
        stops == failed \/ (rest # <<>> /\ cancel_requested[Head(rest)])
    IN  /\ In(c, "finalize", "post_hook")
        /\ IF chain = <<>> \/ Head(chain) # r
           THEN /\ stack' = Goto(c, "complete")
                /\ UNCHANGED <<chain, failed, action, job, attached, references, life>>
           ELSE IF stops \/ rest = <<>>
           THEN /\ chain' = <<>>
                /\ failed' = stops
                /\ action' = [action EXCEPT ![r] = FALSE]
                /\ Release({r})
                /\ stack' = [stack EXCEPT ![c] = [@ EXCEPT ![Len(@)].pc = "complete"]
                                \o <<Frame("dependents", None, "next", rest)>>]
                /\ UNCHANGED <<job, attached>>
           ELSE /\ chain' = rest
                /\ references' = [references EXCEPT ![Head(rest)] = @ + 1]
                /\ attached' = [attached EXCEPT ![Head(rest)] = TRUE]
                /\ job' = [job EXCEPT ![Head(rest)].at = "attached"]
                /\ stack' = Goto(c, "submit_next")
                /\ UNCHANGED <<failed, action, life>>
        /\ UNCHANGED <<terminal_claimed, completed, cancel_requested, callback_task,
                       caller_reference_released, host_delivery, delivered, env>>

\* Mutant: a cancel request made before the job was queued is forgotten.
SubmitNextUncanceled(c) ==
    LET r == Top(c).r
        next == Head(chain)
    IN  /\ In(c, "finalize", "submit_next")
        /\ job' = [job EXCEPT ![next].at = "queued"]
        /\ action' = [action EXCEPT ![r] = FALSE]
        /\ Release({r})
        /\ stack' = Goto(c, "complete")
        /\ UNCHANGED <<attached, chain, failed>>
        /\ UNCHANGED <<terminal_claimed, completed, cancel_requested, callback_task,
                       caller_reference_released, host_delivery, delivered, env>>

\* Under the REST lock the job is queued, canceled if that was asked meanwhile; or
\* admission refuses it, which frees the job and fails the rest of the queue.
SubmitNext(c) ==
    LET r == Top(c).r
        next == Head(chain)
    IN  /\ In(c, "finalize", "submit_next")
        /\ action' = [action EXCEPT ![r] = FALSE]
        /\ \/ /\ job' = [job EXCEPT ![next] =
                            [at |-> "queued", canceled |-> cancel_requested[next]]]
              /\ Release({r})
              /\ stack' = Goto(c, "complete")
              /\ UNCHANGED <<attached, chain, failed>>
           \/ /\ job' = [job EXCEPT ![next].at = "none"]
              /\ attached' = [attached EXCEPT ![next] = FALSE]
              /\ Release({r, next})
              /\ chain' = <<>> /\ failed' = TRUE
              /\ stack' = [stack EXCEPT ![c] = [@ EXCEPT ![Len(@)].pc = "complete"]
                              \o <<Frame("dependents", None, "next", chain)>>]
        /\ UNCHANGED <<terminal_claimed, completed, cancel_requested, callback_task,
                       caller_reference_released, host_delivery, delivered, env>>

\* The calls asleep on r's condition variable, woken by a broadcast.
Woken(s, r) ==
    [c \in Contexts |->
        IF s[c] # <<>> /\ Last(s[c]).fn = "wait" /\ Last(s[c]).r = r
           /\ Last(s[c]).pc = "asleep"
        THEN [s[c] EXCEPT ![Len(s[c])].pc = "mutex"] ELSE s[c]]

\* Mutant: the completion wakes nobody.
CompleteSilently(c) ==
    /\ In(c, "finalize", "complete")
    /\ attached' = [attached EXCEPT ![Top(c).r] = FALSE]
    /\ completed' = [completed EXCEPT ![Top(c).r] = TRUE]
    /\ stack' = Goto(c, "release")
    /\ UNCHANGED <<life, references, terminal_claimed, cancel_requested, callback_task,
                   caller_reference_released, host_delivery, job, action, chain, failed,
                   delivered, env>>

\* The end of the finalization: completed is stored and announced under wait_mutex.
Complete(c) ==
    /\ In(c, "finalize", "complete")
    /\ attached' = [attached EXCEPT ![Top(c).r] = FALSE]
    /\ completed' = [completed EXCEPT ![Top(c).r] = TRUE]
    /\ stack' = Woken(Goto(c, "release"), Top(c).r)
    /\ UNCHANGED <<life, references, terminal_claimed, cancel_requested, callback_task,
                   caller_reference_released, host_delivery, job, action, chain, failed,
                   delivered, env>>

\* Its last access: the finalization's own reference; and a destroy's, the caller's.
ReleaseOwn(c) ==
    /\ In(c, "finalize", "release") \/ In(c, "destroy", "release")
    /\ Release({Top(c).r})
    /\ stack' = Pop(c)
    /\ UNCHANGED <<terminal_claimed, completed, cancel_requested, callback_task,
                   caller_reference_released, attached, host_delivery, job, action,
                   chain, failed, delivered, env>>

-----------------------------------------------------------------------------
(* What the program calls.                                                  *)

\* Only the calls' frames change.
CallOnly == UNCHANGED <<handle, host_delivery, job, action, chain, failed, delivered>>

\* dcc_rest_request_delivery_active
DeliveryActive(c, r) == IF c \in Hosts THEN host_delivery[c] = r
                                       ELSE callback_task[r] = c

\* dcc_rest_request_wait up to its first look at completed; it is refused in the
\* delivery of the same request.  A host thread blocks, a task polls.  A callback
\* that waits for another request can wait for one that waits for it: the cycle is
\* the program's, which waits in a callback for its own request only.
Wait(c, r) ==
    /\ MayCall(c) /\ Usable(r) /\ env.waits > 0
    /\ InCallback(c) => Top(c).r = r
    /\ env' = [env EXCEPT !.waits = @ - 1]
    /\ stack' = IF DeliveryActive(c, r) THEN stack
                ELSE Push(c, Frame("wait", r,
                        IF completed[r] THEN "done"
                        ELSE IF c \in Hosts THEN "mutex" ELSE "poll", <<>>))
    /\ CallOnly

\* With wait_mutex held: look again, and sleep.
\*
\* Mutant: a claimed result is taken for a delivered one.
WaitLookClaimed(c) ==
    /\ In(c, "wait", "mutex")
    /\ stack' = Goto(c, IF terminal_claimed[Top(c).r] THEN "done" ELSE "asleep")
    /\ CallOnly /\ UNCHANGED env

WaitLook(c) ==
    /\ In(c, "wait", "mutex")
    /\ stack' = Goto(c, IF completed[Top(c).r] THEN "done" ELSE "asleep")
    /\ CallOnly /\ UNCHANGED env

WaitPoll(c) ==
    /\ In(c, "wait", "poll") /\ completed[Top(c).r]
    /\ stack' = Goto(c, "done")
    /\ CallOnly /\ UNCHANGED env

\* A wait with a timeout may give up while the request is not completed.
WaitTimesOut(c) ==
    /\ In(c, "wait", "asleep") \/ In(c, "wait", "poll")
    /\ env.timeouts /\ ~completed[Top(c).r]
    /\ stack' = Pop(c)
    /\ CallOnly /\ UNCHANGED env

\* The result view is the caller's.
WaitReturns(c) ==
    /\ In(c, "wait", "done")
    /\ stack' = Pop(c)
    /\ CallOnly /\ UNCHANGED env

\* dcc_rest_request_cancel up to the REST lock: nothing to do once the result is
\* claimed, else the request is remembered.
CancelAsk(c, r, fn, env_) ==
    LET done == completed[r] \/ terminal_claimed[r]
        asked == Push(c, Frame(fn, r, "locked", <<>>))
    IN  /\ cancel_requested' = IF done THEN cancel_requested
                               ELSE [cancel_requested EXCEPT ![r] = TRUE]
        /\ stack' = IF ~done THEN asked
                    ELSE IF fn = "destroy" THEN Push(c, Frame(fn, r, "release", <<>>))
                    ELSE stack
        /\ env' = env_
        /\ UNCHANGED <<life, references, terminal_claimed, completed, callback_task,
                       attached, host_delivery, job, action, chain, failed, delivered>>

Cancel(c, r) ==
    /\ MayCall(c) /\ Usable(r) /\ env.cancels > 0
    /\ CancelAsk(c, r, "cancel", [env EXCEPT !.cancels = @ - 1])
    /\ UNCHANGED caller_reference_released

\* dcc_rest_request_destroy: once, and with no other call on the handle under way;
\* it cancels and then drops the caller's reference.
Destroy(c, r) ==
    /\ MayCall(c) /\ Usable(r) /\ Calling(r) = {} /\ env.destroys > 0
    /\ CancelAsk(c, r, "destroy", [env EXCEPT !.destroys = @ - 1])
    /\ caller_reference_released' = [caller_reference_released EXCEPT ![r] = TRUE]

\* Under the REST lock: a job that is pending or active is canceled, never
\* finalized here.
CancelLocked(c) ==
    /\ In(c, "cancel", "locked") \/ In(c, "destroy", "locked")
    /\ LET r == Top(c).r
       IN  job' = IF ~terminal_claimed[r] /\ attached[r] /\ job[r].at \in {"queued", "active"}
                  THEN [job EXCEPT ![r].canceled = TRUE] ELSE job
    /\ stack' = IF Top(c).fn = "destroy" THEN Goto(c, "release") ELSE Pop(c)
    /\ UNCHANGED <<handle, host_delivery, action, chain, failed, delivered, env>>

-----------------------------------------------------------------------------

Program(c) ==
    \/ BulkCancel(c)
    \/ \E r \in Requests : Submit(c, r) \/ Enqueue(c, r) \/ Wait(c, r)
                             \/ Cancel(c, r) \/ Destroy(c, r)

\* What a context does by itself.
Step(c) ==
    \/ ListNext(c) \/ ListFree(c) \/ CallbackReturns(c) \/ PostHook(c)
    \/ SubmitNext(c) \/ Complete(c) \/ ReleaseOwn(c)
    \/ WaitLook(c) \/ WaitPoll(c) \/ WaitReturns(c) \/ CancelLocked(c)

Next ==
    \/ \E r \in Requests : StartWorker(r)
    \/ \E c \in Contexts : Program(c) \/ Step(c) \/ WaitTimesOut(c)

Spec == Init /\ [][Next]_vars

\* A queued job is started (RestAsync), a runnable context runs, and a callback
\* returns unless it waits.
FairSpec ==
    /\ Spec
    /\ \A r \in Requests : WF_vars(StartWorker(r))
    /\ \A c \in Contexts : WF_vars(Step(c))

-----------------------------------------------------------------------------
(* Properties.                                                              *)

\* How many contexts are finalizing r.
Finalizing(r) ==
    Cardinality({<<c, i>> \in Contexts \X (1 .. 8) :
        i <= Len(stack[c]) /\ stack[c][i].fn = "finalize" /\ stack[c][i].r = r})

Destroying(r) ==
    Cardinality({c \in Contexts : stack[c] # <<>> /\ Top(c).fn = "destroy" /\ Top(c).r = r})

One(b) == IF b THEN 1 ELSE 0

\* The reference count is exactly the caller's handle, a destroy that has not let
\* go of it, the job from its creation to its release, the queue's action and each
\* finalization under way; and the handle is freed at the moment there is none, so
\* nobody who still holds it touches freed memory (rest_request_handle.c:81).
HandleReferences ==
    \A r \in Requests :
        LET held == One(life[r] = "live" /\ ~caller_reference_released[r]) + Destroying(r)
                    + One(job[r].at \notin {"none", "freed"}) + One(action[r])
                    + Finalizing(r)
        IN  /\ references[r] = held
            /\ (life[r] = "live") = (held > 0)

\* A wait that returns DCC_OK returns after the callback has: the result view and
\* everything the callback did are there to see (rest_request_handle.c:189).
WaitMeansDelivered ==
    \A c \in Contexts :
        In(c, "wait", "done") => completed[Top(c).r] /\ delivered[Top(c).r] = "done"

\* A cancellation that returned while the request was not claimed is never lost: the
\* job of the request, whenever it reaches REST's queue, is a canceled job
\* (rest_request_handle.c:314, rest_submit.c).
CancelIsRemembered ==
    \A r \in Requests :
        (/\ cancel_requested[r] /\ job[r].at \in {"queued", "active"}
         /\ ~\E c \in Contexts : stack[c] # <<>> /\ Top(c).r = r /\ Top(c).pc = "locked")
        => job[r].canceled \/ terminal_claimed[r]

\* No wait blocks forever and no handle leaks: in the end no context is in a call,
\* every request was delivered, and those without a caller's reference are freed.
EverythingReturns ==
    <>[](/\ \A c \in Contexts : stack[c] = <<>>
         /\ \A r \in Requests :
               /\ life[r] # "unborn" => delivered[r] = "done" /\ completed[r]
               /\ caller_reference_released[r] => life[r] # "live")

=============================================================================
