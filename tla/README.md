# Verification of DCC

DCC is a C11 Discord client runtime: a gateway connection per shard, an
asynchronous REST queue, an application layer that answers interactions, worker
processes that can be reloaded, and the services around them. This directory
holds TLA+ models of the parts in which several threads share state, TLC
configurations that check them on small instances, and TLAPS proofs for
instances of every size. File names below are relative to `src/src/` (the
library) unless they start with `docs/` or `include/`.

1. [The system](#1-the-system)
2. [Modules](#2-modules)
3. [What each model says](#3-what-each-model-says)
4. [Runs, bounds and what they show](#4-runs-bounds-and-what-they-show)
5. [Fairness](#5-fairness)
6. [Proofs](#6-proofs)
7. [What the models showed](#7-what-the-models-showed)
8. [What is not modelled](#8-what-is-not-modelled)

To repeat the work: `tlc -config X.cfg M` for each row of the table in section 4,
and `tlapm M.tla` for each module of section 6.

## 1. The system

| Part | State | Operations | What makes it hard |
|---|---|---|---|
| Asynchronous REST queue (`rest/rest_async_*.c`, `rest_submit.c`, `rest_resource.c`) | pending list per priority, active list, active-route table, byte and request counters, bucket reset times | submit, drain, worker, 429 retry with a wake task, exact and bulk cancel, wait | five kinds of thread run the drain loop; two locks; a worker spawn may fail; teardown at any moment |
| REST request handle (`rest/rest_request_handle.c`) | reference count, claimed, completed, canceled, who runs the callback | cancel, wait, destroy, deliver | destroy, wait and cancellation race with the delivery, also from inside a callback |
| REST rate limits (`rest/rest_rate_limit*.c`) | buckets, shared hashes, global reset | note a response, ask for the wait | routes discover at run time that they share a bucket |
| Interaction action queue (`app/app_interaction_queue.c`, `app_auto_defer.c`) | list of actions, flags, projected and committed state, references, reserved bytes | enqueue, start the head, post-hook, cancel, destroy, auto-defer | handler, timer and REST workers act on one queue, the last of them frees it |
| Interaction registry (`app/app_interaction_registry.c`) | live flows, tombstones | claim, retire, expire | duplicate deliveries; a full table |
| Gateway session (`gateway/`) | atomic flags, session, sequence number, current socket, heartbeat state | start, stop, reconnect, send; connect, HELLO, IDENTIFY or RESUME, receive, close policy, back-off | the gateway task, the heartbeat task and callers share flags, locks and a reference-counted socket |
| IDENTIFY coordinator (`gateway/gateway_identify.c`, `client/cluster_*`) | session-start limit, next time of each bucket | reserve a slot | clocks read outside the lock, limits that are used up |
| Cluster supervisor and shard control (`client/cluster_*`) | flags of each client, health table, restart budget | start, stop, wait, supervise, drain, resume, reconnect, rearm | decisions made from flags that other tasks change before they are applied |
| Hot reload workers (`hot_reload/hot_reload_worker_*`) | three worker slots, `active_calls`, canary counters | dispatch, fall back, supervise, reload, destroy | workers are stopped and freed without the mutex while others hold copies of the slots |
| WebSocket (`ws/`), events (`events/`), runtime (`runtime/`), voice (`voice/`), firewall, transport, endpoints, cache, stores, servers, codecs | see section 8 | | |

They meet as follows. A handler of the application layer enqueues actions; the
action queue hands one at a time to the REST queue and is called back from the
REST worker's post-hook. A handle stands for a request from its submission to
the last reference, whoever runs it. The registry decides which delivery of an
interaction gets a handler. Each client of a cluster runs one gateway task, which
asks the cluster's coordinator for an IDENTIFY slot before each connection; the
supervisor starts the gateway tasks again when they fail. A client's teardown
closes the REST admission, cancels, and waits for both. Hot reload listens to the
client's events and hands them to a worker process.

The hazards that follow from this are listed, with their source lines and the
properties that address them, in `PROJECT.json`.

## 2. Modules

| Module | Kind | Of |
|---|---|---|
| `RestAsync` | specification | asynchronous REST queue, its rate limits, REST part of the teardown |
| `Lists` | operators | insertion into and removal from a list |
| `MCRestAsync` | instance | `RestAsync` |
| `SequenceFacts` | lemmas | the operators of `Lists` |
| `RestAsyncPlaces`, `RestAsyncClaims`, `RestAsyncTypes`, `RestAsyncProof` | proofs | `RestAsync` |
| `RestHandle`, `MCRestHandle` | specification, instance | request handles of plain requests and of an interaction's actions |
| `InteractionQueue`, `MCInteractionQueue` | specification, instance | one interaction's action queue with handler, timer and workers |
| `OrderedResponses` | abstract specification | what the action queue promises its user |
| `InteractionRegistry`, `MCInteractionRegistry`, `InteractionRegistryProof` | specification, instance, proofs | duplicate suppression |
| `GatewaySession`, `MCGatewaySession` | specification, instance | gateway task, heartbeat task, public calls, `dcc_client_stop` |
| `IdentifyCoordinator`, `MCIdentifyCoordinator`, `IdentifyCoordinatorProof` | specification, instance, proofs | IDENTIFY reservations of a cluster |
| `ClusterSupervisor`, `MCClusterSupervisor` | specification, instance | cluster start, stop and wait, supervisor, shard controls, health table |
| `HotReload`, `MCHotReload`, `HotReloadProof` | specification, instance, proofs | ownership of worker processes |

Definitions keep the names of the functions and fields they model; the lines of
each are in the map of `PROJECT.json`. A definition whose name says what it gets
wrong (`CanActivateUnbounded`, `NoSignal`, ...) is a mutant: the definition after
it with one plausible mistake, used to see that a property notices it. No
specification uses one.

*Scenarios.* `RestAsync`, `RestHandle`, `GatewaySession`, `ClusterSupervisor` and
`HotReload` have a constant `Environments`, a set of records that say what the
surroundings do in a behaviour: which requests are submitted, which calls are
made and how often, how many faults occur. `Init` chooses one (`env`), and the
actions of the surroundings use it up. So one run covers several small
scenarios whose state spaces add up instead of multiplying, and the proofs hold
for any set of them.

## 3. What each model says

### RestAsync

A request goes through `dcc_rest_submit_core` (variable `sub`), waits in
`queue[p]`, is taken by the drain loop (`drain.taken`), runs in a worker task
(`worker`) and is delivered (`terminal` counts its callbacks). A critical
section of `rest_lock` is one action. The drain loop holds that lock over several
steps, because it takes and releases `resource_lock` inside: `DrainTake`
(unlink, charge, count, claim the route), then `DrainSpawn` or
`DrainSpawnFails` (undo the four, put the request back where it was), and
`DrainStop`. `drain.by` is the thread that runs it.

* Submission: `OperationBegin`, `SubmitReserve` or `SubmitRejected`,
  `SubmitNoMemory`, `SubmitEnqueue`, `SubmitFreeRejected`, `SubmitReturn`. The
  room left is computed modulo `SizeMod`, as in `size_t`.
* Worker: `WorkerStart`, `HttpFails` or `HttpResponse` (which may close the
  bucket, tie its route to a shared hash and set the global limit), `Classify`
  (retry or not, decided without the lock), `Backoff`, `ReleaseResponse`,
  `RequeueRetry` or `RetryAbandoned`, `Deliver`, `Complete`, `WorkerFree`.
* Cancellation: `RequestCancel` and `RequestCancelLocked` are the two halves of
  `dcc_rest_request_cancel`; `BulkCancel` and the teardown detach the pending
  lists, whose jobs `CancelDetached` then delivers one by one.
* Waiting: `WaitBegin`, `WaitCheck`, `WaitElapsed` are `dcc_rest_async_wait`; a
  missed signal leaves `waiter = "asleep"`.
* Teardown: the steps of `dcc_client_prepare_destroy` that concern REST.
* Time is relative: `reset_in`, `global_in`, `retry_in`, `wait_in` count down by
  `Tick`.

Requests differ in route, priority and size only; what a response contains is a
status, a size and the limits in its headers.

### RestHandle

Every host thread, task and worker is a context with a stack of calls. A callback
runs on top of the finalization that delivers it and may itself wait, cancel,
destroy or bulk-cancel, which is where the barriers of `rest_request_handle.c`
matter: a wait from inside the handle's own callback must not block, a destroy
there gives up the caller's reference later, and `callback_task` or
`dcc_rest_host_request_delivery` (`host_delivery`) tells the callback's context.
Plain requests have a job from the submission on; the actions of an interaction
have a handle before their job, and a cancellation made before must still be seen
(`CancelIsRemembered`). How a job is scheduled is `RestAsync`'s matter.

### InteractionQueue and OrderedResponses

The actions are numbered in the order of acceptance. A call under the queue mutex
is one step; what runs after an unlock (the post-hook's callbacks, the delivery
of dependents, the release) is a step of its own. `Enqueue` is the whole of
`dcc_app_interaction_queue_enqueue` with its rollback when the first action is
refused; `PostResult` is the post-hook of a REST worker, which starts the next
action or, after a failure, detaches the rest and answers them locally. The
handler, the auto-defer timer and `Cancel` run beside them. REST is modelled by
what the queue sees of it: it admits or refuses an action and delivers one result.

`OrderedResponses` has four variables and says only what a user relies on.
`ImplementsOrderedResponses` is the refinement: the answers are the statuses in
the order of their terminals, the running call is the one with REST.

### InteractionRegistry

Live flows and tombstones with the time they expire. `Register` drops expired
tombstones, refuses a duplicate and otherwise needs room for the flow and for its
own later tombstone; `Retire` turns the one into the other.

### GatewaySession

The gateway task is a list of what it still has to do (`task.todo`), which
follows the calls of `dcc_gateway_run`; a step ends at a store to an atomic flag,
at the control lock or at a wait. `hb` is the heartbeat task with the state it
shares with the receive loop, `call` the progress of every thread in a public
call, `ws` the reference counts of the sockets. A session's identifier is the
number of the connection that created it. Discord (`peer`) may send any opcode
or close code in the states in which it can, or stay silent. `Ender` runs the last
statements of a gateway task, after it has given up `gateway_task_running`: a new
task may already be running.

### IdentifyCoordinator

Every shard reads the clock (`Stamp`), takes the lock and gets a grant or a time
to sleep (`Reserve`, `Grant`); the limit is refilled when its reset time has passed; a
sleep is cut short by a stop or a reconnect request. `own` is the client's copy
of the limit from which `dcc_cluster_identify_delay` takes its delay. The ghost
variables `last`, `used` and `allowance` record what was granted.

### ClusterSupervisor

The flags of each shard's client (`client`), the gateway tasks that exist for it
(`task`: one task may still have its last stores to make when the next is
started), the health table, the supervisor task with its place in the loop over
the shards, and the callers of the shard controls. A step ends at a store that
another task reads. A gateway task is reduced to what the supervisor sees: it
runs, reports READY, fails, or returns once it is told to stop. The ghosts
`failures` and `decisions` count what happened and what was judged.

### HotReload

Three slots name worker structures: `active_worker`, `last_good_worker`,
`candidate_worker`. A party (dispatcher, reloader, supervisor, owner) copies them
under the mutex and uses the copies without it; a worker that is replaced or
found dead is unlinked under the mutex and put into the *hand* of the party that
unlinked it, which then closes, waits for and frees it, step by step, without the
mutex. `active_calls` counts the parties between entering and leaving. `proc` is
the process (up, hung, dead), `mem` the structure (live, closed, freed); an
access to a freed structure may have any outcome. Every comparison the code makes
before it changes the slots (is the failed worker still the active one? are the
slots still the copy?) is a guard here.

## 4. Runs, bounds and what they show

<!-- runs -->
| Run | Config | States | Checks | Shows |
|---|---|---|---|---|
| rest_queue | `RestAsync.cfg` on `MCRestAsync` | 334 k | `RouteExclusive`, `WithinCapacity`, `OnePlace`, `ExactlyOneTerminal`, `AccountingExact`, `QueueOrdered`, `TeardownClean`, `StartsWithinLimits`, `CallsReturn`, `CanceledIsDelivered` | Up to three requests of two routes and priorities through admission, 429 retry, failed spawns, exact and bulk cancellation and a teardown at any moment: the queue loses, duplicates, reorders and over-admits nothing, starts nothing in a closed bucket, the waiting call and the teardown return, and a canceled request is delivered. |
| rest_stranded | `RestAsyncStranded.cfg` on `MCRestAsync` | violation | `AcceptedIsDelivered` | A request queued behind one whose response closes the bucket is never started unless some later call drains the queue. |
| rest_queued_bytes | `RestAsyncQueuedBytes.cfg` on `MCRestAsync` | violation | `AdmissionWithinQueuedBytes` | A retry raises the queued bytes over their limit, the subtraction of the next admission wraps around and the submission is admitted. |
| rest_handle | `RestHandle.cfg` on `MCRestHandle` | 207 k | `HandleReferences`, `WaitMeansDelivered`, `CancelIsRemembered`, `EverythingReturns` | A host thread and a task wait for, cancel, destroy and bulk-cancel a plain request and the two actions of an interaction while workers deliver them: the reference count is exact, a wait returns after the callback, a cancellation before the job exists is remembered, and under fairness every wait returns and no handle leaks. |
| interaction_queue | `InteractionQueue.cfg` on `MCInteractionQueue` | 356 k | `ActiveMeansInFlight`, `InitialComesFirstOnce`, `ReferencesExact`, `BytesExact`, `ReportedStateTracksCalls`, `ImplementsOrderedResponses`, `AcceptedIsAnswered`, `DestroyedIsFreed` | Three calls of any kind by the handler and its callbacks, with the auto-defer timer, cancellations, failures and a stopping client: the responses are answered as OrderedResponses promises, the bytes shared with another queue are exact, every accepted call is answered and a destroyed flow's queue is freed, by its last user only. |
| interaction_registry | `InteractionRegistry.cfg` on `MCInteractionRegistry` | 51 k | `SlotKeptForEachLive`, `OneLivePerIdentity`, `NoRedelivery` | Five deliveries of three interactions, one of them delivered three times, with a table of two tombstones and expiry: none is handled twice and retiring always finds a slot. |
| gateway_session | `GatewaySession.cfg` on `MCGatewaySession` | 251 k | `SocketReferences`, `HeartbeatHasSession`, `AckFlagIsHonest`, `ResumeIsSound`, `StopEndsTask`, `RequestIsTaken` | Two threads stop, reconnect or send while the gateway task goes through two connections, is started again before its last statements ran, or is asked for heartbeats: sockets are freed exactly once, no ACK is lost, a session is resumed only while it is valid, and under fairness of the tasks alone a stop ends the task and a reconnect request is taken although the peer may stay silent for ever. |
| identify | `Identify.cfg` on `MCIdentifyCoordinator` | 2.28 M | `ReportedLimitHolds`, `BucketSpacing` | Three shards with a concurrency above the number of buckets and limits that are used up and refilled: the session starts made and left add up to what Discord reported, and reservations of a bucket are spaced although two shards with equal start delays share it. |
| identify_refilled | `IdentifyRefilled.cfg` on `MCIdentifyCoordinator` | violation | `LimitIsConsumed` | A limit that is used up a second time holds nothing back: the refill forgot when the next one is due. |
| cluster | `Cluster.cfg` on `MCClusterSupervisor` | 446 k | `EachFailureJudgedOnce`, `StopIsFinal`, `DownIsReported` | Two shards whose gateway tasks fail or cannot be spawned, a supervisor with a budget or a policy, and callers that drain, resume, reconnect, rearm and stop at any moment, over one or two starts of the cluster: no failure is judged twice, a stop ends every task whatever was about to be started, and a shard that is down is not reported as up. |
| hot_reload | `HotReload.cfg` on `MCHotReload` | 311 k | `OwnedOnce`, `ReloadFreesIdle`, `SettlesHealthy` | Two dispatchers, two overlapping reloads, the supervisor, canaries, up to two failing workers and the destruction: each worker has one owner and is freed once, a reload frees only what nobody copied, and in the end every party has returned and only healthy workers are left. |
| hot_reload_busy | `HotReloadBusy.cfg` on `MCHotReload` | violation | `RetiredIsIdle` | The supervisor, or another dispatch, stops and frees a failed worker that a dispatch entered meanwhile is still using. |
<!-- end of runs -->

Every run that ends without an error visits all reachable states of its instance.
Deadlock is checked for the action queue, which can always go on or is over; the
other systems really may stop (every request delivered, every call made).

The bounds, and why they are enough for what is asked:

* *REST queue* (`RestEnvironments`). `r1` and `r2` have one route and different
  priorities, `r2` and `r3` one priority and different routes, and both routes
  share a bucket. Two requests of a route are what it takes for exclusion and for
  the race of two drain loops; three with one failed spawn are what it takes for a
  request to be taken from the middle of its list and put back. One retry, one
  cancellation, one bulk cancellation, a wait and a teardown each fall on every
  step of the requests they run beside. `MaxWait = 1` makes "closed" and "open"
  the two cases of every limit. `Levels = 2` of the four priorities: only their
  order is used. Sizes are 2, so that two requests fill the byte limits exactly.
* *Handles* (`HandleEnvironments`). One plain request with two waits, a cancel, a
  destroy and a bulk cancellation by a host thread, a task or a callback; a chain
  of two actions, canceled and destroyed in every order; both kinds under a bulk
  cancellation. A callback that bulk-cancels is excluded (`nested = FALSE`), see
  section 7.
* *Action queue.* Three calls are a head, its successor and a dependent behind
  that one: each kind of start, refusal and cascade occurs. The n-th action costs n
  bytes, so that bytes returned for the wrong action show; the limits of 7 are too
  small for all three beside the byte another queue takes.
* *Registry.* Five deliveries of three interactions, two live slots, two
  tombstones, time to live 2 in a run of length 5: the table fills, empties and
  fills again.
* *Gateway* (`SessionEnvironments`). Two connections are the old and the new one;
  two calls by two threads or by one, since every race found here is between two
  calls or a call and the task; a second start; up to three heartbeats without an
  answer.
* *Coordinator.* Three shards over two buckets with a concurrency above the number of
  buckets, limits of two and three starts that are used up and refilled once. The
  clock runs to `MaxTime`.
* *Cluster* (`ClusterEnvironments`). One or two shards, two starts of the cluster,
  up to three faults and three calls. `MaxTasks = 4`
  tasks of a shard at once is as many as these scenarios can have: a larger bound
  gives the same states.
* *Hot reload* (`HotReloadEnvironments`). Three workers are what the slots can
  name; a fourth would be a third reload. Two dispatches with two reloads or two
  faults are a copy made before each change of the slots and used after it. The
  canary limits (2 consecutive failures, 60 percent) make keep, promote and roll
  back all happen.

## 5. Fairness

Safety needs none. The liveness properties are checked under weak fairness of:

* `RestAsync`: the drain loop (but not that a spawn fails, only that it goes on),
  workers, wake tasks whose time has come, the passing of time, a waiter that is
  awake, a cancellation, submission or teardown that has begun. These are threads
  of the runtime or of the caller that are scheduled eventually and whose locks
  are held for bounded sections. HTTP requests end because the transport has
  timeouts. No fairness is given to submitting, cancelling or waiting: the program
  need not call.
* `RestHandle`: every context that is inside a call, and the start of a worker
  for a submitted job (which `RestAsync` is about). No fairness of new calls.
* `InteractionQueue`: REST's delivery of what it admitted, the workers, the timer,
  and that the handler returns, which is user code and an assumption.
* `GatewaySession`: the gateway task, the heartbeat task and threads inside a
  call. Nothing is assumed of Discord or of the timer; blocking reads are steps
  that need the peer or an abort, which is why `StopEndsTask` is not obvious.
* `ClusterSupervisor`: the supervisor, the thread in `dcc_cluster_wait`, callers
  inside a call, gateway tasks.
* `HotReload`: every party inside an operation; strong fairness of `Drained`. The
  supervisor enters and leaves again and again, so that `active_calls = 0` holds
  repeatedly but not for ever; the reload waits on a condition that every leave
  signals, and the supervisor sleeps between its rounds.

## 6. Proofs

All proofs hold for every value of the constants that satisfies the `ASSUME`s of
the specification: any number of requests, routes, flows, identities, shards,
buckets, dispatchers, reloaders and workers, any limits, any scenario. The
assumptions are typing of the constants, that different kinds of party are
different, and the limits the code itself validates (`LimitsAssumption`).

**RestAsync** (`RestAsyncProof`). None of the invariants is inductive alone. That a
route is exclusive needs the active list to be exactly the jobs in the drain
loop's hand and in workers; that needs a job to be in one place only; that needs
lists without duplicates, of jobs of their own priority, and the place a failed
spawn restores to lie within its list. `IndInv` is the conjunction:

| Conjunct | Says |
|---|---|
| `TypeOK` | types; counters are naturals |
| `QueueShape` | no pending list has a job twice or one of another priority |
| `DrainPlace` | the place `DrainSpawnFails` restores to exists |
| `Places` | pending, in hand, with a worker, detached: where a job is decides its charge and its terminal count |
| `Claims` | the active list and the claims on routes agree with the places |
| `RouteExclusive`, `ActiveFinite`, `ActiveCounted`, `HandOpen`, `ActiveBytesBounded` | one active job per route, `rest_async_active` is their number and within the concurrency, a job in hand has an open bucket, bytes within the limit |

`RestAsyncPlaces` proves what the steps do to the lists and to `Places`,
`RestAsyncClaims` the same for `Claims`, `RestAsyncTypes` that types are kept,
`RestAsyncProof` the rest and the theorems: `TypeCorrect`, `RoutesAreExclusive`,
`ActiveIsCounted`, `JobsAreInOnePlace`, `OneTerminal`, `RouteTableIsLargeEnough`,
`ActiveBytesStayBounded`, `CapacityIsKept` (the last three counts together, as the
run checks them), `StartsAreWithinLimits`. `SequenceFacts` has the lemmas on
removal from and insertion into a list.

**InteractionRegistry** (`InteractionRegistryProof`): `TypeCorrect`,
`RetireAlwaysFindsASlot`, `RetiredStaysBuried`, `DeliveriesAreExclusive`,
`RedeliveriesAreRefused`. The reservation is the point: live entries and unexpired
tombstones together never exceed the table.

**IdentifyCoordinator** (`IdentifyCoordinatorProof`): `TypeCorrect`, `LimitIsExact`,
`ReservationsAreSpaced`. The strengthening `NextIsSpaced` says that a bucket's next
time is at least the spacing after its last reservation; without it a stale clock
reading could not be excluded.

**HotReload** (`HotReloadProof`): `WorkersAreOwnedOnce`, `ReloadsFreeIdleWorkers`,
`CallsAreCounted`. That a worker has one owner is not inductive: the promotions
and retirements are guarded by comparing the slots with an old copy, and the
comparison is enough only because of what an old copy can still agree with.
`IndInv` is the conjunction:

| Conjunct | Says |
|---|---|
| `Typed`, `Shape` | types; where a party is decides what it holds and has copied |
| `Ownership` | the slots name different workers, no hand shares one with a slot or another hand, what is owned is not freed, a running process is owned |
| `Counted` | `active_calls` is the number of dispatches and probes under way |
| `NewIsUncopied`, `NewIsLive`, `CandidateIsNew` | nobody has copied a worker that is not installed yet; no copy has today's candidate as its active or last good worker |
| `CopyIsRecent` | if a copy still agrees on the active worker, then the last good one is the copied one or gone |
| `RetiredIsDead` | when a dispatch is about to clear both slots, a last good worker it would drop has no process left |
| `ReloadFreesIdle` | what a reload or the destruction stops, nobody has copied |

Nearly every action is an instance of one shape, `Step(a)`: party `a` changes its
own record, the slots stay, are emptied or move up (`Moves`), and what leaves them
goes to the hand of `a` unless it is dead (`Takes`). `StepKeeps` proves the
invariant once for that shape, and each action is shown to have it. `Spawn`,
`Install`, `Close` and `Free` bring in or end a worker and have proofs of their
own.

Only model-checked: all liveness (the prover does not reason about fairness); the
exact sums of `AccountingExact` and `BytesExact` (they need an induction over the
requests); `QueueOrdered` and `TeardownClean`; the properties of `RestHandle`,
`InteractionQueue` with its refinement, `GatewaySession` and `ClusterSupervisor`.

## 7. What the models showed

Four runs end with the violation of a sentence of the documentation;
`PROJECT.json` quotes each.

* `rest_stranded`: an accepted request whose bucket was closed by the response of
  the last active worker is not started when the bucket opens; only a 429 retry
  has a wake task.
* `rest_queued_bytes`: a retry is put back without a limit check; the queued
  bytes can exceed their limit, and the next `limit - queued` wraps around.
* `identify_refilled`: after its refill the session-start limit has no reset time,
  and when it is used up again it is neither consumed nor waited for.
* `hot_reload_busy`: the supervisor, or a dispatch that retires a failed worker,
  frees it although a dispatch that entered meanwhile is still using it. A reload
  does not do this (`ReloadFreesIdle`, proved).

Further behaviours were met while modelling. The scenarios of the passing runs
leave them out, or the properties are stated so that they are allowed, where this
is noted:

* `rest/rest_async_wait.c`: a failed spawn in the drain of `dcc_rest_async_wait` leaves it
  asleep without a timer while a ready request is pending. `CallsReturn` is
  checked in scenarios in which no spawn fails beside a wait.
* `rest/rest_request_handle.c:135-151`: a host thread that delivers a second
  handle inside a callback clears `dcc_rest_host_request_delivery` on the way
  out; a wait of the outer callback for its own handle then blocks. With
  `nested = TRUE` in a scenario `EverythingReturns` fails.
* `gateway/gateway_runtime_loop.c:92`: a stop that lands between the back-off and
  the loop's test makes the task return the error of its last attempt, which with
  `stop_runtime_on_error` stops the client.
* `gateway/gateway_ws_control.c:68`: the mode of a reconnect request that arrives
  while another is being taken is cleared, and a resumable session is given up.
* `gateway/gateway_resume.c:46`: a READY that could not be stored leaves the old
  session identifier with the new sequence number; `ResumeIsSound` excepts it
  (`unstored`).
* `client/cluster_supervisor.c:44`: a drain made during the restart delay is undone,
  since `dcc_gateway_start` clears `stop_requested`. `StopIsFinal` is about stops.
* `gateway/gateway.c:10`: two concurrent starts of one shard both pass the test of
  `gateway_task_running` and spawn two tasks.
* A drained task's late store of `completed` can make a later spawn failure be
  judged twice; `EachFailureJudgedOnce` is therefore about shards nobody drained.
* A `dcc_cluster_start` that fails at a later shard leaves the earlier clients
  started, and a second attempt returns `DCC_ERR_STATE`; a reconnect of a stopped
  shard always fails.
* `hot_reload/hot_reload_worker_dispatch_recovery.c:53`: retiring the active worker
  clears the last good slot without stopping what it named. `RetiredIsDead`
  (proved) says that its process is dead by then: only the structure leaks.

## 8. What is not modelled

Within the modelled parts: the eviction of the oldest bucket from a full table
(`rest/rest_rate_limit_buckets.c:28`); the error observer; restart of a client after
a stop; the deadline of `dcc_rest_async_wait`; cloning of results by a handle; the
release of the registry with live flows; gateway payloads and their decoding;
rolling operations and remediation of a cluster, which call the shard controls one
after the other, and shard controls called from threads outside the runtime; the
messages between hot reload and its workers, the child's side, and the watcher's
file signatures (read after the load, so that a file replaced during it is loaded
only at its next change).

Parts without a model are listed as components with the reason. The ones with
shared state that were read and left out:

* The legacy REST future (`rest/rest_future_lifecycle.c:23`): it publishes
  `completed` before it sends on a channel of capacity one, so that of two tasks
  in a wait one is woken, and a destroy after `completed` may meet the send;
  `docs/troubleshooting.md:103` asks for a destroy only after completion. It is
  superseded by the request handle, which is modelled.
* The file store writes a temporary file and renames it; two writers of one file
  share the temporary name (`store/store_file.c:103`) and have to be serialised by
  the program.
* The firewall in front of the queue, the event bus with its waiters, task groups,
  the in-process backend of hot reload, the voice gateway: each has a lock of its
  own and a handful of operations, but depends on LLAM's channels and joins for
  what is hard about it, or repeats the pattern of a modelled part.

The map covers a small share of the library's lines (about 2 percent). Most of
the library is REST endpoints, builders, JSON codecs, object accessors and public
wrappers, several thousand functions that format or decode one value and share
no state. A model of those would be a copy of them with nothing to check. What
the map covers is the code in which an interleaving, a fault or a limit decides
the outcome.
