-------------------------- MODULE ClusterSupervisor --------------------------
(***************************************************************************)
(* A cluster of shards: dcc_cluster_start, stop and wait, the supervisor    *)
(* task that restarts failed gateway tasks within a budget, the per-shard   *)
(* controls (drain, resume, reconnect, rearm) and the health table they all *)
(* write.  Source: src/client/cluster_*.c, src/gateway/gateway.c,           *)
(* gateway_runtime.c and client_lifecycle.c.  What a gateway task does      *)
(* while it runs is GatewaySession; here it runs, reports READY, fails, or  *)
(* returns once it is told to stop.                                         *)
(*                                                                          *)
(* A step ends at a store another task reads: an atomic flag, the health    *)
(* lock, a wait.  The per-shard controls are called by LLAM tasks (event    *)
(* callbacks), start and wait by the thread that drives the runtime.        *)
(***************************************************************************)
EXTENDS Integers, FiniteSets

CONSTANTS
    ShardCount,   \* cluster->shard_count
    Callers,      \* the tasks that use the per-shard controls
    MaxTasks,     \* bound: gateway tasks of one shard alive at once
    Environments  \* bound: what may happen in a behaviour, see Environment

Decisions == {"default", "restart", "suppress", "error"}
AllOps == {"drain", "resume", "reconnect", "rearm", "admission", "stop"}

\* restart_policy.max_restarts, what the supervisor policy may answer ({} for
\* none), the shards that become ready, fail and are called about, the calls
\* made and by whom, the faults (a gateway task that fails, a task that cannot be
\* spawned) and the starts of the cluster.
Environment ==
    [max_restarts : Nat, policy : SUBSET Decisions, shards : SUBSET (1..ShardCount),
     callers : SUBSET Callers, ops : SUBSET AllOps, calls : Nat, faults : Nat,
     starts : Nat]

ASSUME ClusterAssumption ==
    /\ ShardCount \in Nat \ {0}
    /\ MaxTasks \in Nat \ {0}
    /\ Environments \subseteq Environment

Shards == 1..ShardCount
Slots == 1..MaxTasks

VARIABLES
    started, started_count, supervisor_stop, admission,   \* of the cluster
    runtime_stop,  \* llam_runtime_request_stop was called
    client,        \* the gateway flags of each shard's client
    health,        \* cluster->health
    task,          \* the gateway tasks of each shard
    sup,           \* the supervisor task
    call,          \* where each caller is
    env,           \* what of its environment the behaviour has not used yet
    drained,       \* the shards dcc_cluster_drain_shard was called for
    failures, decisions  \* failed tasks, and decisions on them, per shard

cluster == <<started, started_count, supervisor_stop, admission, runtime_stop>>
vars == <<cluster, client, health, task, sup, call, env, drained, failures, decisions>>

NoClient == [started |-> FALSE, stopping |-> FALSE, stop_requested |-> FALSE,
             running |-> FALSE, completed |-> FALSE, last_status |-> "ok"]
IdleCall == [pc |-> "idle", i |-> 0]

Init ==
    /\ started = FALSE /\ started_count = 0 /\ supervisor_stop = FALSE
    /\ admission = TRUE /\ runtime_stop = FALSE
    /\ client = [i \in Shards |-> NoClient]
    /\ health = [i \in Shards |-> [status |-> "CREATED", budget |-> 0, suppressed |-> FALSE]]
    /\ task = [i \in Shards |-> [k \in Slots |-> "none"]]
    /\ sup = [pc |-> "off", i |-> 0]
    /\ call = [c \in Callers |-> IdleCall]
    /\ env \in Environments
    /\ drained = {}
    /\ failures = [i \in Shards |-> 0] /\ decisions = [i \in Shards |-> 0]

-----------------------------------------------------------------------------
(* Helpers of the source.                                                   *)

\* supervisor_enabled of dcc_cluster_start.
Supervised == env.max_restarts # 0 \/ env.policy # {}

ShouldStop(i) == client[i].stopping \/ client[i].stop_requested

Report(i, status) == health' = [health EXCEPT ![i].status = status]

Fault == env.faults > 0 /\ env' = [env EXCEPT !.faults = @ - 1]

\* dcc_client_stop: the client, its gateway task and the shared LLAM runtime.
\*
\* Mutant: only the gateway task is asked to stop.
ClientStopGatewayOnly(i) ==
    /\ client' = [client EXCEPT ![i].stop_requested = TRUE]
    /\ runtime_stop' = TRUE

ClientStop(i) ==
    /\ client' = [client EXCEPT ![i].stopping = TRUE, ![i].stop_requested = TRUE]
    /\ runtime_stop' = TRUE

\* dcc_gateway_start once gateway_task_running was read as false: the requests
\* are cleared and the task is spawned, or cannot be, which is published as
\* completed before the status is stored.
Spawn(i) ==
    \E k \in Slots :
       /\ task[i][k] = "none" /\ \A j \in 1..(k - 1) : task[i][j] # "none"
       /\ task' = [task EXCEPT ![i][k] = "run"]
       /\ client' = [client EXCEPT ![i] = [@ EXCEPT !.stop_requested = FALSE,
                        !.running = TRUE, !.completed = FALSE, !.last_status = "ok"]]
       /\ UNCHANGED <<env, failures>>

SpawnFails(i) ==
    /\ IF runtime_stop THEN UNCHANGED env ELSE Fault
    /\ client' = [client EXCEPT ![i] = [@ EXCEPT !.stop_requested = FALSE,
                     !.running = FALSE, !.completed = TRUE, !.last_status = "ok"]]
    /\ failures' = [failures EXCEPT ![i] = @ + 1]
    /\ UNCHANGED task

StoreStatus(i) == client' = [client EXCEPT ![i].last_status = "error"]

-----------------------------------------------------------------------------
(* The gateway task of a shard: dcc_gateway_task.                           *)

Move(i, k, pc) == task' = [task EXCEPT ![i][k] = pc]

\* A READY or RESUMED event reaches dcc_cluster_health_event.
Ready(i, k) ==
    /\ task[i][k] = "run" /\ i \in env.shards
    /\ Report(i, "READY")
    /\ UNCHANGED <<cluster, client, task, sup, call, env, drained, failures, decisions>>

\* dcc_gateway_run returns: the status, then gateway_task_running.
Return(i, k) ==
    /\ task[i][k] = "run" /\ ShouldStop(i)
    /\ Move(i, k, "ok")
    /\ client' = [client EXCEPT ![i].last_status = "ok", ![i].running = FALSE]
    /\ UNCHANGED <<cluster, health, sup, call, env, drained, failures, decisions>>

Fail(i, k) ==
    /\ task[i][k] = "run" /\ i \in env.shards
    /\ IF runtime_stop THEN UNCHANGED env ELSE Fault
    /\ Move(i, k, "error")
    /\ client' = [client EXCEPT ![i].last_status = "error", ![i].running = FALSE]
    /\ failures' = [failures EXCEPT ![i] = @ + 1]
    /\ UNCHANGED <<cluster, health, sup, call, drained, decisions>>

\* gateway_task_completed is published; a failure is still to be logged.
Complete(i, k) ==
    /\ task[i][k] \in {"ok", "error"}
    /\ client' = [client EXCEPT ![i].completed = TRUE]
    /\ Move(i, k, IF task[i][k] = "error" /\ ~client[i].stopping THEN "log" ELSE "none")
    /\ UNCHANGED <<cluster, health, sup, call, env, drained, failures, decisions>>

\* The error log reaches dcc_cluster_health_event; without a supervisor the
\* client is stopped.
Log(i, k) ==
    /\ task[i][k] = "log"
    /\ Report(i, "ERROR")
    /\ Move(i, k, IF Supervised THEN "none" ELSE "stop")
    /\ UNCHANGED <<cluster, client, sup, call, env, drained, failures, decisions>>

StopOnError(i, k) ==
    /\ task[i][k] = "stop"
    /\ ClientStop(i)
    /\ Move(i, k, "none")
    /\ UNCHANGED <<started, started_count, supervisor_stop, admission, health, sup,
                   call, env, drained, failures, decisions>>

TaskStep(i, k) == Return(i, k) \/ Complete(i, k) \/ Log(i, k) \/ StopOnError(i, k)

-----------------------------------------------------------------------------
(* The supervisor: dcc_cluster_supervisor_task.                             *)

\* The next shard of the pass, or the pause between two passes.
Onward == sup' = IF sup.i < ShardCount THEN [pc |-> "scan", i |-> sup.i + 1]
                                       ELSE [pc |-> "pause", i |-> 0]
Goto(pc) == sup' = [sup EXCEPT !.pc = pc]

OnlySup == UNCHANGED <<cluster, client, health, task, call, env, drained, failures, decisions>>

Pause ==
    /\ sup.pc = "pause"
    /\ sup' = IF supervisor_stop THEN [pc |-> "off", i |-> 0] ELSE [pc |-> "scan", i |-> 1]
    /\ OnlySup

Scan ==
    /\ sup.pc = "scan"
    /\ LET c == client[sup.i]
       IN  IF c.stopping \/ ~c.completed \/ c.running THEN Onward ELSE Goto("judge")
    /\ OnlySup

Judge ==
    /\ sup.pc = "judge"
    /\ Goto(IF client[sup.i].last_status = "ok" THEN "forget" ELSE "decide")
    /\ OnlySup

\* A task that returned DCC_OK is not restarted.
Forget ==
    /\ sup.pc = "forget"
    /\ client' = [client EXCEPT ![sup.i].completed = FALSE]
    /\ Onward
    /\ UNCHANGED <<cluster, health, task, call, env, drained, failures, decisions>>

\* The policy's answer, applied under the health lock.  An explicit restart
\* spends the budget without being bound by it.
\*
\* Mutant: a failure that is not restarted stays published.
SuppressKeepsFlag(i, counted) ==
    /\ health' = [health EXCEPT ![i].status = "ERROR",
                                ![i].suppressed = @ \/ counted]
    /\ UNCHANGED client
    /\ Onward

Suppress(i, counted) ==
    /\ health' = [health EXCEPT ![i].status = "ERROR",
                                ![i].suppressed = @ \/ counted]
    /\ client' = [client EXCEPT ![i].completed = FALSE]
    /\ Onward

Schedule(i) ==
    /\ health' = [health EXCEPT ![i].status = "STARTING", ![i].budget = @ + 1]
    /\ Goto("delay")
    /\ UNCHANGED client

Decide(d) ==
    LET i == sup.i IN
    /\ sup.pc = "decide"
    /\ d \in IF env.policy = {} THEN {"default"} ELSE env.policy
    /\ decisions' = [decisions EXCEPT ![i] = @ + 1]
    /\ IF d = "restart" \/ (d = "default" /\ health[i].budget < env.max_restarts)
       THEN Schedule(i) ELSE Suppress(i, d # "error")
    /\ UNCHANGED <<cluster, task, call, env, drained, failures>>

\* The restart delay ends early once the supervisor is stopped.
Delay ==
    /\ sup.pc = "delay"
    /\ IF supervisor_stop \/ client[sup.i].stopping THEN Onward ELSE Goto("check")
    /\ OnlySup

\* dcc_gateway_start, and what came of it.
SupCheck ==
    /\ sup.pc = "check"
    /\ Goto(IF client[sup.i].running THEN "refused" ELSE "spawn")
    /\ OnlySup

SupSpawn ==
    /\ sup.pc = "spawn"
    /\ \/ Spawn(sup.i) /\ Goto("restarted")
       \/ SpawnFails(sup.i) /\ Goto("unspawned")
    /\ UNCHANGED <<cluster, health, call, drained, decisions>>

SupStatus ==
    /\ sup.pc = "unspawned"
    /\ StoreStatus(sup.i) /\ Goto("refused")
    /\ UNCHANGED <<cluster, health, task, call, env, drained, failures, decisions>>

Recorded ==
    /\ sup.pc \in {"restarted", "refused"}
    /\ Report(sup.i, IF sup.pc = "restarted" THEN "STARTING" ELSE "ERROR")
    /\ Onward
    /\ UNCHANGED <<cluster, client, task, call, env, drained, failures, decisions>>

SupervisorStep ==
    \/ Pause \/ Scan \/ Judge \/ Forget \/ (\E d \in Decisions : Decide(d))
    \/ Delay \/ SupCheck \/ SupSpawn \/ SupStatus \/ Recorded

-----------------------------------------------------------------------------
(* The controls.                                                            *)

Begin(c, op) ==
    /\ call[c].pc = "idle" /\ c \in env.callers /\ op \in env.ops /\ env.calls > 0
    /\ env' = [env EXCEPT !.calls = @ - 1]
At(c, pc) == call[c].pc = pc
Step(c, pc) == call' = [call EXCEPT ![c].pc = pc]
On(c, i, pc) == call' = [call EXCEPT ![c] = [pc |-> pc, i |-> i]]
Done(c) == call' = [call EXCEPT ![c] = IdleCall]

DrainShard(c, i) ==
    /\ Begin(c, "drain") /\ started
    /\ Report(i, "STOPPING") /\ On(c, i, "stop_gateway")
    /\ drained' = drained \cup {i}
    /\ UNCHANGED <<cluster, client, task, sup, failures, decisions>>

StopGateway(c) ==
    /\ At(c, "stop_gateway")
    /\ client' = [client EXCEPT ![call[c].i].stop_requested = TRUE]
    /\ Done(c)
    /\ UNCHANGED <<cluster, health, task, sup, env, drained, failures, decisions>>

ResumeShard(c, i) ==
    /\ Begin(c, "resume") /\ started /\ admission
    /\ Report(i, "STARTING") /\ On(c, i, "check")
    /\ UNCHANGED <<cluster, client, task, sup, drained, failures, decisions>>

CheckStart(c) ==
    /\ At(c, "check")
    /\ LET k == client[call[c].i]
       IN  Step(c, IF ~k.started \/ k.running THEN "failed" ELSE "spawn")
    /\ UNCHANGED <<cluster, client, health, task, sup, env, drained, failures, decisions>>

SpawnTask(c) ==
    /\ At(c, "spawn")
    /\ \/ Spawn(call[c].i) /\ Done(c)
       \/ SpawnFails(call[c].i) /\ Step(c, "unspawned")
    /\ UNCHANGED <<cluster, health, sup, drained, decisions>>

SpawnStatus(c) ==
    /\ At(c, "unspawned")
    /\ StoreStatus(call[c].i) /\ Step(c, "failed")
    /\ UNCHANGED <<cluster, health, task, sup, env, drained, failures, decisions>>

ReconnectShard(c, i) ==
    /\ Begin(c, "reconnect") /\ started /\ admission
    /\ Report(i, "STARTING") /\ On(c, i, "reconnect")
    /\ UNCHANGED <<cluster, client, task, sup, drained, failures, decisions>>

\* dcc_gateway_request_reconnect; what the request does is GatewaySession's.
RequestReconnect(c) ==
    /\ At(c, "reconnect")
    /\ LET i == call[c].i
       IN  IF ShouldStop(i) \/ ~client[i].running THEN Step(c, "failed") ELSE Done(c)
    /\ UNCHANGED <<cluster, client, health, task, sup, env, drained, failures, decisions>>

\* Mutant: the status of the gateway call is not looked at.
CallFailedUnseen(c) ==
    /\ At(c, "failed")
    /\ Done(c)
    /\ UNCHANGED <<cluster, client, health, task, sup, env, drained, failures, decisions>>

CallFailed(c) ==
    /\ At(c, "failed")
    /\ Report(call[c].i, "ERROR") /\ Done(c)
    /\ UNCHANGED <<cluster, client, task, sup, env, drained, failures, decisions>>

RearmShard(c, i) ==
    /\ Begin(c, "rearm")
    /\ health' = [health EXCEPT ![i].budget = 0,
                     ![i].status = IF @ = "ERROR" /\ health[i].suppressed
                                   THEN IF started THEN "STOPPED" ELSE "CREATED" ELSE @]
    /\ UNCHANGED <<cluster, client, task, sup, call, drained, failures, decisions>>

SetAdmission(c) ==
    /\ Begin(c, "admission")
    /\ admission' = ~admission
    /\ UNCHANGED <<started, started_count, supervisor_stop, runtime_stop, client, health,
                   task, sup, call, drained, failures, decisions>>

\* dcc_cluster_stop marks what is not already over, then stops each client
\* (started_count of them, which is all while the cluster is started).
Marked(h) == IF h.status \in {"STOPPED", "ERROR"} THEN h ELSE [h EXCEPT !.status = "STOPPING"]

Stop(c) ==
    /\ Begin(c, "stop") /\ started
    /\ supervisor_stop' = TRUE
    /\ health' = [i \in Shards |-> Marked(health[i])]
    /\ On(c, 1, "stop")
    /\ UNCHANGED <<started, started_count, admission, runtime_stop, client, task, sup,
                   drained, failures, decisions>>

StopClient(c) ==
    /\ At(c, "stop")
    /\ ClientStop(call[c].i)
    /\ IF call[c].i < ShardCount THEN On(c, call[c].i + 1, "stop") ELSE Done(c)
    /\ UNCHANGED <<started, started_count, supervisor_stop, admission, health, task, sup,
                   env, drained, failures, decisions>>

CallStep(c) ==
    \/ StopGateway(c) \/ CheckStart(c) \/ SpawnTask(c) \/ SpawnStatus(c)
    \/ RequestReconnect(c) \/ CallFailed(c) \/ StopClient(c)

Calls(c) ==
    \/ Stop(c) \/ SetAdmission(c)
    \/ \E i \in env.shards : DrainShard(c, i) \/ ResumeShard(c, i) \/ ReconnectShard(c, i)
                         \/ RearmShard(c, i)

-----------------------------------------------------------------------------
(* dcc_cluster_start and dcc_cluster_wait.  Nothing else runs during start: *)
(* the tasks it spawns are first scheduled by wait.                         *)

Launched == [NoClient EXCEPT !.started = TRUE, !.running = TRUE]

Start ==
    /\ ~started /\ admission /\ env.starts > 0
    /\ \A i \in Shards : ~client[i].started
    /\ env' = [env EXCEPT !.starts = @ - 1]
    /\ started' = TRUE /\ started_count' = ShardCount
    /\ supervisor_stop' = FALSE /\ runtime_stop' = FALSE
    /\ client' = [i \in Shards |-> Launched]
    /\ health' = [i \in Shards |-> [health[i] EXCEPT !.status = "STARTING"]]
    /\ task' = [i \in Shards |-> [task[i] EXCEPT ![1] = "run"]]
    /\ sup' = IF Supervised THEN [pc |-> "pause", i |-> 0] ELSE sup
    /\ UNCHANGED <<admission, call, drained, failures, decisions>>

\* The client of shard i cannot be started, or already was by a start that
\* failed later on: the shards before it are stopped, and it is an error.  Their
\* tasks are never scheduled, as dcc_cluster_wait refuses a cluster not started.
StartFails(i) ==
    /\ ~started /\ admission /\ env.starts > 0
    /\ \A j \in 1..(i - 1) : ~client[j].started
    /\ env' = [env EXCEPT !.starts = @ - 1,
                  !.faults = IF client[i].started THEN @ ELSE @ - 1]
    /\ env'.faults >= 0
    /\ started_count' = i - 1 /\ supervisor_stop' = (i > 1)
    /\ runtime_stop' = (runtime_stop \/ i > 1)
    /\ client' = [j \in Shards |->
           IF j < i THEN [Launched EXCEPT !.stopping = TRUE, !.stop_requested = TRUE]
           ELSE IF j = i /\ ~client[i].started
                THEN [NoClient EXCEPT !.completed = TRUE, !.last_status = "error"]
                ELSE client[j]]
    /\ health' = [j \in Shards |-> [health[j] EXCEPT !.status =
           CASE j < i -> "STOPPING" [] j = i -> "ERROR" [] OTHER -> "STARTING"]]
    /\ UNCHANGED <<started, admission, task, sup, call, drained, failures, decisions>>

\* The supervisor cannot be spawned: the cluster is started, and stopped at once.
StartUnsupervised ==
    /\ ~started /\ admission /\ env.starts > 0 /\ env.faults > 0 /\ Supervised
    /\ \A i \in Shards : ~client[i].started
    /\ env' = [env EXCEPT !.starts = @ - 1, !.faults = @ - 1]
    /\ started' = TRUE /\ started_count' = ShardCount
    /\ supervisor_stop' = TRUE /\ runtime_stop' = TRUE
    /\ client' = [i \in Shards |-> [Launched EXCEPT !.stopping = TRUE, !.stop_requested = TRUE]]
    /\ health' = [i \in Shards |-> [health[i] EXCEPT !.status =
                                       IF i = 1 THEN "ERROR" ELSE "STOPPING"]]
    /\ task' = [i \in Shards |-> [task[i] EXCEPT ![1] = "run"]]
    /\ UNCHANGED <<admission, sup, call, drained, failures, decisions>>

Quiet == sup.pc = "off" /\ \A i \in Shards, k \in Slots : task[i][k] = "none"

\* The runtime returns when its tasks are over: the supervisor, the gateway
\* tasks, the callers, and the main task of each client, which waits for stop.
Wait ==
    /\ started /\ Quiet /\ \A c \in Callers : call[c].pc = "idle"
    /\ runtime_stop \/ \A i \in Shards : client[i].stopping
    /\ started' = FALSE /\ started_count' = 0
    /\ client' = [i \in Shards |-> [client[i] EXCEPT !.started = FALSE]]
    /\ health' = [i \in Shards |-> IF health[i].status = "ERROR" THEN health[i]
                                   ELSE [health[i] EXCEPT !.status = "STOPPED"]]
    /\ UNCHANGED <<supervisor_stop, admission, runtime_stop, task, sup, call, env,
                   drained, failures, decisions>>

-----------------------------------------------------------------------------
Next ==
    \/ Start \/ StartUnsupervised \/ Wait \/ \E i \in Shards : StartFails(i)
    \/ SupervisorStep
    \/ \E i \in Shards, k \in Slots : TaskStep(i, k) \/ Ready(i, k) \/ Fail(i, k)
    \/ \E c \in Callers : CallStep(c) \/ Calls(c)

Spec == Init /\ [][Next]_vars

\* LLAM runs every task: the supervisor, the callers and the gateway tasks, so
\* a task that is told to stop returns.  Nothing need fail, become ready or be
\* called.
FairSpec ==
    /\ Spec
    /\ WF_vars(SupervisorStep) /\ WF_vars(Wait)
    /\ \A c \in Callers : WF_vars(CallStep(c))
    /\ \A i \in Shards, k \in Slots : WF_vars(TaskStep(i, k))

-----------------------------------------------------------------------------
(* Properties.                                                              *)

\* The type of the state.
TypeCluster ==
    /\ started \in BOOLEAN /\ supervisor_stop \in BOOLEAN /\ admission \in BOOLEAN
    /\ runtime_stop \in BOOLEAN /\ started_count \in 0..ShardCount

TypeClient == client \in [Shards -> [started : BOOLEAN, stopping : BOOLEAN,
          stop_requested : BOOLEAN, running : BOOLEAN, completed : BOOLEAN,
          last_status : {"ok", "error"}]]

TypeHealth == health \in [Shards -> [status : {"CREATED", "STARTING", "READY", "STOPPING",
          "STOPPED", "ERROR"}, budget : Nat, suppressed : BOOLEAN]]

TypeTask == task \in [Shards -> [Slots -> {"none", "run", "ok", "error", "log", "stop"}]]

SupStages == {"scan", "judge", "forget", "decide", "delay", "check", "spawn",
              "unspawned", "restarted", "refused"}
TypeSup == sup \in [pc : {"off", "pause"}, i : {0}] \cup [pc : SupStages, i : Shards]

CallStages == {"stop_gateway", "check", "spawn", "unspawned", "reconnect", "failed", "stop"}
TypeCall == call \in [Callers -> {IdleCall} \cup [pc : CallStages, i : Shards]]

TypeCounts ==
    /\ env \in Environment /\ drained \subseteq Shards
    /\ failures \in [Shards -> Nat] /\ decisions \in [Shards -> Nat]

TypeOK ==
    /\ TypeCluster /\ TypeClient /\ TypeHealth /\ TypeTask /\ TypeSup /\ TypeCall
    /\ TypeCounts

\* The supervisor decides at most once on each failure of a gateway task of a
\* shard nobody drained: a decision that does not restart clears
\* gateway_task_completed, one that does is followed by a start that clears it
\* (cluster_supervisor_apply.c), also when a resume starts the shard meanwhile.
\* (A drained task publishes its completion late, and may so publish the failure
\* of the resume that followed it twice.)
EachFailureJudgedOnce == \A i \in Shards \ drained : decisions[i] <= failures[i]

\* After dcc_cluster_stop every gateway task and the supervisor end, whatever
\* the supervisor and a resume were about to start: dcc_gateway_start clears
\* gateway_stop_requested, but never stopping (cluster_supervisor.c:44-49).
StopIsFinal == <>[](supervisor_stop => Quiet)

\* A shard nobody drained whose gateway task is gone for good does not stay
\* reported as starting or ready: each of the writers of the health table that
\* may come last says so (cluster_health_events.c, cluster_supervisor_apply.c,
\* cluster_supervisor_restart_result.c, cluster_shards.c).
DownIsReported ==
    <>[](started /\ ~runtime_stop =>
            \A i \in Shards \ drained :
               (\A k \in Slots : task[i][k] = "none") =>
                  health[i].status \in {"ERROR", "STOPPED", "STOPPING"})
=============================================================================
