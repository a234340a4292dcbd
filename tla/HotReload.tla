----------------------------- MODULE HotReload -----------------------------
(***************************************************************************)
(* The isolated-worker backend of hot reload (src/hot_reload): the parent  *)
(* process keeps up to three worker processes, an active one, the last     *)
(* good one and a canary candidate, and four kinds of party pass them      *)
(* around under one mutex:                                                 *)
(*   dispatchers  tasks that dispatch an event (hot_reload_worker_dispatch)*)
(*   reloaders    the watch task and callers of dcc_hot_reload_reload      *)
(*   the supervisor task, which probes the workers                         *)
(*   the owner, who destroys everything                                    *)
(* A worker is unlinked from its slot under the mutex by one party, which  *)
(* then holds it in its hand, stops the process and frees the structure    *)
(* without the mutex.  active_calls counts the parties that copied the     *)
(* slots and may still use what they copied.                               *)
(*                                                                         *)
(* Left out: the contents of events and results, health counters and error *)
(* texts, the watcher's file signatures, and the I/O lock of a worker,     *)
(* which only delays an attempt or a probe.                                *)
(***************************************************************************)
EXTENDS Integers, FiniteSets

CONSTANTS
    Dispatchers,      \* tasks that dispatch events of the client
    Reloaders,        \* the watch task, and threads that call reload
    Supervisor,       \* the worker supervisor task
    Owner,            \* the thread that destroys the hot reload
    MaxWorkers,       \* worker structures there may be
    MaxConsecutive,   \* canary option max_consecutive_failures
    MaxErrorPercent,  \* canary option max_error_rate
    Environments,     \* the scenarios of a run
    None

Workers == 1 .. MaxWorkers
Parties == Dispatchers \cup Reloaders \cup {Supervisor, Owner}

(* What the surroundings do: who dispatches and reloads, how often, how    *)
(* many workers fail, and whether canaries, the watcher with its           *)
(* supervisor, and the destruction take place.                             *)
Environment == [dispatchers : SUBSET Dispatchers, reloaders : SUBSET Reloaders,
                events : Nat, reloads : Nat, faults : Nat,
                canary : BOOLEAN, watched : BOOLEAN, destroy : BOOLEAN]

ASSUME HotReloadAssumption ==
    /\ MaxWorkers \in Nat \ {0}
    /\ None \notin Workers
    /\ MaxConsecutive \in Nat /\ MaxErrorPercent \in Nat
    /\ Environments \subseteq Environment
    /\ IsFiniteSet(Dispatchers) /\ IsFiniteSet(Reloaders)
    /\ Dispatchers \cap Reloaders = {}
    /\ Supervisor \notin Dispatchers \cup Reloaders
    /\ Owner \notin Dispatchers \cup Reloaders \cup {Supervisor}

VARIABLES
    active_worker, last_good_worker, candidate_worker,  \* the slots
    worker_canary,    \* the canary's state
    active_calls,     \* parties between enter and leave
    reloading,        \* a reload is between its start and its installation
    proc,             \* the process: none, up, bad (hung or malformed), dead
    mem,              \* the structure: none, live, closed, freed
    party,            \* where each party is, what it copied and holds
    env               \* the scenario, with what is left of its budgets

slots == <<active_worker, last_good_worker, candidate_worker>>
vars == <<active_worker, last_good_worker, candidate_worker, worker_canary,
          active_calls, reloading, proc, mem, party, env>>

Idle == [pc |-> "idle", active |-> None, last_good |-> None, candidate |-> None,
         ok |-> TRUE, failed |-> FALSE, alive |-> {}, hand |-> {}]

NoCanary == [active |-> FALSE, routed |-> 0, failures |-> 0, consecutive |-> 0]

(* An attached hot reload: attach has loaded generation 1.                 *)
Init ==
    /\ active_worker = 1 /\ last_good_worker = None /\ candidate_worker = None
    /\ worker_canary = NoCanary
    /\ active_calls = 0
    /\ reloading = FALSE
    /\ proc = [w \in Workers |-> IF w = 1 THEN "up" ELSE "none"]
    /\ mem = [w \in Workers |-> IF w = 1 THEN "live" ELSE "none"]
    /\ party = [a \in Parties |-> Idle]
    /\ env \in Environments

At(a, pc) == party[a].pc = pc
Slots == {active_worker, last_good_worker, candidate_worker} \ {None}
Real(S) == S \ {None}
Set(a, new) == party' = [party EXCEPT ![a] = new]

-----------------------------------------------------------------------------
(* A process may die, hang or begin to answer garbage at any moment.       *)
Fault(w) ==
    /\ env.faults > 0 /\ proc[w] = "up"
    /\ \E p \in {"bad", "dead"} : proc' = [proc EXCEPT ![w] = p]
    /\ env' = [env EXCEPT !.faults = @ - 1]
    /\ UNCHANGED <<slots, worker_canary, active_calls, reloading, mem, party>>

(* dcc_hot_reload_worker_process_is_alive: a closed worker is not loaded.  *)
(* Reading a freed structure may give either answer.                       *)
IsAlive(w) == {b \in BOOLEAN : mem[w] = "freed" \/ b = (mem[w] = "live" /\ proc[w] # "dead")}

(* The outcomes of dispatch_try_event: handled, refused by the module or   *)
(* by REST, or the worker failed (dead, timed out, malformed result).      *)
Handled == [ok |-> TRUE, failed |-> FALSE]
Refused == [ok |-> FALSE, failed |-> FALSE]
WorkerFailed == [ok |-> FALSE, failed |-> TRUE]
Attempts(w) ==
    IF w = None THEN {Refused}
    ELSE {o \in {Handled, Refused, WorkerFailed} :
            \/ mem[w] = "freed"
            \/ o.failed = ~(mem[w] = "live" /\ proc[w] = "up")}

(* dcc_hot_reload_worker_process_stop, by the party that holds the worker: *)
(* close it first, then wait for the exit, at last by SIGKILL, and free.   *)
Stops(a) == party[a].pc \in {"stop", "undo"}

Close(a, w) ==
    /\ Stops(a) /\ w \in party[a].hand /\ mem[w] = "live"
    /\ mem' = [mem EXCEPT ![w] = "closed"]
    /\ UNCHANGED <<slots, worker_canary, active_calls, reloading, proc, party, env>>

Free(a, w) ==
    /\ Stops(a) /\ w \in party[a].hand /\ mem[w] = "closed"
    /\ mem' = [mem EXCEPT ![w] = "freed"]
    /\ proc' = [proc EXCEPT ![w] = "dead"]
    /\ Set(a, [party[a] EXCEPT !.hand = @ \ {w}])
    /\ UNCHANGED <<slots, worker_canary, active_calls, reloading, env>>

-----------------------------------------------------------------------------
(* The canary policy; the clock may have passed promote_after_ms or not.   *)
Decisions(c) ==
    IF ~c.active THEN {"keep"}
    ELSE IF \/ c.consecutive >= MaxConsecutive
            \/ c.failures * 100 > MaxErrorPercent * c.routed
    THEN {"rollback"}
    ELSE {"keep", "promote"}

Recorded(c, ok) ==
    [c EXCEPT !.routed = @ + 1,
              !.failures = IF ok THEN @ ELSE @ + 1,
              !.consecutive = IF ok THEN 0 ELSE @ + 1]

(* canary_promote_locked and canary_rollback_locked.                       *)
PromoteCandidate ==
    /\ active_worker' = candidate_worker
    /\ last_good_worker' = active_worker
    /\ candidate_worker' = None
    /\ worker_canary' = [worker_canary EXCEPT !.active = FALSE]

RollbackCandidate ==
    /\ candidate_worker' = None
    /\ worker_canary' = [worker_canary EXCEPT !.active = FALSE]

-----------------------------------------------------------------------------
(* dcc_hot_reload_worker_dispatch_event: count the call, copy the slots;   *)
(* the event's hash decides whether a canary takes it.                     *)
Enter(x) ==
    /\ At(x, "idle") /\ x \in env.dispatchers /\ env.events > 0
    /\ party[Owner].pc \in {"idle", "stopping"}
    /\ active_calls' = active_calls + 1
    /\ \E routed \in {FALSE} \cup (IF worker_canary.active THEN {TRUE} ELSE {}) :
         Set(x, [Idle EXCEPT !.pc = "primary", !.active = active_worker,
                             !.last_good = last_good_worker,
                             !.candidate = IF routed THEN candidate_worker ELSE None])
    /\ env' = [env EXCEPT !.events = @ - 1]
    /\ UNCHANGED <<slots, worker_canary, reloading, proc, mem>>

Primary(p) == IF p.candidate # None THEN p.candidate ELSE p.active

(* Where the dispatch goes once the event was tried: to the last good      *)
(* worker, to the retirement of the active one, or to its end.             *)
Retires(p) ==
    IF ~p.ok /\ p.failed /\ p.active \notin p.hand THEN "retire" ELSE "stop"
Recovers(p) ==
    IF ~p.ok /\ p.failed /\ p.last_good # None /\ p.last_good # p.active
    THEN "promote" ELSE Retires(p)

TryPrimary(x) ==
    /\ At(x, "primary")
    /\ \E o \in Attempts(Primary(party[x])) :
         LET p == [party[x] EXCEPT !.ok = o.ok, !.failed = o.failed]
         IN Set(x, [p EXCEPT !.pc = IF p.candidate # None THEN "record" ELSE Recovers(p)])
    /\ UNCHANGED <<slots, worker_canary, active_calls, reloading, proc, mem, env>>

(* dcc_hot_reload_worker_canary_record.                                    *)
Record(x) ==
    /\ At(x, "record")
    /\ worker_canary' =
         IF candidate_worker = party[x].candidate /\ worker_canary.active
         THEN Recorded(worker_canary, party[x].ok) ELSE worker_canary
    /\ Set(x, [party[x] EXCEPT !.pc = "decide"])
    /\ UNCHANGED <<slots, active_calls, reloading, proc, mem, env>>

(* The decision after a canary's event, and the fallback to the active     *)
(* worker of the copy.                                                     *)
Decide(x) ==
    LET p == party[x]
        falls == ~p.ok /\ p.active # None /\ p.active # p.candidate
        q == IF falls THEN [p EXCEPT !.pc = "fallback"]
             ELSE [p EXCEPT !.pc = "stop", !.failed = FALSE]
        current == candidate_worker = p.candidate /\ worker_canary.active
    IN /\ At(x, "decide")
       /\ \E d \in IF current THEN Decisions(worker_canary) ELSE {"keep"} :
            \/ /\ d = "promote"
               /\ PromoteCandidate
               /\ Set(x, [q EXCEPT !.hand = @ \cup Real({last_good_worker})])
            \/ /\ d = "rollback"
               /\ RollbackCandidate
               /\ Set(x, [q EXCEPT !.hand = @ \cup {candidate_worker}])
               /\ UNCHANGED <<active_worker, last_good_worker>>
            \/ /\ d = "keep"
               /\ Set(x, q)
               /\ UNCHANGED <<slots, worker_canary>>
       /\ UNCHANGED <<active_calls, reloading, proc, mem, env>>

TryFallback(x) ==
    /\ At(x, "fallback")
    /\ \E o \in Attempts(party[x].active) :
         LET p == [party[x] EXCEPT !.ok = o.ok, !.failed = o.failed]
         IN Set(x, [p EXCEPT !.pc = Recovers(p)])
    /\ UNCHANGED <<slots, worker_canary, active_calls, reloading, proc, mem, env>>

(* Mutant: the slots are not compared with the copy before the swap.       *)
PromoteLastGoodBlindly(x) ==
    LET p == party[x]
    IN /\ At(x, "promote")
       /\ \E alive \in IsAlive(p.last_good) :
            IF alive
            THEN /\ active_worker' = p.last_good /\ last_good_worker' = None
                 /\ Set(x, [p EXCEPT !.pc = "retry", !.hand = @ \cup {p.active}])
            ELSE /\ Set(x, [p EXCEPT !.pc = "retry"])
                 /\ UNCHANGED <<active_worker, last_good_worker>>
       /\ UNCHANGED <<candidate_worker, worker_canary, active_calls, reloading, proc, mem, env>>

(* promote_last_good_after_failure: only if the slots are still the copy.  *)
PromoteLastGood(x) ==
    LET p == party[x]
        unchanged == active_worker = p.active /\ last_good_worker = p.last_good
    IN /\ At(x, "promote")
       /\ \E alive \in IsAlive(p.last_good) :
            IF unchanged /\ alive
            THEN /\ active_worker' = p.last_good /\ last_good_worker' = None
                 /\ Set(x, [p EXCEPT !.pc = "retry", !.hand = @ \cup {p.active}])
            ELSE /\ Set(x, [p EXCEPT !.pc = "retry"])
                 /\ UNCHANGED <<active_worker, last_good_worker>>
       /\ UNCHANGED <<candidate_worker, worker_canary, active_calls, reloading, proc, mem, env>>

TryLastGood(x) ==
    /\ At(x, "retry")
    /\ \E o \in Attempts(party[x].last_good) :
         LET p == [party[x] EXCEPT !.ok = o.ok]
         IN Set(x, [p EXCEPT !.pc = IF o.failed THEN "retireretry" ELSE Retires(p)])
    /\ UNCHANGED <<slots, worker_canary, active_calls, reloading, proc, mem, env>>

(* retire_active_after_failure: both slots are cleared, the failed worker  *)
(* is taken into the hand.                                                 *)
RetireIfActive(x, w, q) ==
    /\ IF active_worker = w
       THEN /\ active_worker' = None /\ last_good_worker' = None
            /\ Set(x, [q EXCEPT !.hand = @ \cup {w}])
       ELSE /\ Set(x, q)
            /\ UNCHANGED <<active_worker, last_good_worker>>
    /\ UNCHANGED <<candidate_worker, worker_canary, active_calls, reloading, proc, mem, env>>

RetireLastGood(x) ==
    /\ At(x, "retireretry")
    /\ RetireIfActive(x, party[x].last_good, [party[x] EXCEPT !.pc = Retires(party[x])])

RetireActive(x) ==
    /\ At(x, "retire")
    /\ RetireIfActive(x, party[x].active, [party[x] EXCEPT !.pc = "stop"])

(* The end of a dispatch: the retired workers are gone, an unhandled       *)
(* interaction was answered with the temporary error, the call is counted  *)
(* out.                                                                    *)
Leave(x) ==
    /\ At(x, "stop") /\ party[x].hand = {}
    /\ active_calls' = active_calls - 1
    /\ Set(x, Idle)
    /\ UNCHANGED <<slots, worker_canary, reloading, proc, mem, env>>

Dispatch(x) ==
    \/ TryPrimary(x) \/ Record(x) \/ Decide(x) \/ TryFallback(x) \/ PromoteLastGood(x)
    \/ TryLastGood(x) \/ RetireLastGood(x) \/ RetireActive(x) \/ Leave(x)
    \/ \E w \in Workers : Close(x, w) \/ Free(x, w)

-----------------------------------------------------------------------------
(* dcc_hot_reload_worker_supervise_once: only while no call is active, but *)
(* events may be dispatched while the probes run.                          *)
Supervise ==
    /\ At(Supervisor, "idle") /\ env.watched /\ At(Owner, "idle")
    /\ active_calls = 0 /\ Slots # {}
    /\ active_calls' = active_calls + 1
    /\ Set(Supervisor, [Idle EXCEPT !.pc = "active", !.active = active_worker,
                                    !.last_good = last_good_worker,
                                    !.candidate = candidate_worker])
    /\ UNCHANGED <<slots, worker_canary, reloading, proc, mem, env>>

(* One probe: is_alive, then a health message and its answer.              *)
Probes(w) ==
    {b \in BOOLEAN : IF w = None THEN ~b
                     ELSE mem[w] = "freed" \/ b = (mem[w] = "live" /\ proc[w] = "up")}

ProbeOf(pc) ==
    CASE pc = "active" -> party[Supervisor].active
      [] pc = "last_good" -> party[Supervisor].last_good
      [] pc = "candidate" -> party[Supervisor].candidate

Probe(pc, next) ==
    /\ At(Supervisor, pc)
    /\ \E b \in Probes(ProbeOf(pc)) :
         Set(Supervisor, [party[Supervisor] EXCEPT
               !.pc = next,
               !.alive = IF b THEN @ \cup {ProbeOf(pc)} ELSE @])
    /\ UNCHANGED <<slots, worker_canary, active_calls, reloading, proc, mem, env>>

(* Mutant: a dead last good worker is kept.                                *)
AfterProbesKeeps(a, g, alive) ==
    IF a # None /\ a \notin alive
    THEN IF g # None /\ g \in alive
         THEN [active |-> g, last_good |-> None, retired |-> {a}]
         ELSE [active |-> None, last_good |-> None, retired |-> Real({a, g})]
    ELSE [active |-> a, last_good |-> g, retired |-> {}]

(* What becomes of an active worker a and a last good one g, with the      *)
(* workers in alive: new slots, and who is retired.                        *)
AfterProbes(a, g, alive) ==
    IF a # None /\ a \notin alive
    THEN IF g # None /\ g \in alive
         THEN [active |-> g, last_good |-> None, retired |-> {a}]
         ELSE [active |-> None, last_good |-> None, retired |-> Real({a, g})]
    ELSE IF g # None /\ g \notin alive
    THEN [active |-> a, last_good |-> None, retired |-> {g}]
    ELSE [active |-> a, last_good |-> g, retired |-> {}]

(* The verdict, under the mutex: the call is counted out, nothing is done  *)
(* if the slots are no longer the copy, a dead or failing candidate is     *)
(* rolled back, a proven one promoted, dead workers are retired.           *)
Judge ==
    LET p == party[Supervisor]
        same == /\ active_worker = p.active /\ last_good_worker = p.last_good
                /\ candidate_worker = p.candidate
        Retire(gone, v) ==
            /\ active_worker' = v.active /\ last_good_worker' = v.last_good
            /\ Set(Supervisor, [Idle EXCEPT !.pc = "stop", !.hand = gone \cup v.retired])
        keep == AfterProbes(active_worker, last_good_worker, p.alive)
        stopped == [worker_canary EXCEPT !.active = FALSE]
    IN /\ At(Supervisor, "judge")
       /\ active_calls' = active_calls - 1
       /\ IF ~same
          THEN Set(Supervisor, Idle) /\ UNCHANGED <<slots, worker_canary>>
          ELSE \E d \in IF candidate_worker = None THEN {"keep"}
                        ELSE IF candidate_worker \notin p.alive THEN {"rollback"}
                        ELSE Decisions(worker_canary) :
               \/ /\ d = "keep"
                  /\ Retire({}, keep)
                  /\ UNCHANGED <<candidate_worker, worker_canary>>
               \/ /\ d = "rollback"
                  /\ Retire({candidate_worker}, keep)
                  /\ candidate_worker' = None /\ worker_canary' = stopped
               \/ /\ d = "promote"
                  /\ Retire(Real({last_good_worker}),
                            AfterProbes(candidate_worker, active_worker, p.alive))
                  /\ candidate_worker' = None /\ worker_canary' = stopped
       /\ UNCHANGED <<reloading, proc, mem, env>>

Supervised ==
    /\ At(Supervisor, "stop") /\ party[Supervisor].hand = {}
    /\ Set(Supervisor, Idle)
    /\ UNCHANGED <<slots, worker_canary, active_calls, reloading, proc, mem, env>>

SupervisorStep ==
    \/ Supervise \/ Probe("active", "last_good") \/ Probe("last_good", "candidate")
    \/ Probe("candidate", "judge") \/ Judge \/ Supervised
    \/ \E w \in Workers : Close(Supervisor, w) \/ Free(Supervisor, w)

-----------------------------------------------------------------------------
(* dcc_hot_reload_worker_reload; a second one meanwhile is refused.        *)
Reload(r) ==
    /\ At(r, "idle") /\ r \in env.reloaders /\ env.reloads > 0 /\ ~reloading
    /\ At(Owner, "idle")
    /\ reloading' = TRUE
    /\ env' = [env EXCEPT !.reloads = @ - 1]
    /\ Set(r, [Idle EXCEPT !.pc = "spawn"])
    /\ UNCHANGED <<slots, worker_canary, active_calls, proc, mem>>

(* The candidate process is started and says READY, or it is not.          *)
Spawn(r) ==
    /\ At(r, "spawn")
    /\ \E w \in Workers :
         /\ mem[w] = "none" /\ \A v \in 1 .. w - 1 : mem[v] # "none"
         /\ mem' = [mem EXCEPT ![w] = "live"]
         /\ proc' = [proc EXCEPT ![w] = "up"]
         /\ Set(r, [party[r] EXCEPT !.pc = "install", !.hand = {w}])
    /\ UNCHANGED <<slots, worker_canary, active_calls, reloading, env>>

SpawnFails(r) ==
    /\ At(r, "spawn")
    /\ reloading' = FALSE
    /\ Set(r, Idle)
    /\ UNCHANGED <<slots, worker_canary, active_calls, proc, mem, env>>

(* A trampoline could not be registered: the candidate is stopped first.   *)
InstallFails(r) ==
    /\ At(r, "install")
    /\ Set(r, [party[r] EXCEPT !.pc = "undo"])
    /\ UNCHANGED <<slots, worker_canary, active_calls, reloading, proc, mem, env>>

Undone(r) ==
    /\ At(r, "undo") /\ party[r].hand = {}
    /\ reloading' = FALSE
    /\ Set(r, Idle)
    /\ UNCHANGED <<slots, worker_canary, active_calls, proc, mem, env>>

(* The swap, as a canary or at once; reloading ends before the drain.      *)
Install(r) ==
    /\ At(r, "install")
    /\ \E w \in party[r].hand :
         IF env.canary /\ active_worker # None
         THEN /\ candidate_worker' = w /\ last_good_worker' = None
              /\ worker_canary' = [NoCanary EXCEPT !.active = TRUE]
              /\ UNCHANGED active_worker
         ELSE /\ last_good_worker' = active_worker /\ active_worker' = w
              /\ candidate_worker' = None
              /\ worker_canary' = [worker_canary EXCEPT !.active = FALSE]
    /\ reloading' = FALSE
    /\ Set(r, [party[r] EXCEPT !.pc = "drain",
                               !.hand = Real({last_good_worker, candidate_worker})])
    /\ UNCHANGED <<active_calls, proc, mem, env>>

(* Mutant: the calls that are under way are not waited for.                *)
DrainedAtOnce(r) ==
    /\ At(r, "drain")
    /\ Set(r, [party[r] EXCEPT !.pc = "stop"])
    /\ UNCHANGED <<slots, worker_canary, active_calls, reloading, proc, mem, env>>

(* Every call that could have copied the old slots has left.               *)
Drained(r) ==
    /\ At(r, "drain") /\ active_calls = 0
    /\ Set(r, [party[r] EXCEPT !.pc = "stop"])
    /\ UNCHANGED <<slots, worker_canary, active_calls, reloading, proc, mem, env>>

Reloaded(r) ==
    /\ At(r, "stop") /\ party[r].hand = {}
    /\ Set(r, Idle)
    /\ UNCHANGED <<slots, worker_canary, active_calls, reloading, proc, mem, env>>

ReloadStep(r) ==
    \/ Spawn(r) \/ SpawnFails(r) \/ InstallFails(r) \/ Undone(r) \/ Install(r)
    \/ Drained(r) \/ Reloaded(r)
    \/ \E w \in Workers : Close(r, w) \/ Free(r, w)

-----------------------------------------------------------------------------
(* dcc_hot_reload_destroy, by the owner of a stopped client: stop the      *)
(* tasks, remove the listeners, wait for the calls, stop the workers.      *)
Destroy ==
    /\ At(Owner, "idle") /\ env.destroy
    /\ Set(Owner, [Idle EXCEPT !.pc = "stopping"])
    /\ UNCHANGED <<slots, worker_canary, active_calls, reloading, proc, mem, env>>

Unlisten ==
    /\ At(Owner, "stopping")
    /\ \A a \in Reloaders \cup {Supervisor} : At(a, "idle")
    /\ Set(Owner, [Idle EXCEPT !.pc = "off"])
    /\ UNCHANGED <<slots, worker_canary, active_calls, reloading, proc, mem, env>>

DestroyAll ==
    /\ At(Owner, "off") /\ active_calls = 0
    /\ Set(Owner, [Idle EXCEPT !.pc = "stop", !.hand = Slots])
    /\ active_worker' = None /\ last_good_worker' = None /\ candidate_worker' = None
    /\ worker_canary' = [worker_canary EXCEPT !.active = FALSE]
    /\ UNCHANGED <<active_calls, reloading, proc, mem, env>>

Destroyed ==
    /\ At(Owner, "stop") /\ party[Owner].hand = {}
    /\ Set(Owner, [Idle EXCEPT !.pc = "gone"])
    /\ UNCHANGED <<slots, worker_canary, active_calls, reloading, proc, mem, env>>

OwnerStep ==
    \/ Unlisten \/ DestroyAll \/ Destroyed
    \/ \E w \in Workers : Close(Owner, w) \/ Free(Owner, w)

-----------------------------------------------------------------------------
Next ==
    \/ \E w \in Workers : Fault(w)
    \/ \E x \in Dispatchers : Enter(x) \/ Dispatch(x)
    \/ SupervisorStep
    \/ \E r \in Reloaders : Reload(r) \/ ReloadStep(r)
    \/ Destroy \/ OwnerStep

Spec == Init /\ [][Next]_vars

(* A task that can go on does.  The drain of a reload is awaited while the *)
(* supervisor enters and leaves again and again; it sleeps in between, and *)
(* every leave wakes the reload, so that one of these moments is caught.   *)
FairSpec ==
    /\ Spec
    /\ \A x \in Dispatchers : WF_vars(Dispatch(x))
    /\ WF_vars(SupervisorStep)
    /\ \A r \in Reloaders : WF_vars(ReloadStep(r)) /\ SF_vars(Drained(r))
    /\ WF_vars(OwnerStep)

-----------------------------------------------------------------------------
TypeOK ==
    /\ {active_worker, last_good_worker, candidate_worker} \subseteq Workers \cup {None}
    /\ worker_canary \in [active : BOOLEAN, routed : Nat, failures : Nat, consecutive : Nat]
    /\ active_calls \in Nat
    /\ reloading \in BOOLEAN
    /\ proc \in [Workers -> {"none", "up", "bad", "dead"}]
    /\ mem \in [Workers -> {"none", "live", "closed", "freed"}]
    /\ env \in Environment

(* The places a worker structure can be owned from.                        *)
Owners(w) ==
    {s \in {"active", "last_good", "candidate"} :
        w = (CASE s = "active" -> active_worker
               [] s = "last_good" -> last_good_worker
               [] s = "candidate" -> candidate_worker)}
    \cup {a \in Parties : w \in party[a].hand}

(* However dispatches, probes, reloads and canary decisions interleave, no *)
(* worker is in two slots or due to be stopped by two parties, an owned    *)
(* one is not freed, and no running process is left without an owner.      *)
OwnedOnce ==
    \A w \in Workers :
        /\ Cardinality(Owners(w)) <= 1
        /\ Owners(w) # {} => mem[w] \in {"live", "closed"}
        /\ proc[w] \in {"up", "bad"} => Owners(w) # {}

(* The workers a party copied from the slots and has not let go of.        *)
Copied(a) == Real({party[a].active, party[a].last_good, party[a].candidate})

(* A reload stops the workers it replaced only when no dispatch and no     *)
(* probe that copied them is still under way.                              *)
ReloadFreesIdle ==
    \A r \in Reloaders \cup {Owner} : At(r, "stop") =>
        \A a \in Dispatchers \cup {Supervisor} : Copied(a) \cap party[r].hand = {}

(* The worker that the next step of a party reads or writes.               *)
InUse(a) ==
    CASE party[a].pc = "primary" -> Primary(party[a])
      [] party[a].pc \in {"fallback", "active"} -> party[a].active
      [] party[a].pc \in {"retry", "last_good"} -> party[a].last_good
      [] party[a].pc = "candidate" -> party[a].candidate
      [] OTHER -> None

(* "The LLAM supervisor probes idle workers": neither it nor a dispatch    *)
(* that retires a failed worker frees one that another party is using.     *)
RetiredIsIdle ==
    \A a \in Parties : InUse(a) # None => mem[InUse(a)] # "freed"

(* Once nothing new happens, every dispatch, reload and destruction has    *)
(* returned, and the supervisor has replaced or retired every worker that  *)
(* died or hung.                                                           *)
SettlesHealthy ==
    <>[](/\ \A a \in Dispatchers \cup Reloaders : At(a, "idle")
         /\ party[Owner].pc \in {"idle", "gone"}
         /\ env.watched => \A w \in Slots : proc[w] = "up")
=============================================================================
