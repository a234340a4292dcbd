----------------------- MODULE ClusterSupervisorProof -----------------------
(***************************************************************************)
(* The theorems about the cluster supervisor, for any number of shards,    *)
(* callers and gateway tasks of a shard.                                   *)
(***************************************************************************)
EXTENDS ClusterSupervisor, TLAPS

-----------------------------------------------------------------------------
(* The types. *)

ClientRecord == [started : BOOLEAN, stopping : BOOLEAN, stop_requested : BOOLEAN,
                 running : BOOLEAN, completed : BOOLEAN, last_status : {"ok", "error"}]

HealthRecord == [status : {"CREATED", "STARTING", "READY", "STOPPING", "STOPPED", "ERROR"},
                 budget : Nat, suppressed : BOOLEAN]

(* A client's record with some of its flags changed is one. *)
LEMMA ClientFields ==
    ASSUME NEW r \in ClientRecord
    PROVE  /\ \A v \in BOOLEAN : /\ [r EXCEPT !.started = v] \in ClientRecord
                                 /\ [r EXCEPT !.stop_requested = v] \in ClientRecord
                                 /\ [r EXCEPT !.completed = v] \in ClientRecord
           /\ [r EXCEPT !.stopping = TRUE, !.stop_requested = TRUE] \in ClientRecord
           /\ \A s \in {"ok", "error"} :
                 /\ [r EXCEPT !.last_status = s] \in ClientRecord
                 /\ [r EXCEPT !.last_status = s, !.running = FALSE] \in ClientRecord
           /\ \A v, w \in BOOLEAN : [r EXCEPT !.stop_requested = FALSE, !.running = v,
                 !.completed = w, !.last_status = "ok"] \in ClientRecord
BY Zenon DEF ClientRecord

LEMMA Launches ==
    /\ NoClient \in ClientRecord /\ Launched \in ClientRecord
    /\ [Launched EXCEPT !.stopping = TRUE, !.stop_requested = TRUE] \in ClientRecord
    /\ [NoClient EXCEPT !.completed = TRUE, !.last_status = "error"] \in ClientRecord
<1>1. NoClient \in ClientRecord
  BY Zenon DEF NoClient, ClientRecord
<1>2. Launched \in ClientRecord
  BY <1>1, Zenon DEF Launched, ClientRecord
<1> QED
  BY <1>1, <1>2, Zenon DEF ClientRecord

(* The client of one shard is written. *)
LEMMA ClientWritten ==
    ASSUME TypeClient, NEW i \in Shards, NEW r \in ClientRecord, client' = [client EXCEPT ![i] = r]
    PROVE  TypeClient' /\ client'[i] = r /\ \A j \in Shards : j # i => client'[j] = client[j]
BY Zenon DEF TypeClient, ClientRecord

-----------------------------------------------------------------------------
(* The inductive invariant.                                                *)
(*                                                                         *)
(* A failure is announced once: by the flag gateway_task_completed, stored *)
(* by the failed task or by the failed spawn.  Until the supervisor        *)
(* decides on it, it is a task that has not stored the flag yet (Errored), *)
(* the flag (Published) or the supervisor between its look at the flag and *)
(* its decision (Held).                                                    *)

One(b) == IF b THEN 1 ELSE 0

Errored(i) == {k \in Slots : task[i][k] = "error"}

Held(i) == sup.i = i /\ sup.pc \in {"judge", "decide"}

(* The supervisor has seen the flag of shard i and not restarted it yet. *)
Busy(i) == sup.i = i /\ sup.pc \in {"judge", "decide", "delay", "check", "spawn"}

(* It will not look at shard i again before the next dcc_cluster_start. *)
Past(i) == sup.pc = "off" \/ (supervisor_stop /\ (sup.pc = "pause" \/ sup.i > i))

(* The flag announces a failure nobody has judged: not one of a stopping   *)
(* shard, which no pass judges, nor the one the supervisor is working on,  *)
(* unless somebody has started the shard since, which cleared that one.    *)
Published(i) ==
    /\ client[i].completed /\ ~client[i].stopping
    /\ ~Past(i) /\ (Busy(i) => client[i].running)

Unjudged(i) == Cardinality(Errored(i)) + One(Held(i)) + One(Published(i))

Ledger == \A i \in Shards \ drained : decisions[i] + Unjudged(i) <= failures[i]

(* A task of a shard nobody drained returns DCC_OK only when its client is *)
(* stopping.                                                               *)
Causes ==
    \A i \in Shards \ drained :
        /\ client[i].stop_requested => client[i].stopping
        /\ \A k \in Slots : task[i][k] = "ok" => client[i].stopping

Drains == \A c \in Callers : call[c].pc = "stop_gateway" => call[c].i \in drained

(* Between dcc_cluster_wait and the next start no task runs. *)
Idle == ~started => Quiet /\ \A c \in Callers : call[c].pc = "idle"

IndInv == TypeOK /\ Causes /\ Drains /\ Idle /\ Ledger

(* What is used of cardinalities. *)
CountLaws ==
    /\ \A S \in SUBSET Slots : Cardinality(S) \in Nat
    /\ \A S, T \in SUBSET Slots : S \subseteq T => Cardinality(S) <= Cardinality(T)
    /\ \A S \in SUBSET Slots, k \in Slots :
          k \in S => Cardinality(S \ {k}) = Cardinality(S) - 1
    /\ \A S \in SUBSET Slots, k \in Slots :
          k \notin S => Cardinality(S \cup {k}) = Cardinality(S) + 1
    /\ Cardinality({}) = 0

-----------------------------------------------------------------------------
(* The ledger. *)

LEMMA Counts ==
    ASSUME CountLaws, NEW i \in Shards
    PROVE  Cardinality(Errored(i)) \in Nat /\ Cardinality(Errored(i))' \in Nat
<1>1. Errored(i) \in SUBSET Slots
  BY Zenon DEF Errored
<1>2. Errored(i)' \in SUBSET Slots
  BY Zenon DEF Errored
<1> QED
  BY <1>1, <1>2, Zenon DEF CountLaws

LEMMA Ones ==
    ASSUME NEW b \in BOOLEAN
    PROVE  One(b) \in {0, 1} /\ (b => One(b) = 1) /\ (~b => One(b) = 0)
BY Zenon DEF One

(* Nothing new to judge for shard i. *)
Steady(i) ==
    /\ failures'[i] = failures[i] /\ decisions'[i] = decisions[i]
    /\ Errored(i)' \subseteq Errored(i)
    /\ Held(i)' => Held(i)
    /\ Published(i)' => Published(i)

LEMMA SteadyBalance ==
    ASSUME CountLaws, TypeCounts, NEW i \in Shards, Steady(i),
           decisions[i] + Unjudged(i) <= failures[i]
    PROVE  (decisions[i] + Unjudged(i))' <= failures[i]'
<1>1. Errored(i) \in SUBSET Slots /\ Errored(i)' \in SUBSET Slots
  BY Zenon DEF Errored
<1>2. Cardinality(Errored(i)') <= Cardinality(Errored(i))
  BY <1>1, Zenon DEF CountLaws, Steady
<1>3. One(Held(i))' <= One(Held(i)) /\ One(Published(i))' <= One(Published(i))
  BY DEF One, Steady
<1>4. One(Held(i)) \in Nat /\ One(Published(i)) \in Nat /\ One(Held(i))' \in Nat /\ One(Published(i))' \in Nat
  BY DEF One
<1>5. decisions[i] \in Nat /\ failures[i] \in Nat
  BY Zenon DEF TypeCounts
<1>6. Cardinality(Errored(i))' = Cardinality(Errored(i)')
  OBVIOUS
<1> QED
  BY <1>2, <1>3, <1>4, <1>5, <1>6, Counts DEF Unjudged, Steady

LEMMA LedgerSteady ==
    ASSUME CountLaws, TypeCounts, Ledger, drained \subseteq drained',
           \A i \in Shards : i \notin drained' => Steady(i)
    PROVE  Ledger'
<1> SUFFICES ASSUME NEW i \in Shards, i \notin drained'
             PROVE  (decisions[i] + Unjudged(i))' <= failures[i]'
  BY Zenon DEF Ledger
<1>1. decisions[i] + Unjudged(i) <= failures[i] /\ Steady(i)
  BY Zenon DEF Ledger
<1> QED
  BY <1>1, SteadyBalance, Zenon

(* One shard has something new; the rest is steady. *)
LEMMA LedgerAt ==
    ASSUME CountLaws, TypeCounts, Ledger, drained \subseteq drained',
           NEW i \in Shards, \A j \in Shards : j # i => Steady(j),
           i \notin drained' => (decisions[i] + Unjudged(i))' <= failures[i]'
    PROVE  Ledger'
<1> SUFFICES ASSUME NEW j \in Shards, j \notin drained'
             PROVE  (decisions[j] + Unjudged(j))' <= failures[j]'
  BY Zenon DEF Ledger
<1>1. CASE j = i
  BY <1>1, Zenon
<1>2. CASE j # i
  <2>1. decisions[j] + Unjudged(j) <= failures[j] /\ Steady(j)
    BY <1>2, Zenon DEF Ledger
  <2> QED
    BY <2>1, SteadyBalance, Zenon
<1> QED
  BY <1>1, <1>2, Zenon

(* Shard i is left alone. *)
LEMMA Untouched ==
    ASSUME NEW i \in Shards, client'[i] = client[i], task'[i] = task[i],
           failures'[i] = failures[i], decisions'[i] = decisions[i],
           UNCHANGED <<sup, supervisor_stop>>
    PROVE  Steady(i)
BY Zenon DEF Steady, Errored, Held, Published, Past, Busy

(* The flag of shard i is not raised, and running only where it is down. *)
LEMMA FlagFades ==
    ASSUME NEW i \in Shards, Errored(i)' \subseteq Errored(i),
           failures'[i] = failures[i], decisions'[i] = decisions[i],
           UNCHANGED <<sup, supervisor_stop>>,
           client'[i].completed => client[i].completed \/ client'[i].stopping,
           client[i].stopping => client'[i].stopping,
           client'[i].completed /\ client'[i].running => client[i].running \/ client'[i].stopping
    PROVE  Steady(i)
BY Zenon DEF Steady, Held, Published, Past, Busy

(* Shard i has one more failure and at most the flag more to judge. *)
LEMMA FlagRaised ==
    ASSUME CountLaws, TypeCounts, NEW i \in Shards, decisions'[i] = decisions[i],
           failures'[i] = failures[i] + 1, Errored(i)' \subseteq Errored(i), Held(i)' => Held(i),
           decisions[i] + Unjudged(i) <= failures[i]
    PROVE  (decisions[i] + Unjudged(i))' <= failures[i]'
<1>1. Errored(i) \in SUBSET Slots /\ Errored(i)' \in SUBSET Slots
  BY Zenon DEF Errored
<1>2. Cardinality(Errored(i)') <= Cardinality(Errored(i))
  BY <1>1, Zenon DEF CountLaws
<1>3. One(Held(i))' <= One(Held(i)) /\ One(Published(i))' <= One(Published(i)) + 1
  BY DEF One
<1>4. /\ One(Held(i)) \in Nat /\ One(Published(i)) \in Nat
      /\ One(Held(i))' \in Nat /\ One(Published(i))' \in Nat
  BY DEF One
<1>5. decisions[i] \in Nat /\ failures[i] \in Nat
  BY Zenon DEF TypeCounts
<1>6. Cardinality(Errored(i))' = Cardinality(Errored(i)')
  OBVIOUS
<1> QED
  BY <1>2, <1>3, <1>4, <1>5, <1>6, Counts DEF Unjudged

(* A task of shard i fails: one more failure, and it is the task's. *)
LEMMA TaskFailed ==
    ASSUME CountLaws, TypeCounts, NEW i \in Shards, NEW k \in Slots, decisions'[i] = decisions[i],
           failures'[i] = failures[i] + 1, k \notin Errored(i), Errored(i)' = Errored(i) \cup {k},
           Held(i)' => Held(i), Published(i)' => Published(i),
           decisions[i] + Unjudged(i) <= failures[i]
    PROVE  (decisions[i] + Unjudged(i))' <= failures[i]'
<1>1. Errored(i) \in SUBSET Slots
  BY Zenon DEF Errored
<1>2. Cardinality(Errored(i)') = Cardinality(Errored(i)) + 1
  BY <1>1, Zenon DEF CountLaws
<1>3. One(Held(i))' <= One(Held(i)) /\ One(Published(i))' <= One(Published(i))
  BY DEF One
<1>4. /\ One(Held(i)) \in Nat /\ One(Published(i)) \in Nat
      /\ One(Held(i))' \in Nat /\ One(Published(i))' \in Nat
  BY DEF One
<1>5. decisions[i] \in Nat /\ failures[i] \in Nat
  BY Zenon DEF TypeCounts
<1>6. Cardinality(Errored(i))' = Cardinality(Errored(i)')
  OBVIOUS
<1> QED
  BY <1>2, <1>3, <1>4, <1>5, <1>6, Counts DEF Unjudged

(* A failed task of shard i hands its failure to the flag. *)
LEMMA FailureAnnounced ==
    ASSUME CountLaws, TypeCounts, NEW i \in Shards, NEW k \in Slots, decisions'[i] = decisions[i],
           failures'[i] = failures[i], k \in Errored(i), Errored(i)' = Errored(i) \ {k},
           Held(i)' => Held(i), decisions[i] + Unjudged(i) <= failures[i]
    PROVE  (decisions[i] + Unjudged(i))' <= failures[i]'
<1>1. Errored(i) \in SUBSET Slots
  BY Zenon DEF Errored
<1>2. Cardinality(Errored(i)') = Cardinality(Errored(i)) - 1
  BY <1>1, Zenon DEF CountLaws
<1>3. One(Held(i))' <= One(Held(i)) /\ One(Published(i))' <= One(Published(i)) + 1
  BY DEF One
<1>4. /\ One(Held(i)) \in Nat /\ One(Published(i)) \in Nat
      /\ One(Held(i))' \in Nat /\ One(Published(i))' \in Nat
  BY DEF One
<1>5. decisions[i] \in Nat /\ failures[i] \in Nat
  BY Zenon DEF TypeCounts
<1>6. Cardinality(Errored(i))' = Cardinality(Errored(i)')
  OBVIOUS
<1> QED
  BY <1>2, <1>3, <1>4, <1>5, <1>6, Counts DEF Unjudged

(* The supervisor takes the failure from the flag, or leaves it there. *)
LEMMA FlagTaken ==
    ASSUME CountLaws, TypeCounts, NEW i \in Shards, decisions'[i] = decisions[i],
           failures'[i] = failures[i], Errored(i)' = Errored(i),
           \/ ~Held(i) /\ Published(i) /\ ~Published(i)'
           \/ Held(i) /\ ~Held(i)' /\ ~Published(i),
           decisions[i] + Unjudged(i) <= failures[i]
    PROVE  (decisions[i] + Unjudged(i))' <= failures[i]'
<1>3. One(Held(i))' + One(Published(i))' <= One(Held(i)) + One(Published(i))
  BY DEF One
<1>4. /\ One(Held(i)) \in Nat /\ One(Published(i)) \in Nat
      /\ One(Held(i))' \in Nat /\ One(Published(i))' \in Nat
  BY DEF One
<1>5. decisions[i] \in Nat /\ failures[i] \in Nat
  BY Zenon DEF TypeCounts
<1>6. Cardinality(Errored(i))' = Cardinality(Errored(i))
  OBVIOUS
<1>7. \A d, c, h, p, h1, p1, f \in Nat :
         h1 + p1 <= h + p /\ d + (c + h + p) <= f => d + (c + h1 + p1) <= f
  OBVIOUS
<1> QED
  BY <1>3, <1>4, <1>5, <1>6, <1>7, Counts, Zenon DEF Unjudged

(* The supervisor decides on the failure it holds. *)
LEMMA HeldIsJudged ==
    ASSUME CountLaws, TypeCounts, NEW i \in Shards, decisions'[i] = decisions[i] + 1,
           failures'[i] = failures[i], Errored(i)' = Errored(i),
           Held(i), ~Held(i)', Published(i)' => Published(i),
           decisions[i] + Unjudged(i) <= failures[i]
    PROVE  (decisions[i] + Unjudged(i))' <= failures[i]'
<1>3. One(Held(i))' = 0 /\ One(Held(i)) = 1 /\ One(Published(i))' <= One(Published(i))
  BY DEF One
<1>4. One(Published(i)) \in Nat /\ One(Published(i))' \in Nat
  BY DEF One
<1>5. decisions[i] \in Nat /\ failures[i] \in Nat
  BY Zenon DEF TypeCounts
<1>6. Cardinality(Errored(i))' = Cardinality(Errored(i))
  OBVIOUS
<1>7. \A d, c, p, p1, f \in Nat : p1 <= p /\ d + (c + 1 + p) <= f => (d + 1) + (c + 0 + p1) <= f
  OBVIOUS
<1> QED
  BY <1>3, <1>4, <1>5, <1>6, <1>7, Counts, Zenon DEF Unjudged

-----------------------------------------------------------------------------
(* The steps. *)

LEMMA LedgerSame ==
    ASSUME Ledger, UNCHANGED <<client, task, sup, supervisor_stop, drained, failures, decisions>>
    PROVE  Ledger'
BY Zenon DEF Ledger, Unjudged, Errored, Held, Published, Past, Busy

(* What a step writes of the client of one shard. *)
LEMMA CausesAt ==
    ASSUME Causes, drained \subseteq drained', NEW i \in Shards,
           \A j \in Shards : j # i => client'[j] = client[j] /\ task'[j] = task[j],
           i \notin drained' => /\ client'[i].stop_requested => client'[i].stopping
                                /\ \A k \in Slots : task'[i][k] = "ok" => client'[i].stopping
    PROVE  Causes'
<1> SUFFICES ASSUME NEW j \in Shards, j \notin drained'
             PROVE  /\ client'[j].stop_requested => client'[j].stopping
                    /\ \A k \in Slots : task'[j][k] = "ok" => client'[j].stopping
  BY Zenon DEF Causes
<1>1. CASE j = i
  BY <1>1, Zenon
<1>2. CASE j # i
  BY <1>2, Zenon DEF Causes
<1> QED
  BY <1>1, <1>2, Zenon

(* The task k of shard i moves. *)
LEMMA TaskMoved ==
    ASSUME TypeTask, NEW i \in Shards, NEW k \in Slots,
           NEW pc \in {"none", "run", "ok", "error", "log", "stop"}, Move(i, k, pc)
    PROVE  /\ TypeTask' /\ task'[i][k] = pc
           /\ \A n \in Slots : n # k => task'[i][n] = task[i][n]
           /\ \A j \in Shards : j # i => task'[j] = task[j]
BY Zenon DEF Move, TypeTask

(* A fault is used up. *)
LEMMA FaultTyped ==
    ASSUME env \in Environment, Fault \/ UNCHANGED env
    PROVE  env' \in Environment
<1>1. CASE Fault
  <2>1. env.faults - 1 \in Nat
    BY <1>1, SMTT(30) DEF Fault, Environment
  <2> QED
    BY <1>1, <2>1, Zenon DEF Fault, Environment
<1> QED
  BY <1>1, Zenon

(* dcc_gateway_task after dcc_gateway_run. *)
LEMMA WriteReturn ==
    ASSUME TypeClient, NEW i \in Shards, NEW s \in {"ok", "error"}, 
           client' = [client EXCEPT ![i] = [client[i] EXCEPT !.last_status = s, !.running = FALSE]]
    PROVE  /\ TypeClient'
           /\ \A j \in Shards : j # i => client'[j] = client[j]
           /\ (client'[i].started <=> client[i].started) /\ (client'[i].stopping <=> client[i].stopping)
           /\ (client'[i].stop_requested <=> client[i].stop_requested) /\ ~client'[i].running
           /\ (client'[i].completed <=> client[i].completed) /\ client'[i].last_status = s
<1>1. client[i] \in ClientRecord
  BY Zenon DEF TypeClient, ClientRecord
<1>2. PICK r \in ClientRecord : r = [client[i] EXCEPT !.last_status = s, !.running = FALSE]
  BY <1>1, ClientFields, Zenon
<1>3. TypeClient' /\ client'[i] = r /\ \A j \in Shards : j # i => client'[j] = client[j]
  BY <1>2, ClientWritten, Zenon
<1>4. /\ (r.started <=> client[i].started) /\ (r.stopping <=> client[i].stopping)
      /\ (r.stop_requested <=> client[i].stop_requested) /\ ~r.running
      /\ (r.completed <=> client[i].completed) /\ r.last_status = s
  BY <1>1, <1>2, Zenon DEF ClientRecord
<1> QED
  BY <1>3, <1>4, Zenon

(* gateway_task_completed is stored. *)
LEMMA WriteCompleted ==
    ASSUME TypeClient, NEW i \in Shards, NEW v \in BOOLEAN, 
           client' = [client EXCEPT ![i] = [client[i] EXCEPT !.completed = v]]
    PROVE  /\ TypeClient'
           /\ \A j \in Shards : j # i => client'[j] = client[j]
           /\ (client'[i].started <=> client[i].started) /\ (client'[i].stopping <=> client[i].stopping)
           /\ (client'[i].stop_requested <=> client[i].stop_requested) /\ (client'[i].running <=> client[i].running)
           /\ (client'[i].completed <=> v) /\ client'[i].last_status = client[i].last_status
<1>1. client[i] \in ClientRecord
  BY Zenon DEF TypeClient, ClientRecord
<1>2. PICK r \in ClientRecord : r = [client[i] EXCEPT !.completed = v]
  BY <1>1, ClientFields, Zenon
<1>3. TypeClient' /\ client'[i] = r /\ \A j \in Shards : j # i => client'[j] = client[j]
  BY <1>2, ClientWritten, Zenon
<1>4. /\ (r.started <=> client[i].started) /\ (r.stopping <=> client[i].stopping)
      /\ (r.stop_requested <=> client[i].stop_requested) /\ (r.running <=> client[i].running)
      /\ (r.completed <=> v) /\ r.last_status = client[i].last_status
  BY <1>1, <1>2, Zenon DEF ClientRecord
<1> QED
  BY <1>3, <1>4, Zenon

(* dcc_client_stop. *)
LEMMA WriteStop ==
    ASSUME TypeClient, NEW i \in Shards, 
           client' = [client EXCEPT ![i] = [client[i] EXCEPT !.stopping = TRUE, !.stop_requested = TRUE]]
    PROVE  /\ TypeClient'
           /\ \A j \in Shards : j # i => client'[j] = client[j]
           /\ (client'[i].started <=> client[i].started) /\ client'[i].stopping
           /\ client'[i].stop_requested /\ (client'[i].running <=> client[i].running)
           /\ (client'[i].completed <=> client[i].completed) /\ client'[i].last_status = client[i].last_status
<1>1. client[i] \in ClientRecord
  BY Zenon DEF TypeClient, ClientRecord
<1>2. PICK r \in ClientRecord : r = [client[i] EXCEPT !.stopping = TRUE, !.stop_requested = TRUE]
  BY <1>1, ClientFields, Zenon
<1>3. TypeClient' /\ client'[i] = r /\ \A j \in Shards : j # i => client'[j] = client[j]
  BY <1>2, ClientWritten, Zenon
<1>4. /\ (r.started <=> client[i].started) /\ r.stopping
      /\ r.stop_requested /\ (r.running <=> client[i].running)
      /\ (r.completed <=> client[i].completed) /\ r.last_status = client[i].last_status
  BY <1>1, <1>2, Zenon DEF ClientRecord
<1> QED
  BY <1>3, <1>4, Zenon

(* dcc_gateway_start. *)
LEMMA WriteSpawn ==
    ASSUME TypeClient, NEW i \in Shards, NEW v \in BOOLEAN, NEW w \in BOOLEAN, 
           client' = [client EXCEPT ![i] = [client[i] EXCEPT !.stop_requested = FALSE, !.running = v, !.completed = w, !.last_status = "ok"]]
    PROVE  /\ TypeClient'
           /\ \A j \in Shards : j # i => client'[j] = client[j]
           /\ (client'[i].started <=> client[i].started) /\ (client'[i].stopping <=> client[i].stopping)
           /\ ~client'[i].stop_requested /\ (client'[i].running <=> v)
           /\ (client'[i].completed <=> w) /\ client'[i].last_status = "ok"
<1>1. client[i] \in ClientRecord
  BY Zenon DEF TypeClient, ClientRecord
<1>2. PICK r \in ClientRecord : r = [client[i] EXCEPT !.stop_requested = FALSE, !.running = v, !.completed = w, !.last_status = "ok"]
  BY <1>1, ClientFields, Zenon
<1>3. TypeClient' /\ client'[i] = r /\ \A j \in Shards : j # i => client'[j] = client[j]
  BY <1>2, ClientWritten, Zenon
<1>4. /\ (r.started <=> client[i].started) /\ (r.stopping <=> client[i].stopping)
      /\ ~r.stop_requested /\ (r.running <=> v)
      /\ (r.completed <=> w) /\ r.last_status = "ok"
  BY <1>1, <1>2, Zenon DEF ClientRecord
<1> QED
  BY <1>3, <1>4, Zenon

(* The status of a failed spawn. *)
LEMMA WriteStatus ==
    ASSUME TypeClient, NEW i \in Shards, 
           client' = [client EXCEPT ![i] = [client[i] EXCEPT !.last_status = "error"]]
    PROVE  /\ TypeClient'
           /\ \A j \in Shards : j # i => client'[j] = client[j]
           /\ (client'[i].started <=> client[i].started) /\ (client'[i].stopping <=> client[i].stopping)
           /\ (client'[i].stop_requested <=> client[i].stop_requested) /\ (client'[i].running <=> client[i].running)
           /\ (client'[i].completed <=> client[i].completed) /\ client'[i].last_status = "error"
<1>1. client[i] \in ClientRecord
  BY Zenon DEF TypeClient, ClientRecord
<1>2. PICK r \in ClientRecord : r = [client[i] EXCEPT !.last_status = "error"]
  BY <1>1, ClientFields, Zenon
<1>3. TypeClient' /\ client'[i] = r /\ \A j \in Shards : j # i => client'[j] = client[j]
  BY <1>2, ClientWritten, Zenon
<1>4. /\ (r.started <=> client[i].started) /\ (r.stopping <=> client[i].stopping)
      /\ (r.stop_requested <=> client[i].stop_requested) /\ (r.running <=> client[i].running)
      /\ (r.completed <=> client[i].completed) /\ r.last_status = "error"
  BY <1>1, <1>2, Zenon DEF ClientRecord
<1> QED
  BY <1>3, <1>4, Zenon

(* A drain asks the gateway task to stop. *)
LEMMA WriteRequest ==
    ASSUME TypeClient, NEW i \in Shards, 
           client' = [client EXCEPT ![i] = [client[i] EXCEPT !.stop_requested = TRUE]]
    PROVE  /\ TypeClient'
           /\ \A j \in Shards : j # i => client'[j] = client[j]
           /\ (client'[i].started <=> client[i].started) /\ (client'[i].stopping <=> client[i].stopping)
           /\ client'[i].stop_requested /\ (client'[i].running <=> client[i].running)
           /\ (client'[i].completed <=> client[i].completed) /\ client'[i].last_status = client[i].last_status
<1>1. client[i] \in ClientRecord
  BY Zenon DEF TypeClient, ClientRecord
<1>2. PICK r \in ClientRecord : r = [client[i] EXCEPT !.stop_requested = TRUE]
  BY <1>1, ClientFields, Zenon
<1>3. TypeClient' /\ client'[i] = r /\ \A j \in Shards : j # i => client'[j] = client[j]
  BY <1>2, ClientWritten, Zenon
<1>4. /\ (r.started <=> client[i].started) /\ (r.stopping <=> client[i].stopping)
      /\ r.stop_requested /\ (r.running <=> client[i].running)
      /\ (r.completed <=> client[i].completed) /\ r.last_status = client[i].last_status
  BY <1>1, <1>2, Zenon DEF ClientRecord
<1> QED
  BY <1>3, <1>4, Zenon

LEMMA ReadyKeeps ==
    ASSUME IndInv, CountLaws, NEW i \in Shards, NEW k \in Slots, Ready(i, k)
    PROVE  IndInv'
<1>1. /\ TypeCluster /\ TypeClient /\ TypeHealth /\ TypeTask /\ TypeSup /\ TypeCall
      /\ TypeCounts /\ Causes /\ Drains /\ Idle /\ Ledger
  BY Zenon DEF IndInv, TypeOK
<1>2. UNCHANGED <<started, started_count, supervisor_stop, admission, runtime_stop, client, task, sup, call, env, drained, failures, decisions>>
  BY Zenon DEF Ready, cluster, OnlySup
<1>3. TypeCluster' /\ TypeClient' /\ TypeTask' /\ TypeSup' /\ TypeCall' /\ TypeCounts' /\ Causes' /\ Drains' /\ Idle'
  BY <1>1, <1>2, Zenon DEF TypeCluster, TypeClient, TypeTask, TypeSup, TypeCall, TypeCounts, Causes, Drains, Idle, Quiet
<1>4. Ledger'
  BY <1>1, <1>2, LedgerSame, Zenon
<1>5.TypeHealth'
  BY <1>1, Zenon DEF Ready, Report, TypeHealth
<1> QED
  BY <1>3, <1>4, <1>5, Zenon DEF IndInv, TypeOK

LEMMA ReturnKeeps ==
    ASSUME IndInv, CountLaws, NEW i \in Shards, NEW k \in Slots, Return(i, k)
    PROVE  IndInv'
<1>1. /\ TypeCluster /\ TypeClient /\ TypeHealth /\ TypeTask /\ TypeSup /\ TypeCall
      /\ TypeCounts /\ Causes /\ Drains /\ Idle /\ Ledger
  BY Zenon DEF IndInv, TypeOK
<1>2. UNCHANGED <<started, started_count, supervisor_stop, admission, runtime_stop, health, sup, call, env, drained, failures, decisions>>
  BY Zenon DEF Return, cluster, OnlySup
<1>3. TypeCluster' /\ TypeHealth' /\ TypeSup' /\ TypeCall' /\ TypeCounts' /\ Drains'
  BY <1>1, <1>2, Zenon DEF TypeCluster, TypeHealth, TypeSup, TypeCall, TypeCounts, Drains
<1>4. client' = [client EXCEPT ![i] = [client[i] EXCEPT !.last_status = "ok", !.running = FALSE]]
  BY Zenon DEF Return
<1>5. /\ TypeClient' /\ \A j \in Shards : j # i => client'[j] = client[j]
      /\ (client'[i].started <=> client[i].started) /\ (client'[i].stopping <=> client[i].stopping)
      /\ (client'[i].stop_requested <=> client[i].stop_requested) /\ ~client'[i].running
      /\ (client'[i].completed <=> client[i].completed) /\ client'[i].last_status = "ok"
  BY <1>1, <1>4, WriteReturn, Zenon
<1>6. /\ TypeTask' /\ task'[i][k] = "ok" /\ \A n \in Slots : n # k => task'[i][n] = task[i][n]
      /\ \A j \in Shards : j # i => task'[j] = task[j]
  BY <1>1, TaskMoved, Zenon DEF Return
<1>7. Causes'
  BY <1>1, <1>2, <1>5, <1>6, CausesAt, Zenon DEF Return, ShouldStop, Causes
<1>8. Ledger'
  <2>1. Errored(i)' \subseteq Errored(i)
    BY <1>6, Zenon DEF Errored
  <2>2. Steady(i)
    BY <1>2, <1>5, <2>1, FlagFades, Zenon
  <2>3. \A j \in Shards : Steady(j)
    BY <1>2, <1>5, <1>6, <2>2, Untouched, Zenon
  <2> QED
    BY <1>1, <1>2, <2>3, LedgerSteady, Zenon
<1>9. Idle'
  <2>1. started
    BY <1>1, Zenon DEF Idle, Quiet, Return, At
  <2> QED
    BY <1>2, <2>1, Zenon DEF Idle
<1> QED
  BY <1>3, <1>4, <1>5, <1>6, <1>7, <1>8, <1>9, Zenon DEF IndInv, TypeOK

LEMMA FailKeeps ==
    ASSUME IndInv, CountLaws, NEW i \in Shards, NEW k \in Slots, Fail(i, k)
    PROVE  IndInv'
<1>1. /\ TypeCluster /\ TypeClient /\ TypeHealth /\ TypeTask /\ TypeSup /\ TypeCall
      /\ TypeCounts /\ Causes /\ Drains /\ Idle /\ Ledger
  BY Zenon DEF IndInv, TypeOK
<1>2. UNCHANGED <<started, started_count, supervisor_stop, admission, runtime_stop, health, sup, call, drained, decisions>>
  BY Zenon DEF Fail, cluster, OnlySup
<1>3. TypeCluster' /\ TypeHealth' /\ TypeSup' /\ TypeCall' /\ Drains'
  BY <1>1, <1>2, Zenon DEF TypeCluster, TypeHealth, TypeSup, TypeCall, Drains
<1>4. client' = [client EXCEPT ![i] = [client[i] EXCEPT !.last_status = "error", !.running = FALSE]]
  BY Zenon DEF Fail
<1>5. /\ TypeClient' /\ \A j \in Shards : j # i => client'[j] = client[j]
      /\ (client'[i].started <=> client[i].started) /\ (client'[i].stopping <=> client[i].stopping)
      /\ (client'[i].stop_requested <=> client[i].stop_requested) /\ ~client'[i].running
      /\ (client'[i].completed <=> client[i].completed) /\ client'[i].last_status = "error"
  BY <1>1, <1>4, WriteReturn, Zenon
<1>6. /\ TypeTask' /\ task'[i][k] = "error" /\ \A n \in Slots : n # k => task'[i][n] = task[i][n]
      /\ \A j \in Shards : j # i => task'[j] = task[j]
  BY <1>1, TaskMoved, Zenon DEF Fail
<1>7. Causes'
  <2>1. ASSUME i \notin drained, NEW n \in Slots, task'[i][n] = "ok" PROVE client'[i].stopping
    <3>1. n # k /\ task[i][n] = "ok"
      BY <1>6, <2>1, Zenon
    <3> QED
      BY <1>1, <1>2, <1>5, <2>1, <3>1, Zenon DEF Causes
  <2>2. i \notin drained => (client'[i].stop_requested => client'[i].stopping)
    BY <1>1, <1>2, <1>5, Zenon DEF Causes
  <2>3. \A j \in Shards : j # i => client'[j] = client[j] /\ task'[j] = task[j]
    BY <1>2, <1>5, <1>6, Zenon
  <2> QED
    BY <1>1, <1>2, <2>1, <2>2, <2>3, CausesAt, Zenon
<1>8. /\ TypeCounts' /\ failures'[i] = failures[i] + 1
      /\ \A j \in Shards : j # i => failures'[j] = failures[j]
  <2>1. failures[i] + 1 \in Nat
    BY <1>1 DEF TypeCounts
  <2>2. /\ failures' \in [Shards -> Nat] /\ failures'[i] = failures[i] + 1
        /\ \A j \in Shards : j # i => failures'[j] = failures[j]
    BY <1>1, <2>1, Zenon DEF Fail, TypeCounts
  <2>3. env' \in Environment
    BY <1>1, FaultTyped, Zenon DEF Fail, TypeCounts
  <2> QED
    BY <1>1, <1>2, <2>2, <2>3, Zenon DEF TypeCounts
<1>9. Ledger'
  <2>1. k \notin Errored(i) /\ Errored(i)' = Errored(i) \cup {k}
    BY <1>6, Zenon DEF Errored, Fail
  <2>2. (Held(i)' => Held(i)) /\ (Published(i)' => Published(i))
    BY <1>2, <1>5, Zenon DEF Held, Published, Past, Busy
  <2>3. i \notin drained' => (decisions[i] + Unjudged(i))' <= failures[i]'
    BY <1>1, <1>2, <1>8, <2>1, <2>2, TaskFailed, Zenon DEF Ledger
  <2>4. \A j \in Shards : j # i => Steady(j)
    BY <1>2, <1>5, <1>6, <1>8, Untouched, Zenon
  <2> QED
    BY <1>1, <1>2, <2>3, <2>4, LedgerAt, Zenon
<1>10. Idle'
  <2>1. started
    BY <1>1, Zenon DEF Idle, Quiet, Fail, At
  <2> QED
    BY <1>2, <2>1, Zenon DEF Idle
<1> QED
  BY <1>3, <1>4, <1>5, <1>6, <1>7, <1>8, <1>9, <1>10, Zenon DEF IndInv, TypeOK

LEMMA CompleteKeeps ==
    ASSUME IndInv, CountLaws, NEW i \in Shards, NEW k \in Slots, Complete(i, k)
    PROVE  IndInv'
<1>1. /\ TypeCluster /\ TypeClient /\ TypeHealth /\ TypeTask /\ TypeSup /\ TypeCall
      /\ TypeCounts /\ Causes /\ Drains /\ Idle /\ Ledger
  BY Zenon DEF IndInv, TypeOK
<1>2. UNCHANGED <<started, started_count, supervisor_stop, admission, runtime_stop, health, sup, call, env, drained, failures, decisions>>
  BY Zenon DEF Complete, cluster, OnlySup
<1>3. TypeCluster' /\ TypeHealth' /\ TypeSup' /\ TypeCall' /\ TypeCounts' /\ Drains'
  BY <1>1, <1>2, Zenon DEF TypeCluster, TypeHealth, TypeSup, TypeCall, TypeCounts, Drains
<1>4. client' = [client EXCEPT ![i] = [client[i] EXCEPT !.completed = TRUE]]
  BY Zenon DEF Complete
<1>5. /\ TypeClient' /\ \A j \in Shards : j # i => client'[j] = client[j]
      /\ (client'[i].started <=> client[i].started) /\ (client'[i].stopping <=> client[i].stopping)
      /\ (client'[i].stop_requested <=> client[i].stop_requested) /\ (client'[i].running <=> client[i].running)
      /\ client'[i].completed /\ client'[i].last_status = client[i].last_status
  BY <1>1, <1>4, WriteCompleted, Zenon
<1>6. /\ TypeTask' /\ task'[i][k] \in {"log", "none"}
      /\ \A n \in Slots : n # k => task'[i][n] = task[i][n]
      /\ \A j \in Shards : j # i => task'[j] = task[j]
  <2>1. PICK pc \in {"none", "run", "ok", "error", "log", "stop"} :
           Move(i, k, pc) /\ pc \in {"log", "none"}
    BY Zenon DEF Complete
  <2>2. /\ TypeTask' /\ task'[i][k] = pc
        /\ \A n \in Slots : n # k => task'[i][n] = task[i][n]
        /\ \A j \in Shards : j # i => task'[j] = task[j]
    BY <1>1, <2>1, TaskMoved, ZenonT(40)
  <2> QED
    BY <2>1, <2>2, Zenon
<1>7. Causes'
  <2>1. ASSUME i \notin drained, NEW n \in Slots, task'[i][n] = "ok" PROVE client'[i].stopping
    <3>1. n # k /\ task[i][n] = "ok"
      BY <1>6, <2>1, Zenon
    <3> QED
      BY <1>1, <1>2, <1>5, <2>1, <3>1, Zenon DEF Causes
  <2>2. i \notin drained => (client'[i].stop_requested => client'[i].stopping)
    BY <1>1, <1>2, <1>5, Zenon DEF Causes
  <2>3. \A j \in Shards : j # i => client'[j] = client[j] /\ task'[j] = task[j]
    BY <1>2, <1>5, <1>6, Zenon
  <2> QED
    BY <1>1, <1>2, <2>1, <2>2, <2>3, CausesAt, Zenon
<1>8. Ledger'
  <2>1. CASE task[i][k] = "error"
    <3>1. k \in Errored(i) /\ Errored(i)' = Errored(i) \ {k}
      BY <1>6, <2>1, Zenon DEF Errored
    <3>2. Held(i)' => Held(i)
      BY <1>2, Zenon DEF Held
    <3>3. i \notin drained' => (decisions[i] + Unjudged(i))' <= failures[i]'
      BY <1>1, <1>2, <3>1, <3>2, FailureAnnounced, Zenon DEF Ledger
    <3>4. \A j \in Shards : j # i => Steady(j)
      BY <1>2, <1>5, <1>6, Untouched, Zenon
    <3> QED
      BY <1>1, <1>2, <3>3, <3>4, LedgerAt, Zenon
  <2>2. CASE task[i][k] = "ok"
    <3>1. Errored(i)' \subseteq Errored(i)
      BY <1>6, Zenon DEF Errored
    <3>2. i \notin drained => Steady(i)
      BY <1>1, <1>2, <1>5, <2>2, <3>1, FlagFades, Zenon DEF Causes
    <3>3. \A j \in Shards : j \notin drained' => Steady(j)
      BY <1>2, <1>5, <1>6, <3>2, Untouched, Zenon
    <3> QED
      BY <1>1, <1>2, <3>3, LedgerSteady, Zenon
  <2> QED
    BY <2>1, <2>2, Zenon DEF Complete
<1>9. Idle'
  <2>1. started
    BY <1>1, Zenon DEF Idle, Quiet, Complete, At
  <2> QED
    BY <1>2, <2>1, Zenon DEF Idle
<1> QED
  BY <1>3, <1>4, <1>5, <1>6, <1>7, <1>8, <1>9, Zenon DEF IndInv, TypeOK

LEMMA LogKeeps ==
    ASSUME IndInv, CountLaws, NEW i \in Shards, NEW k \in Slots, Log(i, k)
    PROVE  IndInv'
<1>1. /\ TypeCluster /\ TypeClient /\ TypeHealth /\ TypeTask /\ TypeSup /\ TypeCall
      /\ TypeCounts /\ Causes /\ Drains /\ Idle /\ Ledger
  BY Zenon DEF IndInv, TypeOK
<1>2. UNCHANGED <<started, started_count, supervisor_stop, admission, runtime_stop, client, sup, call, env, drained, failures, decisions>>
  BY Zenon DEF Log, cluster, OnlySup
<1>3. TypeCluster' /\ TypeClient' /\ TypeSup' /\ TypeCall' /\ TypeCounts' /\ Drains'
  BY <1>1, <1>2, Zenon DEF TypeCluster, TypeClient, TypeSup, TypeCall, TypeCounts, Drains
<1>4. TypeHealth'
  BY <1>1, Zenon DEF Log, Report, TypeHealth
<1>5. /\ TypeTask' /\ task'[i][k] \in {"stop", "none"}
      /\ \A n \in Slots : n # k => task'[i][n] = task[i][n]
      /\ \A j \in Shards : j # i => task'[j] = task[j]
  <2>1. PICK pc \in {"none", "run", "ok", "error", "log", "stop"} :
           Move(i, k, pc) /\ pc \in {"stop", "none"}
    BY Zenon DEF Log
  <2>2. /\ TypeTask' /\ task'[i][k] = pc
        /\ \A n \in Slots : n # k => task'[i][n] = task[i][n]
        /\ \A j \in Shards : j # i => task'[j] = task[j]
    BY <1>1, <2>1, TaskMoved, ZenonT(40)
  <2> QED
    BY <2>1, <2>2, Zenon
<1>6. Causes'
  <2>1. ASSUME i \notin drained, NEW n \in Slots, task'[i][n] = "ok" PROVE client'[i].stopping
    <3>1. n # k /\ task[i][n] = "ok"
      BY <1>5, <2>1, Zenon
    <3> QED
      BY <1>1, <1>2, <2>1, <3>1, Zenon DEF Causes
  <2>2. i \notin drained => (client'[i].stop_requested => client'[i].stopping)
    BY <1>1, <1>2, Zenon DEF Causes
  <2>3. \A j \in Shards : j # i => client'[j] = client[j] /\ task'[j] = task[j]
    BY <1>2, <1>5, Zenon
  <2> QED
    BY <1>1, <1>2, <2>1, <2>2, <2>3, CausesAt, Zenon
<1>7. Ledger'
  <2>1. Errored(i)' \subseteq Errored(i)
    BY <1>5, Zenon DEF Errored
  <2>2. Steady(i)
    BY <1>2, <2>1, FlagFades, Zenon
  <2>3. \A j \in Shards : Steady(j)
    BY <1>2, <1>5, <2>2, Untouched, Zenon
  <2> QED
    BY <1>1, <1>2, <2>3, LedgerSteady, Zenon
<1>8. Idle'
  <2>1. started
    BY <1>1, Zenon DEF Idle, Quiet, Log, At
  <2> QED
    BY <1>2, <2>1, Zenon DEF Idle
<1> QED
  BY <1>3, <1>4, <1>5, <1>6, <1>7, <1>8, Zenon DEF IndInv, TypeOK

LEMMA StopOnErrorKeeps ==
    ASSUME IndInv, CountLaws, NEW i \in Shards, NEW k \in Slots, StopOnError(i, k)
    PROVE  IndInv'
<1>1. /\ TypeCluster /\ TypeClient /\ TypeHealth /\ TypeTask /\ TypeSup /\ TypeCall
      /\ TypeCounts /\ Causes /\ Drains /\ Idle /\ Ledger
  BY Zenon DEF IndInv, TypeOK
<1>2. UNCHANGED <<started, started_count, supervisor_stop, admission, health, sup, call, env, drained, failures, decisions>>
  BY Zenon DEF StopOnError, cluster, OnlySup
<1>3. TypeHealth' /\ TypeSup' /\ TypeCall' /\ TypeCounts' /\ Drains'
  BY <1>1, <1>2, Zenon DEF TypeHealth, TypeSup, TypeCall, TypeCounts, Drains
<1>4. client' = [client EXCEPT ![i] = [client[i] EXCEPT !.stopping = TRUE, !.stop_requested = TRUE]]
  BY Zenon DEF StopOnError, ClientStop
<1>5. /\ TypeClient' /\ \A j \in Shards : j # i => client'[j] = client[j]
      /\ (client'[i].started <=> client[i].started) /\ client'[i].stopping
      /\ client'[i].stop_requested /\ (client'[i].running <=> client[i].running)
      /\ (client'[i].completed <=> client[i].completed) /\ client'[i].last_status = client[i].last_status
  BY <1>1, <1>4, WriteStop, Zenon
<1>6. /\ TypeTask' /\ task'[i][k] = "none" /\ \A n \in Slots : n # k => task'[i][n] = task[i][n]
      /\ \A j \in Shards : j # i => task'[j] = task[j]
  BY <1>1, TaskMoved, Zenon DEF StopOnError
<1>7. TypeCluster'
  BY <1>1, <1>2, Zenon DEF TypeCluster, StopOnError, ClientStop
<1>8. Causes'
  <2>1. ASSUME i \notin drained, NEW n \in Slots, task'[i][n] = "ok" PROVE client'[i].stopping
    <3>1. n # k /\ task[i][n] = "ok"
      BY <1>6, <2>1, Zenon
    <3> QED
      BY <1>1, <1>2, <1>5, <2>1, <3>1, Zenon DEF Causes
  <2>2. i \notin drained => (client'[i].stop_requested => client'[i].stopping)
    BY <1>1, <1>2, <1>5, Zenon DEF Causes
  <2>3. \A j \in Shards : j # i => client'[j] = client[j] /\ task'[j] = task[j]
    BY <1>2, <1>5, <1>6, Zenon
  <2> QED
    BY <1>1, <1>2, <2>1, <2>2, <2>3, CausesAt, Zenon
<1>9. Ledger'
  <2>1. Errored(i)' \subseteq Errored(i)
    BY <1>6, Zenon DEF Errored
  <2>2. Steady(i)
    BY <1>2, <1>5, <2>1, FlagFades, Zenon
  <2>3. \A j \in Shards : Steady(j)
    BY <1>2, <1>5, <1>6, <2>2, Untouched, Zenon
  <2> QED
    BY <1>1, <1>2, <2>3, LedgerSteady, Zenon
<1>10. Idle'
  <2>1. started
    BY <1>1, Zenon DEF Idle, Quiet, StopOnError, At
  <2> QED
    BY <1>2, <2>1, Zenon DEF Idle
<1> QED
  BY <1>3, <1>4, <1>5, <1>6, <1>7, <1>8, <1>9, <1>10, Zenon DEF IndInv, TypeOK

-----------------------------------------------------------------------------
(* The steps of the supervisor. *)

(* The supervisor is at one shard, or between two passes. *)
LEMMA SupAt ==
    ASSUME TypeSup
    PROVE  /\ sup = [pc |-> sup.pc, i |-> sup.i]
           /\ sup.pc \in SupStages => sup.i \in Shards
           /\ sup.pc \in {"off", "pause"} => sup.i = 0
           /\ sup.pc \in SupStages \cup {"off", "pause"}
BY SMTT(30) DEF TypeSup, SupStages

LEMMA SupGoes ==
    ASSUME TypeSup, sup.pc \in SupStages, NEW pc \in SupStages, Goto(pc)
    PROVE  TypeSup' /\ sup'.pc = pc /\ sup'.i = sup.i
<1>1. sup = [pc |-> sup.pc, i |-> sup.i] /\ sup.i \in Shards
  BY SupAt, Zenon
<1>2. sup' = [pc |-> pc, i |-> sup.i]
  BY <1>1, Zenon DEF Goto
<1> QED
  BY <1>1, <1>2, Zenon DEF TypeSup

LEMMA SupOnward ==
    ASSUME TypeSup, sup.pc \in SupStages, Onward
    PROVE  /\ TypeSup'
           /\ \/ sup'.pc = "scan" /\ sup'.i = sup.i + 1
              \/ sup'.pc = "pause" /\ sup'.i = 0
<1>1. sup.i \in Shards
  BY SupAt, Zenon
<1>2. CASE sup.i < ShardCount
  <2>1. sup' = [pc |-> "scan", i |-> sup.i + 1]
    BY <1>2, Zenon DEF Onward
  <2>2. sup.i + 1 \in Shards
    BY <1>1, <1>2, ClusterAssumption DEF Shards
  <2> QED
    BY <2>1, <2>2, Zenon DEF TypeSup, SupStages
<1>3. CASE ~(sup.i < ShardCount)
  <2>1. sup' = [pc |-> "pause", i |-> 0]
    BY <1>3, Zenon DEF Onward
  <2> QED
    BY <2>1, Zenon DEF TypeSup
<1> QED
  BY <1>2, <1>3, Zenon

(* When it goes on, it holds nothing, and a shard it left does not come    *)
(* back into its pass.                                                     *)
LEMMA OnwardHolds ==
    ASSUME TypeSup, sup.pc \in SupStages, Onward, supervisor_stop' = supervisor_stop, NEW i \in Shards
    PROVE  ~Held(i)' /\ ~Busy(i)' /\ (Past(i) => Past(i)') /\ (sup.i = i /\ supervisor_stop => Past(i)')
<1>1. \/ sup'.pc = "scan" /\ sup'.i = sup.i + 1
      \/ sup'.pc = "pause" /\ sup'.i = 0
  BY SupOnward, Zenon
<1>2. sup.i \in Nat /\ i \in Nat /\ sup.pc # "off" /\ sup.pc # "pause"
  BY SupAt, ClusterAssumption DEF Shards, SupStages
<1>3. ~Held(i)' /\ ~Busy(i)'
  BY <1>1, Zenon DEF Held, Busy
<1>4. CASE sup'.pc = "scan" /\ sup'.i = sup.i + 1
  BY <1>2, <1>3, <1>4 DEF Past
<1>5. CASE sup'.pc = "pause"
  BY <1>2, <1>3, <1>5, Zenon DEF Past
<1> QED
  BY <1>1, <1>4, <1>5, Zenon

(* It goes on without leaving a flag it has spent.                         *)
LEMMA OnwardSteady ==
    ASSUME TypeSup, sup.pc \in SupStages, Onward, supervisor_stop' = supervisor_stop, NEW i \in Shards,
           task'[i] = task[i], failures'[i] = failures[i], decisions'[i] = decisions[i],
           \/ client'[i] = client[i] /\ (Busy(i) => supervisor_stop \/ client[i].stopping)
           \/ sup.i = i /\ ~client'[i].completed
    PROVE  Steady(i)
<1>1. Errored(i)' \subseteq Errored(i)
  BY Zenon DEF Errored
<1>2. ~Held(i)' /\ ~Busy(i)' /\ (Past(i) => Past(i)') /\ (sup.i = i /\ supervisor_stop => Past(i)')
  BY OnwardHolds, Zenon
<1>3. Published(i)' => Published(i)
  <2>1. CASE client'[i] = client[i] /\ (Busy(i) => supervisor_stop \/ client[i].stopping)
    BY <1>2, <2>1, Zenon DEF Published, Busy
  <2>2. CASE sup.i = i /\ ~client'[i].completed
    BY <2>2, Zenon DEF Published
  <2> QED
    BY <2>1, <2>2, Zenon
<1> QED
  BY <1>1, <1>2, <1>3, Zenon DEF Steady

(* A shard the supervisor is not at, while it stays where it is.           *)
LEMMA Elsewhere ==
    ASSUME TypeSup, sup.pc \in SupStages, NEW pc \in SupStages, Goto(pc),
           supervisor_stop' = supervisor_stop, NEW i \in Shards, i # sup.i,
           client'[i] = client[i], task'[i] = task[i],
           failures'[i] = failures[i], decisions'[i] = decisions[i]
    PROVE  Steady(i)
<1>1. sup'.pc = pc /\ sup'.i = sup.i
  BY SupGoes, Zenon
<1>2. sup.pc # "off" /\ sup'.pc # "off" /\ sup.pc # "pause" /\ sup'.pc # "pause"
  BY <1>1, Zenon DEF SupStages
<1>3. Errored(i)' \subseteq Errored(i)
  BY Zenon DEF Errored
<1>4. ~Held(i)' /\ ~Busy(i)' /\ ~Busy(i) /\ (Past(i) => Past(i)')
  BY <1>1, <1>2, Zenon DEF Held, Busy, Past
<1> QED
  BY <1>3, <1>4, Zenon DEF Steady, Published

LEMMA PauseKeeps ==
    ASSUME IndInv, CountLaws, Pause
    PROVE  IndInv'
<1>1. /\ TypeCluster /\ TypeClient /\ TypeHealth /\ TypeTask /\ TypeSup /\ TypeCall
      /\ TypeCounts /\ Causes /\ Drains /\ Idle /\ Ledger
  BY Zenon DEF IndInv, TypeOK
<1>2. UNCHANGED <<started, started_count, supervisor_stop, admission, runtime_stop, client, health, task, call, env, drained, failures, decisions>>
  BY Zenon DEF Pause, cluster, OnlySup
<1>3. TypeCluster' /\ TypeClient' /\ TypeHealth' /\ TypeTask' /\ TypeCall' /\ TypeCounts' /\ Causes' /\ Drains'
  BY <1>1, <1>2, Zenon DEF TypeCluster, TypeClient, TypeHealth, TypeTask, TypeCall, TypeCounts, Causes, Drains
<1>4. /\ TypeSup'
      /\ \/ supervisor_stop /\ sup'.pc = "off"
         \/ ~supervisor_stop /\ sup'.pc = "scan" /\ sup'.i = 1
  <2>1. 1 \in Shards
    BY ClusterAssumption DEF Shards
  <2>2. CASE supervisor_stop
    BY <2>2, Zenon DEF Pause, TypeSup
  <2>3. CASE ~supervisor_stop
    BY <2>1, <2>3, Zenon DEF Pause, TypeSup, SupStages
  <2> QED
    BY <2>2, <2>3, Zenon
<1>5. Idle'
  <2>1. started
    BY <1>1, Zenon DEF Idle, Quiet, Pause
  <2> QED
    BY <1>2, <2>1, Zenon DEF Idle
<1>6. Ledger'
  <2>1. sup.pc = "pause"
    BY Zenon DEF Pause
  <2>2. ASSUME NEW i \in Shards PROVE Steady(i)
    <3>1. Errored(i)' \subseteq Errored(i)
      BY <1>2, Zenon DEF Errored
    <3>2. CASE supervisor_stop /\ sup'.pc = "off"
      BY <1>2, <3>1, <3>2, Zenon DEF Steady, Held, Published, Past
    <3>3. CASE ~supervisor_stop /\ sup'.pc = "scan" /\ sup'.i = 1
      BY <1>2, <2>1, <3>1, <3>3, Zenon DEF Steady, Held, Published, Past, Busy
    <3> QED
      BY <1>4, <3>2, <3>3, Zenon
  <2> QED
    BY <1>1, <1>2, <2>2, LedgerSteady, Zenon
<1> QED
  BY <1>3, <1>4, <1>5, <1>6, Zenon DEF IndInv, TypeOK

LEMMA ScanKeeps ==
    ASSUME IndInv, CountLaws, Scan
    PROVE  IndInv'
<1>1. /\ TypeCluster /\ TypeClient /\ TypeHealth /\ TypeTask /\ TypeSup /\ TypeCall
      /\ TypeCounts /\ Causes /\ Drains /\ Idle /\ Ledger
  BY Zenon DEF IndInv, TypeOK
<1>2. UNCHANGED <<started, started_count, supervisor_stop, admission, runtime_stop, client, health, task, call, env, drained, failures, decisions>>
  BY Zenon DEF Scan, cluster, OnlySup
<1>3. TypeCluster' /\ TypeClient' /\ TypeHealth' /\ TypeTask' /\ TypeCall' /\ TypeCounts' /\ Causes' /\ Drains'
  BY <1>1, <1>2, Zenon DEF TypeCluster, TypeClient, TypeHealth, TypeTask, TypeCall, TypeCounts, Causes, Drains
<1>4. sup.pc = "scan" /\ sup.pc \in SupStages /\ sup.i \in Shards
  BY <1>1, SupAt, Zenon DEF Scan, SupStages
<1>5. Idle'
  <2>1. started
    BY <1>1, Zenon DEF Idle, Quiet, Scan
  <2> QED
    BY <1>2, <2>1, Zenon DEF Idle
<1>6. TypeSup' /\ Ledger'
  <2>1. CASE Onward
    <3>1. ASSUME NEW i \in Shards PROVE Steady(i)
      <4>1. ~Busy(i)
        BY <1>4, Zenon DEF Busy
      <4> QED
        BY <1>1, <1>2, <1>4, <2>1, <4>1, OnwardSteady, Zenon
    <3> QED
      BY <1>1, <1>2, <1>4, <2>1, <3>1, LedgerSteady, SupOnward, Zenon
  <2>2. CASE /\ Goto("judge") /\ client[sup.i].completed
             /\ ~client[sup.i].stopping /\ ~client[sup.i].running
    <3>1. PICK i \in Shards : i = sup.i
      BY <1>4, Zenon
    <3>2. TypeSup' /\ sup'.pc = "judge" /\ sup'.i = i
      BY <1>1, <1>4, <2>2, <3>1, SupGoes, Zenon DEF SupStages
    <3>3. Errored(i)' = Errored(i)
      BY <1>2, Zenon DEF Errored
    <3>4. ~Held(i) /\ Published(i) /\ ~Published(i)'
      <4>1. ~Held(i) /\ ~Busy(i) /\ Busy(i)'
        BY <1>4, <3>1, <3>2, Zenon DEF Held, Busy
      <4>2. ~(i > i)
        BY <3>1 DEF Shards
      <4>3. ~Past(i)
        BY <1>4, <3>1, <4>2, Zenon DEF Past
      <4> QED
        BY <1>2, <2>2, <3>1, <4>1, <4>3, Zenon DEF Published
    <3>5. i \notin drained' => (decisions[i] + Unjudged(i))' <= failures[i]'
      BY <1>1, <1>2, <3>3, <3>4, FlagTaken, Zenon DEF Ledger
    <3>6. \A j \in Shards : j # i => Steady(j)
      BY <1>1, <1>2, <1>4, <2>2, <3>1, Elsewhere, Zenon DEF SupStages
    <3> QED
      BY <1>1, <1>2, <3>2, <3>5, <3>6, LedgerAt, Zenon
  <2> QED
    BY <2>1, <2>2, Zenon DEF Scan
<1> QED
  BY <1>3, <1>4, <1>5, <1>6, Zenon DEF IndInv, TypeOK

LEMMA JudgeKeeps ==
    ASSUME IndInv, CountLaws, Judge
    PROVE  IndInv'
<1>1. /\ TypeCluster /\ TypeClient /\ TypeHealth /\ TypeTask /\ TypeSup /\ TypeCall
      /\ TypeCounts /\ Causes /\ Drains /\ Idle /\ Ledger
  BY Zenon DEF IndInv, TypeOK
<1>2. UNCHANGED <<started, started_count, supervisor_stop, admission, runtime_stop, client, health, task, call, env, drained, failures, decisions>>
  BY Zenon DEF Judge, cluster, OnlySup
<1>3. TypeCluster' /\ TypeClient' /\ TypeHealth' /\ TypeTask' /\ TypeCall' /\ TypeCounts' /\ Causes' /\ Drains'
  BY <1>1, <1>2, Zenon DEF TypeCluster, TypeClient, TypeHealth, TypeTask, TypeCall, TypeCounts, Causes, Drains
<1>4. sup.pc = "judge" /\ sup.pc \in SupStages /\ sup.i \in Shards
  BY <1>1, SupAt, Zenon DEF Judge, SupStages
<1>5. Idle'
  <2>1. started
    BY <1>1, Zenon DEF Idle, Quiet, Judge
  <2> QED
    BY <1>2, <2>1, Zenon DEF Idle
<1>6. TypeSup' /\ Ledger'
  <2>1. PICK i \in Shards : i = sup.i
    BY <1>4, Zenon
  <2>2. Errored(i)' = Errored(i)
    BY <1>2, Zenon DEF Errored
  <2>3. CASE Goto("decide")
    <3>1. TypeSup' /\ sup'.pc = "decide" /\ sup'.i = i
      BY <1>1, <1>4, <2>1, <2>3, SupGoes, Zenon DEF SupStages
    <3>2. Steady(i)
      BY <1>2, <1>4, <2>1, <2>2, <3>1, Zenon DEF Steady, Held, Published, Busy, Past
    <3>3. \A j \in Shards : Steady(j)
      BY <1>1, <1>2, <1>4, <2>1, <2>3, <3>2, Elsewhere, Zenon DEF SupStages
    <3> QED
      BY <1>1, <1>2, <3>1, <3>3, LedgerSteady, Zenon
  <2>4. CASE Goto("forget")
    <3>1. TypeSup' /\ sup'.pc = "forget" /\ sup'.i = i
      BY <1>1, <1>4, <2>1, <2>4, SupGoes, Zenon DEF SupStages
    <3>2. Held(i) /\ ~Held(i)' /\ Busy(i) /\ ~Busy(i)' /\ (Past(i) => Past(i)')
      BY <1>2, <1>4, <2>1, <3>1, Zenon DEF Held, Busy, Past
    <3>3. CASE Published(i)
      <4>1. Published(i)' => Published(i)
        BY <3>3, Zenon
      <4>2. Steady(i)
        BY <1>2, <2>2, <3>2, <4>1, Zenon DEF Steady
      <4>3. \A j \in Shards : Steady(j)
        BY <1>1, <1>2, <1>4, <2>1, <2>4, <4>2, Elsewhere, Zenon DEF SupStages
      <4> QED
        BY <1>1, <1>2, <3>1, <4>3, LedgerSteady, Zenon
    <3>4. CASE ~Published(i)
      <4>1. i \notin drained' => (decisions[i] + Unjudged(i))' <= failures[i]'
        BY <1>1, <1>2, <2>2, <3>2, <3>4, FlagTaken, Zenon DEF Ledger
      <4>2. \A j \in Shards : j # i => Steady(j)
        BY <1>1, <1>2, <1>4, <2>1, <2>4, Elsewhere, Zenon DEF SupStages
      <4> QED
        BY <1>1, <1>2, <3>1, <4>1, <4>2, LedgerAt, Zenon
    <3> QED
      BY <3>3, <3>4, Zenon
  <2> QED
    BY <2>3, <2>4, Zenon DEF Judge
<1> QED
  BY <1>3, <1>4, <1>5, <1>6, Zenon DEF IndInv, TypeOK

LEMMA ForgetKeeps ==
    ASSUME IndInv, CountLaws, Forget
    PROVE  IndInv'
<1>1. /\ TypeCluster /\ TypeClient /\ TypeHealth /\ TypeTask /\ TypeSup /\ TypeCall
      /\ TypeCounts /\ Causes /\ Drains /\ Idle /\ Ledger
  BY Zenon DEF IndInv, TypeOK
<1>2. UNCHANGED <<started, started_count, supervisor_stop, admission, runtime_stop, health, task, call, env, drained, failures, decisions>>
  BY Zenon DEF Forget, cluster, OnlySup
<1>3. TypeCluster' /\ TypeHealth' /\ TypeTask' /\ TypeCall' /\ TypeCounts' /\ Drains'
  BY <1>1, <1>2, Zenon DEF TypeCluster, TypeHealth, TypeTask, TypeCall, TypeCounts, Drains
<1>4. sup.pc = "forget" /\ sup.pc \in SupStages /\ sup.i \in Shards
  BY <1>1, SupAt, Zenon DEF Forget, SupStages
<1>5. TypeSup' /\ Onward
  BY <1>1, <1>4, SupOnward, Zenon DEF Forget
<1>6. client' = [client EXCEPT ![sup.i] = [client[sup.i] EXCEPT !.completed = FALSE]]
  BY Zenon DEF Forget
<1>7. /\ TypeClient' /\ \A j \in Shards : j # sup.i => client'[j] = client[j]
      /\ ~client'[sup.i].completed
      /\ (client'[sup.i].stopping <=> client[sup.i].stopping)
      /\ (client'[sup.i].stop_requested <=> client[sup.i].stop_requested)
  BY <1>1, <1>4, <1>6, WriteCompleted, Zenon
<1>8. Causes'
  BY <1>1, <1>2, <1>4, <1>7, CausesAt, Zenon DEF Causes
<1>9. Idle'
  <2>1. started
    BY <1>1, Zenon DEF Idle, Quiet, Forget
  <2> QED
    BY <1>2, <2>1, Zenon DEF Idle
<1>10. Ledger'
  <2>1. ASSUME NEW i \in Shards PROVE Steady(i)
    <3>1. ~Busy(i)
      BY <1>4, Zenon DEF Busy
    <3> QED
      BY <1>1, <1>2, <1>4, <1>5, <1>7, <3>1, OnwardSteady, Zenon
  <2> QED
    BY <1>1, <1>2, <2>1, LedgerSteady, Zenon
<1> QED
  BY <1>3, <1>4, <1>5, <1>6, <1>7, <1>8, <1>9, <1>10, Zenon DEF IndInv, TypeOK

(* The health of a shard is written: a status, the budget, the mark.       *)
LEMMA HealthWritten ==
    ASSUME TypeHealth, NEW i \in Shards,
           NEW s \in {"CREATED", "STARTING", "READY", "STOPPING", "STOPPED", "ERROR"}
    PROVE  /\ [health EXCEPT ![i].status = s] \in [Shards -> HealthRecord]
           /\ \A b \in BOOLEAN : [health EXCEPT ![i].status = s, ![i].suppressed = @ \/ b]
                                    \in [Shards -> HealthRecord]
           /\ [health EXCEPT ![i].status = s, ![i].budget = @ + 1] \in [Shards -> HealthRecord]
<1>1. health \in [Shards -> HealthRecord]
  BY Zenon DEF TypeHealth, HealthRecord
<1>2. health[i].budget + 1 \in Nat
  BY <1>1 DEF HealthRecord
<1>3. [health EXCEPT ![i].status = s] \in [Shards -> HealthRecord]
  BY <1>1, Zenon DEF HealthRecord
<1>4. ASSUME NEW b \in BOOLEAN
      PROVE  [health EXCEPT ![i].status = s, ![i].suppressed = @ \/ b] \in [Shards -> HealthRecord]
  BY <1>1, Zenon DEF HealthRecord
<1>5. [health EXCEPT ![i].status = s, ![i].budget = @ + 1] \in [Shards -> HealthRecord]
  BY <1>1, <1>2, Zenon DEF HealthRecord
<1> QED
  BY <1>3, <1>4, <1>5, Zenon

LEMMA DecideKeeps ==
    ASSUME IndInv, CountLaws, NEW d \in Decisions, Decide(d)
    PROVE  IndInv'
<1>1. /\ TypeCluster /\ TypeClient /\ TypeHealth /\ TypeTask /\ TypeSup /\ TypeCall
      /\ TypeCounts /\ Causes /\ Drains /\ Idle /\ Ledger
  BY Zenon DEF IndInv, TypeOK
<1>2. UNCHANGED <<started, started_count, supervisor_stop, admission, runtime_stop, task, call, env, drained, failures>>
  BY Zenon DEF Decide, cluster, OnlySup
<1>3. TypeCluster' /\ TypeTask' /\ TypeCall' /\ Drains'
  BY <1>1, <1>2, Zenon DEF TypeCluster, TypeTask, TypeCall, Drains
<1>4. sup.pc = "decide" /\ sup.pc \in SupStages /\ sup.i \in Shards
  BY <1>1, SupAt, Zenon DEF Decide, SupStages
<1>5. PICK i \in Shards : i = sup.i
  BY <1>4, Zenon
<1>6. /\ TypeCounts' /\ decisions'[i] = decisions[i] + 1
      /\ \A j \in Shards : j # i => decisions'[j] = decisions[j]
  <2>1. decisions[i] + 1 \in Nat
    BY <1>1 DEF TypeCounts
  <2>2. decisions' = [decisions EXCEPT ![i] = @ + 1]
    BY <1>5, Zenon DEF Decide
  <2> QED
    BY <1>1, <1>2, <2>1, <2>2, Zenon DEF TypeCounts
<1>7. Schedule(i) \/ \E b \in BOOLEAN : Suppress(i, b)
  <2>1. (d # "error") \in BOOLEAN
    OBVIOUS
  <2> QED
    BY <1>5, <2>1, Zenon DEF Decide
<1>8. Idle'
  <2>1. started
    BY <1>1, Zenon DEF Idle, Quiet, Decide
  <2> QED
    BY <1>2, <2>1, Zenon DEF Idle
<1>9. Held(i) /\ Errored(i)' = Errored(i)
  BY <1>2, <1>4, <1>5, Zenon DEF Held, Errored
<1>10. ASSUME NEW b \in BOOLEAN, Suppress(i, b)
      PROVE  TypeClient' /\ TypeHealth' /\ TypeSup' /\ Causes' /\ Ledger'
  <2>1. client' = [client EXCEPT ![i] = [client[i] EXCEPT !.completed = FALSE]]
    BY <1>10, Zenon DEF Suppress
  <2>2. /\ TypeClient' /\ \A j \in Shards : j # i => client'[j] = client[j]
        /\ ~client'[i].completed /\ (client'[i].stopping <=> client[i].stopping)
        /\ (client'[i].stop_requested <=> client[i].stop_requested)
    BY <1>1, <2>1, WriteCompleted, Zenon
  <2>3. TypeHealth'
    BY <1>1, <1>10, HealthWritten, Zenon DEF Suppress, TypeHealth, HealthRecord
  <2>4. Onward /\ TypeSup'
    BY <1>1, <1>4, <1>10, SupOnward, Zenon DEF Suppress
  <2>5. Causes'
    BY <1>1, <1>2, <2>2, CausesAt, Zenon DEF Causes
  <2>6. ~Held(i)' /\ (Published(i)' => Published(i))
    BY <1>1, <1>2, <1>4, <2>2, <2>4, OnwardHolds, Zenon DEF Published
  <2>7. i \notin drained' => (decisions[i] + Unjudged(i))' <= failures[i]'
    BY <1>1, <1>2, <1>6, <1>9, <2>6, HeldIsJudged, Zenon DEF Ledger
  <2>8. ASSUME NEW j \in Shards, j # i PROVE Steady(j)
    <3>1. ~Busy(j)
      BY <1>5, <2>8, Zenon DEF Busy
    <3> QED
      BY <1>1, <1>2, <1>4, <1>6, <2>2, <2>4, <2>8, <3>1, OnwardSteady, Zenon
  <2> QED
    BY <1>1, <1>2, <2>2, <2>3, <2>4, <2>5, <2>7, <2>8, LedgerAt, Zenon
<1>11. ASSUME Schedule(i)
      PROVE  TypeClient' /\ TypeHealth' /\ TypeSup' /\ Causes' /\ Ledger'
  <2>1. UNCHANGED client /\ Goto("delay")
    BY <1>11, Zenon DEF Schedule
  <2>2. TypeHealth'
    BY <1>1, <1>11, HealthWritten, Zenon DEF Schedule, TypeHealth, HealthRecord
  <2>3. TypeSup' /\ sup'.pc = "delay" /\ sup'.i = i
    BY <1>1, <1>4, <1>5, <2>1, SupGoes, Zenon DEF SupStages
  <2>4. TypeClient' /\ Causes'
    BY <1>1, <1>2, <2>1, Zenon DEF TypeClient, Causes
  <2>5. ~Held(i)' /\ (Published(i)' => Published(i))
    BY <1>2, <1>4, <1>5, <2>1, <2>3, Zenon DEF Held, Published, Busy, Past
  <2>6. i \notin drained' => (decisions[i] + Unjudged(i))' <= failures[i]'
    BY <1>1, <1>2, <1>6, <1>9, <2>5, HeldIsJudged, Zenon DEF Ledger
  <2>7. \A j \in Shards : j # i => Steady(j)
    BY <1>1, <1>2, <1>4, <1>5, <1>6, <2>1, Elsewhere, Zenon DEF SupStages
  <2> QED
    BY <1>1, <1>2, <2>2, <2>3, <2>4, <2>6, <2>7, LedgerAt, Zenon
<1>12. TypeClient' /\ TypeHealth' /\ TypeSup' /\ Causes' /\ Ledger'
  BY <1>7, <1>10, <1>11, Zenon
<1> QED
  BY <1>3, <1>4, <1>5, <1>6, <1>7, <1>8, <1>9, <1>10, <1>11, <1>12, Zenon DEF IndInv, TypeOK

LEMMA DelayKeeps ==
    ASSUME IndInv, CountLaws, Delay
    PROVE  IndInv'
<1>1. /\ TypeCluster /\ TypeClient /\ TypeHealth /\ TypeTask /\ TypeSup /\ TypeCall
      /\ TypeCounts /\ Causes /\ Drains /\ Idle /\ Ledger
  BY Zenon DEF IndInv, TypeOK
<1>2. UNCHANGED <<started, started_count, supervisor_stop, admission, runtime_stop, client, health, task, call, env, drained, failures, decisions>>
  BY Zenon DEF Delay, cluster, OnlySup
<1>3. TypeCluster' /\ TypeClient' /\ TypeHealth' /\ TypeTask' /\ TypeCall' /\ TypeCounts' /\ Causes' /\ Drains'
  BY <1>1, <1>2, Zenon DEF TypeCluster, TypeClient, TypeHealth, TypeTask, TypeCall, TypeCounts, Causes, Drains
<1>4. sup.pc = "delay" /\ sup.pc \in SupStages /\ sup.i \in Shards
  BY <1>1, SupAt, Zenon DEF Delay, SupStages
<1>5. Idle'
  <2>1. started
    BY <1>1, Zenon DEF Idle, Quiet, Delay
  <2> QED
    BY <1>2, <2>1, Zenon DEF Idle
<1>6. TypeSup' /\ Ledger'
  <2>1. CASE Onward /\ (supervisor_stop \/ client[sup.i].stopping)
    <3>1. ASSUME NEW i \in Shards PROVE Steady(i)
      <4>1. Busy(i) => supervisor_stop \/ client[i].stopping
        BY <2>1, Zenon DEF Busy
      <4> QED
        BY <1>1, <1>2, <1>4, <2>1, <4>1, OnwardSteady, Zenon
    <3> QED
      BY <1>1, <1>2, <1>4, <2>1, <3>1, LedgerSteady, SupOnward, Zenon
  <2>2. CASE Goto("check")
    <3>1. PICK i \in Shards : i = sup.i
      BY <1>4, Zenon
    <3>2. TypeSup' /\ sup'.pc = "check" /\ sup'.i = i
      BY <1>1, <1>4, <2>2, <3>1, SupGoes, Zenon DEF SupStages
    <3>3. Errored(i)' \subseteq Errored(i)
      BY <1>2, Zenon DEF Errored
    <3>4. Steady(i)
      BY <1>2, <1>4, <3>1, <3>2, <3>3, Zenon DEF Steady, Held, Published, Busy, Past
    <3>5. \A j \in Shards : Steady(j)
      BY <1>1, <1>2, <1>4, <2>2, <3>1, <3>4, Elsewhere, Zenon DEF SupStages
    <3> QED
      BY <1>1, <1>2, <3>2, <3>5, LedgerSteady, Zenon
  <2> QED
    BY <2>1, <2>2, Zenon DEF Delay
<1> QED
  BY <1>3, <1>4, <1>5, <1>6, Zenon DEF IndInv, TypeOK

LEMMA SupCheckKeeps ==
    ASSUME IndInv, CountLaws, SupCheck
    PROVE  IndInv'
<1>1. /\ TypeCluster /\ TypeClient /\ TypeHealth /\ TypeTask /\ TypeSup /\ TypeCall
      /\ TypeCounts /\ Causes /\ Drains /\ Idle /\ Ledger
  BY Zenon DEF IndInv, TypeOK
<1>2. UNCHANGED <<started, started_count, supervisor_stop, admission, runtime_stop, client, health, task, call, env, drained, failures, decisions>>
  BY Zenon DEF SupCheck, cluster, OnlySup
<1>3. TypeCluster' /\ TypeClient' /\ TypeHealth' /\ TypeTask' /\ TypeCall' /\ TypeCounts' /\ Causes' /\ Drains'
  BY <1>1, <1>2, Zenon DEF TypeCluster, TypeClient, TypeHealth, TypeTask, TypeCall, TypeCounts, Causes, Drains
<1>4. sup.pc = "check" /\ sup.pc \in SupStages /\ sup.i \in Shards
  BY <1>1, SupAt, Zenon DEF SupCheck, SupStages
<1>5. Idle'
  <2>1. started
    BY <1>1, Zenon DEF Idle, Quiet, SupCheck
  <2> QED
    BY <1>2, <2>1, Zenon DEF Idle
<1>6. TypeSup' /\ Ledger'
  <2>1. PICK i \in Shards : i = sup.i
    BY <1>4, Zenon
  <2>2. PICK pc \in SupStages :
           Goto(pc) /\ (pc = "spawn" \/ (pc = "refused" /\ client[i].running))
    BY <2>1, Zenon DEF SupCheck, SupStages
  <2>3. TypeSup' /\ sup'.pc = pc /\ sup'.i = i
    BY <1>1, <1>4, <2>1, <2>2, SupGoes, Zenon
  <2>4. Errored(i)' \subseteq Errored(i)
    BY <1>2, Zenon DEF Errored
  <2>5. Steady(i)
    <3>1. CASE pc = "spawn"
      BY <1>2, <1>4, <2>1, <2>3, <2>4, <3>1, Zenon DEF Steady, Held, Published, Busy, Past
    <3>2. CASE pc = "refused" /\ client[i].running
      BY <1>2, <1>4, <2>1, <2>3, <2>4, <3>2, Zenon DEF Steady, Held, Published, Busy, Past
    <3> QED
      BY <2>2, <3>1, <3>2, Zenon
  <2>6. \A j \in Shards : Steady(j)
    BY <1>1, <1>2, <1>4, <2>1, <2>2, <2>5, Elsewhere, Zenon
  <2> QED
    BY <1>1, <1>2, <2>3, <2>6, LedgerSteady, Zenon
<1> QED
  BY <1>3, <1>4, <1>5, <1>6, Zenon DEF IndInv, TypeOK

LEMMA SupStatusKeeps ==
    ASSUME IndInv, CountLaws, SupStatus
    PROVE  IndInv'
<1>1. /\ TypeCluster /\ TypeClient /\ TypeHealth /\ TypeTask /\ TypeSup /\ TypeCall
      /\ TypeCounts /\ Causes /\ Drains /\ Idle /\ Ledger
  BY Zenon DEF IndInv, TypeOK
<1>2. UNCHANGED <<started, started_count, supervisor_stop, admission, runtime_stop, health, task, call, env, drained, failures, decisions>>
  BY Zenon DEF SupStatus, cluster, OnlySup
<1>3. TypeCluster' /\ TypeHealth' /\ TypeTask' /\ TypeCall' /\ TypeCounts' /\ Drains'
  BY <1>1, <1>2, Zenon DEF TypeCluster, TypeHealth, TypeTask, TypeCall, TypeCounts, Drains
<1>4. sup.pc = "unspawned" /\ sup.pc \in SupStages /\ sup.i \in Shards
  BY <1>1, SupAt, Zenon DEF SupStatus, SupStages
<1>5. PICK i \in Shards : i = sup.i
  BY <1>4, Zenon
<1>6. TypeSup' /\ Goto("refused") /\ sup'.pc = "refused" /\ sup'.i = i
  BY <1>1, <1>4, <1>5, SupGoes, Zenon DEF SupStatus, SupStages
<1>7. client' = [client EXCEPT ![i] = [client[i] EXCEPT !.last_status = "error"]]
  BY <1>5, Zenon DEF SupStatus, StoreStatus
<1>8. /\ TypeClient' /\ \A j \in Shards : j # i => client'[j] = client[j]
      /\ (client'[i].stopping <=> client[i].stopping)
      /\ (client'[i].stop_requested <=> client[i].stop_requested)
      /\ (client'[i].running <=> client[i].running)
      /\ (client'[i].completed <=> client[i].completed)
  BY <1>1, <1>7, WriteStatus, Zenon
<1>9. Causes'
  BY <1>1, <1>2, <1>8, CausesAt, Zenon DEF Causes
<1>10. Idle'
  <2>1. started
    BY <1>1, Zenon DEF Idle, Quiet, SupStatus
  <2> QED
    BY <1>2, <2>1, Zenon DEF Idle
<1>11. Ledger'
  <2>1. Errored(i)' \subseteq Errored(i)
    BY <1>2, Zenon DEF Errored
  <2>2. Steady(i)
    BY <1>2, <1>4, <1>5, <1>6, <1>8, <2>1, Zenon DEF Steady, Held, Published, Busy, Past
  <2>3. \A j \in Shards : Steady(j)
    BY <1>1, <1>2, <1>4, <1>5, <1>6, <1>8, <2>2, Elsewhere, Zenon DEF SupStages
  <2> QED
    BY <1>1, <1>2, <2>3, LedgerSteady, Zenon
<1> QED
  BY <1>3, <1>4, <1>5, <1>6, <1>7, <1>8, <1>9, <1>10, <1>11, Zenon DEF IndInv, TypeOK

LEMMA RecordedKeeps ==
    ASSUME IndInv, CountLaws, Recorded
    PROVE  IndInv'
<1>1. /\ TypeCluster /\ TypeClient /\ TypeHealth /\ TypeTask /\ TypeSup /\ TypeCall
      /\ TypeCounts /\ Causes /\ Drains /\ Idle /\ Ledger
  BY Zenon DEF IndInv, TypeOK
<1>2. UNCHANGED <<started, started_count, supervisor_stop, admission, runtime_stop, client, task, call, env, drained, failures, decisions>>
  BY Zenon DEF Recorded, cluster, OnlySup
<1>3. TypeCluster' /\ TypeClient' /\ TypeTask' /\ TypeCall' /\ TypeCounts' /\ Causes' /\ Drains'
  BY <1>1, <1>2, Zenon DEF TypeCluster, TypeClient, TypeTask, TypeCall, TypeCounts, Causes, Drains
<1>4. sup.pc \in {"restarted", "refused"} /\ sup.pc \in SupStages /\ sup.i \in Shards
  BY <1>1, SupAt, Zenon DEF Recorded, SupStages
<1>5. TypeHealth'
  BY <1>1, <1>4, HealthWritten, Zenon DEF Recorded, Report, TypeHealth, HealthRecord
<1>6. TypeSup' /\ Onward
  BY <1>1, <1>4, SupOnward, Zenon DEF Recorded
<1>7. Idle'
  <2>1. started
    BY <1>1, Zenon DEF Idle, Quiet, Recorded
  <2> QED
    BY <1>2, <2>1, Zenon DEF Idle
<1>8. Ledger'
  <2>1. ASSUME NEW i \in Shards PROVE Steady(i)
    <3>1. ~Busy(i)
      BY <1>4, Zenon DEF Busy
    <3> QED
      BY <1>1, <1>2, <1>4, <1>6, <3>1, OnwardSteady, Zenon
  <2> QED
    BY <1>1, <1>2, <2>1, LedgerSteady, Zenon
<1> QED
  BY <1>3, <1>4, <1>5, <1>6, <1>7, <1>8, Zenon DEF IndInv, TypeOK

-----------------------------------------------------------------------------
(* dcc_gateway_start, for the supervisor and for a caller. *)

(* A task is spawned: the flag is down. *)
LEMMA SpawnWrites ==
    ASSUME TypeClient, TypeTask, NEW i \in Shards, Spawn(i)
    PROVE  /\ TypeClient' /\ \A j \in Shards : j # i => client'[j] = client[j]
           /\ ~client'[i].stop_requested /\ ~client'[i].completed
           /\ (client'[i].stopping <=> client[i].stopping)
           /\ TypeTask' /\ \A j \in Shards : j # i => task'[j] = task[j]
           /\ \A k \in Slots : task'[i][k] = task[i][k] \/ task'[i][k] = "run"
           /\ UNCHANGED <<env, failures>>
<1>1. client' = [client EXCEPT ![i] = [client[i] EXCEPT !.stop_requested = FALSE,
                    !.running = TRUE, !.completed = FALSE, !.last_status = "ok"]]
  BY Zenon DEF Spawn
<1>2. /\ TypeClient' /\ \A j \in Shards : j # i => client'[j] = client[j]
      /\ ~client'[i].stop_requested /\ ~client'[i].completed
      /\ (client'[i].stopping <=> client[i].stopping)
  BY <1>1, WriteSpawn, Zenon
<1>3. PICK k \in Slots : Move(i, k, "run")
  BY Zenon DEF Spawn, Move
<1>4. /\ TypeTask' /\ task'[i][k] = "run"
      /\ \A n \in Slots : n # k => task'[i][n] = task[i][n]
      /\ \A j \in Shards : j # i => task'[j] = task[j]
  BY <1>3, TaskMoved, Zenon
<1>5. \A n \in Slots : task'[i][n] = task[i][n] \/ task'[i][n] = "run"
  BY <1>4, Zenon
<1>6. UNCHANGED <<env, failures>>
  BY Zenon DEF Spawn
<1> QED
  BY <1>2, <1>4, <1>5, <1>6, Zenon

(* It cannot be spawned: a failure, and the flag that announces it. *)
LEMMA SpawnFailsWrites ==
    ASSUME TypeClient, TypeCounts, NEW i \in Shards, SpawnFails(i)
    PROVE  /\ TypeClient' /\ \A j \in Shards : j # i => client'[j] = client[j]
           /\ ~client'[i].stop_requested /\ (client'[i].stopping <=> client[i].stopping)
           /\ UNCHANGED task
           /\ env' \in Environment /\ failures' \in [Shards -> Nat]
           /\ failures'[i] = failures[i] + 1 /\ \A j \in Shards : j # i => failures'[j] = failures[j]
<1>1. client' = [client EXCEPT ![i] = [client[i] EXCEPT !.stop_requested = FALSE,
                    !.running = FALSE, !.completed = TRUE, !.last_status = "ok"]]
  BY Zenon DEF SpawnFails
<1>2. /\ TypeClient' /\ \A j \in Shards : j # i => client'[j] = client[j]
      /\ ~client'[i].stop_requested /\ (client'[i].stopping <=> client[i].stopping)
  BY <1>1, WriteSpawn, Zenon
<1>3. failures[i] + 1 \in Nat
  BY DEF TypeCounts
<1>4. /\ failures' \in [Shards -> Nat] /\ failures'[i] = failures[i] + 1
      /\ \A j \in Shards : j # i => failures'[j] = failures[j]
  BY <1>3, Zenon DEF SpawnFails, TypeCounts
<1>5. env' \in Environment
  BY FaultTyped, Zenon DEF SpawnFails, TypeCounts
<1>6. UNCHANGED task
  BY Zenon DEF SpawnFails
<1> QED
  BY <1>2, <1>4, <1>5, <1>6, Zenon

LEMMA SpawnCauses ==
    ASSUME TypeClient, TypeTask, TypeCounts, Causes, UNCHANGED drained,
           NEW i \in Shards, Spawn(i) \/ SpawnFails(i)
    PROVE  Causes'
<1>1. CASE Spawn(i)
  <2>1. /\ \A j \in Shards : j # i => client'[j] = client[j] /\ task'[j] = task[j]
        /\ ~client'[i].stop_requested /\ (client'[i].stopping <=> client[i].stopping)
        /\ \A k \in Slots : task'[i][k] = task[i][k] \/ task'[i][k] = "run"
    BY <1>1, SpawnWrites, Zenon
  <2>2. ASSUME i \notin drained, NEW k \in Slots, task'[i][k] = "ok" PROVE client'[i].stopping
    <3>1. task[i][k] = "ok"
      BY <2>1, <2>2, Zenon
    <3> QED
      BY <2>1, <2>2, <3>1, Zenon DEF Causes
  <2> QED
    BY <2>1, <2>2, CausesAt, Zenon
<1>2. CASE SpawnFails(i)
  <2>1. /\ \A j \in Shards : j # i => client'[j] = client[j]
        /\ ~client'[i].stop_requested /\ (client'[i].stopping <=> client[i].stopping)
        /\ UNCHANGED task
    BY <1>2, SpawnFailsWrites, Zenon
  <2>2. i \notin drained => \A k \in Slots : task'[i][k] = "ok" => client'[i].stopping
    BY <2>1, Zenon DEF Causes
  <2> QED
    BY <2>1, <2>2, CausesAt, Zenon
<1> QED
  BY <1>1, <1>2, Zenon

(* With the flag down there is nothing more to judge; with a failed spawn  *)
(* the flag at most.                                                       *)
LEMMA SpawnLedger ==
    ASSUME CountLaws, TypeClient, TypeTask, TypeCounts, Ledger, UNCHANGED <<drained, decisions>>,
           NEW i \in Shards, Spawn(i) \/ SpawnFails(i), Held(i)' => Held(i),
           \A j \in Shards : j # i /\ client'[j] = client[j] /\ task'[j] = task[j]
                               /\ failures'[j] = failures[j] => Steady(j)
    PROVE  Ledger'
<1>1. CASE Spawn(i)
  <2>1. /\ \A j \in Shards : j # i => client'[j] = client[j] /\ task'[j] = task[j]
        /\ ~client'[i].completed /\ UNCHANGED failures
        /\ \A k \in Slots : task'[i][k] = task[i][k] \/ task'[i][k] = "run"
    BY <1>1, SpawnWrites, Zenon
  <2>2. Errored(i)' \subseteq Errored(i)
    BY <2>1, Zenon DEF Errored
  <2>3. Steady(i)
    BY <2>1, <2>2, Zenon DEF Steady, Published
  <2>4. \A j \in Shards : Steady(j)
    BY <2>1, <2>3, Zenon
  <2> QED
    BY <2>4, LedgerSteady, Zenon
<1>2. CASE SpawnFails(i)
  <2>1. /\ \A j \in Shards : j # i => client'[j] = client[j] /\ failures'[j] = failures[j]
        /\ failures'[i] = failures[i] + 1 /\ UNCHANGED task
    BY <1>2, SpawnFailsWrites, Zenon
  <2>2. Errored(i)' \subseteq Errored(i)
    BY <2>1, Zenon DEF Errored
  <2>3. i \notin drained' => (decisions[i] + Unjudged(i))' <= failures[i]'
    BY <2>1, <2>2, FlagRaised, Zenon DEF Ledger
  <2>4. \A j \in Shards : j # i => Steady(j)
    BY <2>1, Zenon
  <2> QED
    BY <2>3, <2>4, LedgerAt, Zenon
<1> QED
  BY <1>1, <1>2, Zenon

LEMMA SpawnTypes ==
    ASSUME TypeClient, TypeTask, TypeCounts, UNCHANGED <<drained, decisions>>,
           NEW i \in Shards, Spawn(i) \/ SpawnFails(i)
    PROVE  TypeClient' /\ TypeTask' /\ TypeCounts'
<1>1. CASE Spawn(i)
  <2>1. TypeClient' /\ TypeTask' /\ UNCHANGED <<env, failures>>
    BY <1>1, SpawnWrites, Zenon
  <2> QED
    BY <2>1, Zenon DEF TypeCounts
<1>2. CASE SpawnFails(i)
  <2>1. /\ TypeClient' /\ UNCHANGED task
        /\ env' \in Environment /\ failures' \in [Shards -> Nat]
    BY <1>2, SpawnFailsWrites, Zenon
  <2> QED
    BY <2>1, Zenon DEF TypeCounts, TypeTask
<1> QED
  BY <1>1, <1>2, Zenon

LEMMA SupSpawnKeeps ==
    ASSUME IndInv, CountLaws, SupSpawn
    PROVE  IndInv'
<1>1. /\ TypeCluster /\ TypeClient /\ TypeHealth /\ TypeTask /\ TypeSup /\ TypeCall
      /\ TypeCounts /\ Causes /\ Drains /\ Idle /\ Ledger
  BY Zenon DEF IndInv, TypeOK
<1>2. UNCHANGED <<started, started_count, supervisor_stop, admission, runtime_stop, health, call, drained, decisions>>
  BY Zenon DEF SupSpawn, cluster, OnlySup
<1>3. TypeCluster' /\ TypeHealth' /\ TypeCall' /\ Drains'
  BY <1>1, <1>2, Zenon DEF TypeCluster, TypeHealth, TypeCall, Drains
<1>4. sup.pc = "spawn" /\ sup.pc \in SupStages /\ sup.i \in Shards
  BY <1>1, SupAt, Zenon DEF SupSpawn, SupStages
<1>5. PICK i \in Shards, pc \in SupStages : i = sup.i /\ Goto(pc) /\ pc \in {"restarted", "unspawned"}
                                           /\ (Spawn(i) \/ SpawnFails(i))
  BY <1>4, Zenon DEF SupSpawn, SupStages
<1>6. TypeSup' /\ sup'.pc = pc /\ sup'.i = i
  BY <1>1, <1>4, <1>5, SupGoes, Zenon
<1>7. TypeClient' /\ TypeTask' /\ TypeCounts'
  BY <1>1, <1>2, <1>5, SpawnTypes, Zenon
<1>8. Causes'
  BY <1>1, <1>2, <1>5, SpawnCauses, Zenon
<1>9. Idle'
  <2>1. started
    BY <1>1, Zenon DEF Idle, Quiet, SupSpawn
  <2> QED
    BY <1>2, <2>1, Zenon DEF Idle
<1>10. Ledger'
  <2>1. Held(i)' => Held(i)
    BY <1>5, <1>6, Zenon DEF Held
  <2>2. \A j \in Shards : j # i /\ client'[j] = client[j] /\ task'[j] = task[j]
                            /\ failures'[j] = failures[j] => Steady(j)
    BY <1>1, <1>2, <1>4, <1>5, Elsewhere, Zenon
  <2> QED
    BY <1>1, <1>2, <1>5, <2>1, <2>2, SpawnLedger, Zenon
<1> QED
  BY <1>3, <1>4, <1>5, <1>6, <1>7, <1>8, <1>9, <1>10, Zenon DEF IndInv, TypeOK

-----------------------------------------------------------------------------
(* The controls. *)

(* A caller that is in a call works on a shard. *)
LEMMA CallAt ==
    ASSUME TypeCall, NEW c \in Callers, call[c].pc \in CallStages
    PROVE  call[c] = [pc |-> call[c].pc, i |-> call[c].i] /\ call[c].i \in Shards
<1>1. call[c] \in {IdleCall} \cup [pc : CallStages, i : Shards]
  BY Zenon DEF TypeCall
<1>2. IdleCall.pc = "idle"
  BY Zenon DEF IdleCall
<1>3. call[c] # IdleCall
  BY <1>2, Zenon DEF CallStages
<1> QED
  BY <1>1, <1>3, Zenon

(* A caller goes to the next step of its call, or to one about shard i.    *)
LEMMA CallOn ==
    ASSUME TypeCall, Drains, drained \subseteq drained', NEW c \in Callers, NEW i \in Shards,
           NEW pc \in CallStages, On(c, i, pc), pc = "stop_gateway" => i \in drained'
    PROVE  TypeCall' /\ Drains'
<1>1. [pc |-> pc, i |-> i] \in {IdleCall} \cup [pc : CallStages, i : Shards]
  BY Zenon
<1>2. TypeCall' /\ call'[c] = [pc |-> pc, i |-> i] /\ \A b \in Callers : b # c => call'[b] = call[b]
  BY <1>1, Zenon DEF On, TypeCall
<1>3. ASSUME NEW b \in Callers, call'[b].pc = "stop_gateway" PROVE call'[b].i \in drained'
  <2>1. CASE b = c
    <3>1. [pc |-> pc, i |-> i].pc = pc /\ [pc |-> pc, i |-> i].i = i
      OBVIOUS
    <3>2. call'[b].pc = pc /\ call'[b].i = i
      BY <1>2, <2>1, <3>1, Zenon
    <3> QED
      BY <1>3, <3>2, Zenon
  <2>2. CASE b # c
    BY <1>2, <1>3, <2>2, Zenon DEF Drains
  <2> QED
    BY <2>1, <2>2, Zenon
<1> QED
  BY <1>2, <1>3, Zenon DEF Drains

LEMMA CallStepped ==
    ASSUME TypeCall, Drains, UNCHANGED drained, NEW c \in Callers, call[c].pc \in CallStages,
           NEW pc \in CallStages, pc # "stop_gateway", Step(c, pc)
    PROVE  TypeCall' /\ Drains'
<1>1. call[c] = [pc |-> call[c].pc, i |-> call[c].i] /\ call[c].i \in Shards
  BY CallAt, Zenon
<1>2. [call[c] EXCEPT !.pc = pc] = [pc |-> pc, i |-> call[c].i]
  BY <1>1, SMTT(30)
<1>3. call' = [call EXCEPT ![c] = [call[c] EXCEPT !.pc = pc]]
  BY Zenon DEF Step
<1>4. On(c, call[c].i, pc)
  BY <1>2, <1>3, Zenon DEF On
<1> QED
  BY <1>1, <1>4, CallOn, Zenon

LEMMA CallDone ==
    ASSUME TypeCall, Drains, UNCHANGED drained, NEW c \in Callers, Done(c)
    PROVE  TypeCall' /\ Drains'
<1>1. TypeCall' /\ call'[c] = IdleCall /\ \A b \in Callers : b # c => call'[b] = call[b]
  BY Zenon DEF Done, TypeCall
<1>2. IdleCall.pc # "stop_gateway"
  BY Zenon DEF IdleCall
<1>3. ASSUME NEW b \in Callers, call'[b].pc = "stop_gateway" PROVE call'[b].i \in drained'
  <2>1. b # c
    BY <1>1, <1>2, <1>3, Zenon
  <2> QED
    BY <1>1, <1>3, <2>1, Zenon DEF Drains
<1> QED
  BY <1>1, <1>3, Zenon DEF Drains

(* A call uses up one of the calls the program makes. *)
LEMMA BeginTyped ==
    ASSUME env \in Environment, NEW c \in Callers, NEW op \in AllOps, Begin(c, op)
    PROVE  env' \in Environment
<1>1. env.calls - 1 \in Nat
  BY SMTT(30) DEF Begin, Environment
<1> QED
  BY <1>1, Zenon DEF Begin, Environment

LEMMA EnvShards == ASSUME TypeCounts PROVE env.shards \subseteq Shards
BY Zenon DEF TypeCounts, Environment, Shards

LEMMA CountsKept ==
    ASSUME TypeCounts, env' \in Environment, UNCHANGED <<drained, failures, decisions>>
    PROVE  TypeCounts'
BY Zenon DEF TypeCounts

LEMMA HealthKept ==
    ASSUME TypeHealth, NEW i \in Shards, Report(i, "STOPPING") \/ Report(i, "STARTING") \/ Report(i, "ERROR")
    PROVE  TypeHealth'
<1>1. PICK s \in {"CREATED", "STARTING", "READY", "STOPPING", "STOPPED", "ERROR"} : Report(i, s)
  BY Zenon
<1> QED
  BY <1>1, HealthWritten, Zenon DEF Report, TypeHealth, HealthRecord

LEMMA StopGatewayKeeps ==
    ASSUME IndInv, CountLaws, NEW c \in Callers, StopGateway(c)
    PROVE  IndInv'
<1>1. /\ TypeCluster /\ TypeClient /\ TypeHealth /\ TypeTask /\ TypeSup /\ TypeCall
      /\ TypeCounts /\ Causes /\ Drains /\ Idle /\ Ledger
  BY Zenon DEF IndInv, TypeOK
<1>2. UNCHANGED <<started, started_count, supervisor_stop, admission, runtime_stop, health, task, sup, env, drained, failures, decisions>>
  BY Zenon DEF StopGateway, cluster, OnlySup
<1>3. TypeCluster' /\ TypeHealth' /\ TypeTask' /\ TypeSup' /\ TypeCounts'
  BY <1>1, <1>2, Zenon DEF TypeCluster, TypeHealth, TypeTask, TypeSup, TypeCounts
<1>4. call[c].pc = "stop_gateway" /\ call[c].pc \in CallStages /\ call[c].i \in Shards
  BY <1>1, CallAt, Zenon DEF StopGateway, At, CallStages
<1>5. PICK i \in Shards : i = call[c].i
  BY <1>4, Zenon
<1>6. TypeCall' /\ Drains'
  BY <1>1, <1>2, CallDone, Zenon DEF StopGateway
<1>7. i \in drained
  BY <1>1, <1>4, <1>5, Zenon DEF Drains
<1>8. client' = [client EXCEPT ![i] = [client[i] EXCEPT !.stop_requested = TRUE]]
  BY <1>5, Zenon DEF StopGateway
<1>9. TypeClient' /\ \A j \in Shards : j # i => client'[j] = client[j]
  BY <1>1, <1>8, WriteRequest, Zenon
<1>10. Causes'
  BY <1>1, <1>2, <1>7, <1>9, CausesAt, Zenon DEF Causes
<1>11. Ledger'
  <2>1. \A j \in Shards : j \notin drained' => Steady(j)
    BY <1>2, <1>7, <1>9, Untouched, Zenon
  <2> QED
    BY <1>1, <1>2, <2>1, LedgerSteady, Zenon
<1>12. Idle'
  <2>1. started
    BY <1>1, Zenon DEF Idle, Quiet, StopGateway, At
  <2> QED
    BY <1>2, <2>1, Zenon DEF Idle
<1> QED
  BY <1>3, <1>4, <1>5, <1>6, <1>7, <1>8, <1>9, <1>10, <1>11, <1>12, Zenon DEF IndInv, TypeOK

LEMMA CheckStartKeeps ==
    ASSUME IndInv, CountLaws, NEW c \in Callers, CheckStart(c)
    PROVE  IndInv'
<1>1. /\ TypeCluster /\ TypeClient /\ TypeHealth /\ TypeTask /\ TypeSup /\ TypeCall
      /\ TypeCounts /\ Causes /\ Drains /\ Idle /\ Ledger
  BY Zenon DEF IndInv, TypeOK
<1>2. UNCHANGED <<started, started_count, supervisor_stop, admission, runtime_stop, client, health, task, sup, env, drained, failures, decisions>>
  BY Zenon DEF CheckStart, cluster, OnlySup
<1>3. TypeCluster' /\ TypeClient' /\ TypeHealth' /\ TypeTask' /\ TypeSup' /\ TypeCounts' /\ Causes'
  BY <1>1, <1>2, Zenon DEF TypeCluster, TypeClient, TypeHealth, TypeTask, TypeSup, TypeCounts, Causes
<1>4. Ledger'
  BY <1>1, <1>2, LedgerSame, Zenon
<1>5. call[c].pc = "check" /\ call[c].pc \in CallStages /\ call[c].i \in Shards
  BY <1>1, CallAt, Zenon DEF CheckStart, At, CallStages
<1>6. TypeCall' /\ Drains'
  <2>1. PICK pc \in CallStages : pc # "stop_gateway" /\ Step(c, pc)
    BY Zenon DEF CheckStart, CallStages
  <2> QED
    BY <1>1, <1>2, <1>5, <2>1, CallStepped, Zenon
<1>7. Idle'
  <2>1. started
    BY <1>1, Zenon DEF Idle, Quiet, CheckStart, At
  <2> QED
    BY <1>2, <2>1, Zenon DEF Idle
<1> QED
  BY <1>3, <1>4, <1>5, <1>6, <1>7, Zenon DEF IndInv, TypeOK

LEMMA RequestReconnectKeeps ==
    ASSUME IndInv, CountLaws, NEW c \in Callers, RequestReconnect(c)
    PROVE  IndInv'
<1>1. /\ TypeCluster /\ TypeClient /\ TypeHealth /\ TypeTask /\ TypeSup /\ TypeCall
      /\ TypeCounts /\ Causes /\ Drains /\ Idle /\ Ledger
  BY Zenon DEF IndInv, TypeOK
<1>2. UNCHANGED <<started, started_count, supervisor_stop, admission, runtime_stop, client, health, task, sup, env, drained, failures, decisions>>
  BY Zenon DEF RequestReconnect, cluster, OnlySup
<1>3. TypeCluster' /\ TypeClient' /\ TypeHealth' /\ TypeTask' /\ TypeSup' /\ TypeCounts' /\ Causes'
  BY <1>1, <1>2, Zenon DEF TypeCluster, TypeClient, TypeHealth, TypeTask, TypeSup, TypeCounts, Causes
<1>4. Ledger'
  BY <1>1, <1>2, LedgerSame, Zenon
<1>5. call[c].pc = "reconnect" /\ call[c].pc \in CallStages /\ call[c].i \in Shards
  BY <1>1, CallAt, Zenon DEF RequestReconnect, At, CallStages
<1>6. TypeCall' /\ Drains'
  <2>1. "failed" \in CallStages /\ "failed" # "stop_gateway"
    BY Zenon DEF CallStages
  <2>2. Step(c, "failed") \/ Done(c)
    BY Zenon DEF RequestReconnect
  <2> QED
    BY <1>1, <1>2, <1>5, <2>1, <2>2, CallStepped, CallDone, Zenon
<1>7. Idle'
  <2>1. started
    BY <1>1, Zenon DEF Idle, Quiet, RequestReconnect, At
  <2> QED
    BY <1>2, <2>1, Zenon DEF Idle
<1> QED
  BY <1>3, <1>4, <1>5, <1>6, <1>7, Zenon DEF IndInv, TypeOK

LEMMA CallFailedKeeps ==
    ASSUME IndInv, CountLaws, NEW c \in Callers, CallFailed(c)
    PROVE  IndInv'
<1>1. /\ TypeCluster /\ TypeClient /\ TypeHealth /\ TypeTask /\ TypeSup /\ TypeCall
      /\ TypeCounts /\ Causes /\ Drains /\ Idle /\ Ledger
  BY Zenon DEF IndInv, TypeOK
<1>2. UNCHANGED <<started, started_count, supervisor_stop, admission, runtime_stop, client, task, sup, env, drained, failures, decisions>>
  BY Zenon DEF CallFailed, cluster, OnlySup
<1>3. TypeCluster' /\ TypeClient' /\ TypeTask' /\ TypeSup' /\ TypeCounts' /\ Causes'
  BY <1>1, <1>2, Zenon DEF TypeCluster, TypeClient, TypeTask, TypeSup, TypeCounts, Causes
<1>4. Ledger'
  BY <1>1, <1>2, LedgerSame, Zenon
<1>5. call[c].pc = "failed" /\ call[c].pc \in CallStages /\ call[c].i \in Shards
  BY <1>1, CallAt, Zenon DEF CallFailed, At, CallStages
<1>6. TypeCall' /\ Drains'
  BY <1>1, <1>2, CallDone, Zenon DEF CallFailed
<1>7. TypeHealth'
  BY <1>1, <1>5, HealthKept, Zenon DEF CallFailed
<1>8. Idle'
  <2>1. started
    BY <1>1, Zenon DEF Idle, Quiet, CallFailed, At
  <2> QED
    BY <1>2, <2>1, Zenon DEF Idle
<1> QED
  BY <1>3, <1>4, <1>5, <1>6, <1>7, <1>8, Zenon DEF IndInv, TypeOK

LEMMA SpawnTaskKeeps ==
    ASSUME IndInv, CountLaws, NEW c \in Callers, SpawnTask(c)
    PROVE  IndInv'
<1>1. /\ TypeCluster /\ TypeClient /\ TypeHealth /\ TypeTask /\ TypeSup /\ TypeCall
      /\ TypeCounts /\ Causes /\ Drains /\ Idle /\ Ledger
  BY Zenon DEF IndInv, TypeOK
<1>2. UNCHANGED <<started, started_count, supervisor_stop, admission, runtime_stop, health, sup, drained, decisions>>
  BY Zenon DEF SpawnTask, cluster, OnlySup
<1>3. TypeCluster' /\ TypeHealth' /\ TypeSup'
  BY <1>1, <1>2, Zenon DEF TypeCluster, TypeHealth, TypeSup
<1>4. call[c].pc = "spawn" /\ call[c].pc \in CallStages /\ call[c].i \in Shards
  BY <1>1, CallAt, Zenon DEF SpawnTask, At, CallStages
<1>5. PICK i \in Shards : i = call[c].i /\ (Spawn(i) \/ SpawnFails(i))
  BY <1>4, Zenon DEF SpawnTask
<1>6. TypeCall' /\ Drains'
  <2>1. "unspawned" \in CallStages /\ "unspawned" # "stop_gateway"
    BY Zenon DEF CallStages
  <2>2. Step(c, "unspawned") \/ Done(c)
    BY Zenon DEF SpawnTask
  <2> QED
    BY <1>1, <1>2, <1>4, <2>1, <2>2, CallStepped, CallDone, Zenon
<1>7. TypeClient' /\ TypeTask' /\ TypeCounts'
  BY <1>1, <1>2, <1>5, SpawnTypes, Zenon
<1>8. Causes'
  BY <1>1, <1>2, <1>5, SpawnCauses, Zenon
<1>9. Ledger'
  <2>1. Held(i)' => Held(i)
    BY <1>2, Zenon DEF Held
  <2>2. \A j \in Shards : j # i /\ client'[j] = client[j] /\ task'[j] = task[j]
                            /\ failures'[j] = failures[j] => Steady(j)
    BY <1>2, Untouched, Zenon
  <2> QED
    BY <1>1, <1>2, <1>5, <2>1, <2>2, SpawnLedger, Zenon
<1>10. Idle'
  <2>1. started
    BY <1>1, Zenon DEF Idle, Quiet, SpawnTask, At
  <2> QED
    BY <1>2, <2>1, Zenon DEF Idle
<1> QED
  BY <1>3, <1>4, <1>5, <1>6, <1>7, <1>8, <1>9, <1>10, Zenon DEF IndInv, TypeOK

LEMMA SpawnStatusKeeps ==
    ASSUME IndInv, CountLaws, NEW c \in Callers, SpawnStatus(c)
    PROVE  IndInv'
<1>1. /\ TypeCluster /\ TypeClient /\ TypeHealth /\ TypeTask /\ TypeSup /\ TypeCall
      /\ TypeCounts /\ Causes /\ Drains /\ Idle /\ Ledger
  BY Zenon DEF IndInv, TypeOK
<1>2. UNCHANGED <<started, started_count, supervisor_stop, admission, runtime_stop, health, task, sup, env, drained, failures, decisions>>
  BY Zenon DEF SpawnStatus, cluster, OnlySup
<1>3. TypeCluster' /\ TypeHealth' /\ TypeTask' /\ TypeSup' /\ TypeCounts'
  BY <1>1, <1>2, Zenon DEF TypeCluster, TypeHealth, TypeTask, TypeSup, TypeCounts
<1>4. call[c].pc = "unspawned" /\ call[c].pc \in CallStages /\ call[c].i \in Shards
  BY <1>1, CallAt, Zenon DEF SpawnStatus, At, CallStages
<1>5. PICK i \in Shards : i = call[c].i
  BY <1>4, Zenon
<1>6. TypeCall' /\ Drains'
  <2>1. "failed" \in CallStages /\ "failed" # "stop_gateway"
    BY Zenon DEF CallStages
  <2> QED
    BY <1>1, <1>2, <1>4, <2>1, CallStepped, Zenon DEF SpawnStatus
<1>7. client' = [client EXCEPT ![i] = [client[i] EXCEPT !.last_status = "error"]]
  BY <1>5, Zenon DEF SpawnStatus, StoreStatus
<1>8. /\ TypeClient' /\ \A j \in Shards : j # i => client'[j] = client[j]
      /\ (client'[i].stopping <=> client[i].stopping)
      /\ (client'[i].stop_requested <=> client[i].stop_requested)
      /\ (client'[i].running <=> client[i].running)
      /\ (client'[i].completed <=> client[i].completed)
  BY <1>1, <1>7, WriteStatus, Zenon
<1>9. Causes'
  BY <1>1, <1>2, <1>8, CausesAt, Zenon DEF Causes
<1>10. Ledger'
  <2>1. Errored(i)' \subseteq Errored(i)
    BY <1>2, Zenon DEF Errored
  <2>2. Steady(i)
    BY <1>2, <1>8, <2>1, FlagFades, Zenon
  <2>3. \A j \in Shards : Steady(j)
    BY <1>2, <1>8, <2>2, Untouched, Zenon
  <2> QED
    BY <1>1, <1>2, <2>3, LedgerSteady, Zenon
<1>11. Idle'
  <2>1. started
    BY <1>1, Zenon DEF Idle, Quiet, SpawnStatus, At
  <2> QED
    BY <1>2, <2>1, Zenon DEF Idle
<1> QED
  BY <1>3, <1>4, <1>5, <1>6, <1>7, <1>8, <1>9, <1>10, <1>11, Zenon DEF IndInv, TypeOK

LEMMA StopClientKeeps ==
    ASSUME IndInv, CountLaws, NEW c \in Callers, StopClient(c)
    PROVE  IndInv'
<1>1. /\ TypeCluster /\ TypeClient /\ TypeHealth /\ TypeTask /\ TypeSup /\ TypeCall
      /\ TypeCounts /\ Causes /\ Drains /\ Idle /\ Ledger
  BY Zenon DEF IndInv, TypeOK
<1>2. UNCHANGED <<started, started_count, supervisor_stop, admission, health, task, sup, env, drained, failures, decisions>>
  BY Zenon DEF StopClient, cluster, OnlySup
<1>3. TypeHealth' /\ TypeTask' /\ TypeSup' /\ TypeCounts'
  BY <1>1, <1>2, Zenon DEF TypeHealth, TypeTask, TypeSup, TypeCounts
<1>4. call[c].pc = "stop" /\ call[c].pc \in CallStages /\ call[c].i \in Shards
  BY <1>1, CallAt, Zenon DEF StopClient, At, CallStages
<1>5. PICK i \in Shards : i = call[c].i
  BY <1>4, Zenon
<1>6. TypeCluster'
  BY <1>1, <1>2, Zenon DEF TypeCluster, StopClient, ClientStop
<1>7. TypeCall' /\ Drains'
  <2>1. "stop" \in CallStages /\ "stop" # "stop_gateway"
    BY Zenon DEF CallStages
  <2>2. CASE i < ShardCount
    <3>1. i + 1 \in Shards
      BY <2>2, ClusterAssumption DEF Shards
    <3>2. On(c, i + 1, "stop")
      BY <1>5, <2>2, Zenon DEF StopClient
    <3> QED
      BY <1>1, <1>2, <2>1, <3>1, <3>2, CallOn, Zenon
  <2>3. CASE ~(i < ShardCount)
    BY <1>1, <1>2, <1>5, <2>3, CallDone, Zenon DEF StopClient
  <2> QED
    BY <2>2, <2>3, Zenon
<1>8. client' = [client EXCEPT ![i] = [client[i] EXCEPT !.stopping = TRUE, !.stop_requested = TRUE]]
  BY <1>5, Zenon DEF StopClient, ClientStop
<1>9. /\ TypeClient' /\ \A j \in Shards : j # i => client'[j] = client[j]
      /\ client'[i].stopping
      /\ (client'[i].running <=> client[i].running)
      /\ (client'[i].completed <=> client[i].completed)
  BY <1>1, <1>8, WriteStop, Zenon
<1>10. Causes'
  BY <1>1, <1>2, <1>9, CausesAt, Zenon
<1>11. Ledger'
  <2>1. Errored(i)' \subseteq Errored(i)
    BY <1>2, Zenon DEF Errored
  <2>2. Steady(i)
    BY <1>2, <1>9, <2>1, FlagFades, Zenon
  <2>3. \A j \in Shards : Steady(j)
    BY <1>2, <1>9, <2>2, Untouched, Zenon
  <2> QED
    BY <1>1, <1>2, <2>3, LedgerSteady, Zenon
<1>12. Idle'
  <2>1. started
    BY <1>1, Zenon DEF Idle, Quiet, StopClient, At
  <2> QED
    BY <1>2, <2>1, Zenon DEF Idle
<1> QED
  BY <1>3, <1>4, <1>5, <1>6, <1>7, <1>8, <1>9, <1>10, <1>11, <1>12, Zenon DEF IndInv, TypeOK

LEMMA DrainShardKeeps ==
    ASSUME IndInv, CountLaws, NEW c \in Callers, NEW i \in Shards, DrainShard(c, i)
    PROVE  IndInv'
<1>1. /\ TypeCluster /\ TypeClient /\ TypeHealth /\ TypeTask /\ TypeSup /\ TypeCall
      /\ TypeCounts /\ Causes /\ Drains /\ Idle /\ Ledger
  BY Zenon DEF IndInv, TypeOK
<1>2. UNCHANGED <<started, started_count, supervisor_stop, admission, runtime_stop, client, task, sup, failures, decisions>>
  BY Zenon DEF DrainShard, cluster, OnlySup
<1>3. TypeCluster' /\ TypeClient' /\ TypeTask' /\ TypeSup'
  BY <1>1, <1>2, Zenon DEF TypeCluster, TypeClient, TypeTask, TypeSup
<1>4. drained' = drained \cup {i}
  BY Zenon DEF DrainShard
<1>5. TypeHealth'
  BY <1>1, HealthKept, Zenon DEF DrainShard
<1>6. TypeCall' /\ Drains'
  <2>1. "stop_gateway" \in CallStages /\ i \in drained' /\ drained \subseteq drained'
    BY <1>4, Zenon DEF CallStages
  <2> QED
    BY <1>1, <2>1, CallOn, Zenon DEF DrainShard
<1>7. TypeCounts'
  <2>1. "drain" \in AllOps
    BY Zenon DEF AllOps
  <2>2. env' \in Environment
    BY <1>1, <2>1, BeginTyped, Zenon DEF DrainShard, TypeCounts
  <2> QED
    BY <1>1, <1>2, <1>4, <2>2, Zenon DEF TypeCounts
<1>8. Causes' /\ Ledger'
  <2>1. drained \subseteq drained'
    BY <1>4, Zenon
  <2>2. \A j \in Shards : Steady(j)
    BY <1>2, Untouched, Zenon
  <2> QED
    BY <1>1, <1>2, <2>1, <2>2, LedgerSteady, Zenon DEF Causes
<1>9. Idle'
  <2>1. started
    BY <1>1, Zenon DEF Idle, Quiet, DrainShard, At
  <2> QED
    BY <1>2, <2>1, Zenon DEF Idle
<1> QED
  BY <1>3, <1>4, <1>5, <1>6, <1>7, <1>8, <1>9, Zenon DEF IndInv, TypeOK

LEMMA ResumeShardKeeps ==
    ASSUME IndInv, CountLaws, NEW c \in Callers, NEW i \in Shards, ResumeShard(c, i)
    PROVE  IndInv'
<1>1. /\ TypeCluster /\ TypeClient /\ TypeHealth /\ TypeTask /\ TypeSup /\ TypeCall
      /\ TypeCounts /\ Causes /\ Drains /\ Idle /\ Ledger
  BY Zenon DEF IndInv, TypeOK
<1>2. UNCHANGED <<started, started_count, supervisor_stop, admission, runtime_stop, client, task, sup, drained, failures, decisions>>
  BY Zenon DEF ResumeShard, cluster, OnlySup
<1>3. TypeCluster' /\ TypeClient' /\ TypeTask' /\ TypeSup' /\ Causes'
  BY <1>1, <1>2, Zenon DEF TypeCluster, TypeClient, TypeTask, TypeSup, Causes
<1>4. Ledger'
  BY <1>1, <1>2, LedgerSame, Zenon
<1>5. TypeHealth'
  BY <1>1, HealthKept, Zenon DEF ResumeShard
<1>6. TypeCall' /\ Drains'
  <2>1. "check" \in CallStages /\ "check" # "stop_gateway" /\ drained \subseteq drained'
    BY <1>2, Zenon DEF CallStages
  <2> QED
    BY <1>1, <2>1, CallOn, Zenon DEF ResumeShard
<1>7. TypeCounts'
  <2>1. "resume" \in AllOps
    BY Zenon DEF AllOps
  <2>2. env' \in Environment
    BY <1>1, <2>1, BeginTyped, Zenon DEF ResumeShard, TypeCounts
  <2> QED
    BY <1>1, <1>2, <2>2, CountsKept, Zenon
<1>8. Idle'
  <2>1. started
    BY <1>1, Zenon DEF Idle, Quiet, ResumeShard, At
  <2> QED
    BY <1>2, <2>1, Zenon DEF Idle
<1> QED
  BY <1>3, <1>4, <1>5, <1>6, <1>7, <1>8, Zenon DEF IndInv, TypeOK

LEMMA ReconnectShardKeeps ==
    ASSUME IndInv, CountLaws, NEW c \in Callers, NEW i \in Shards, ReconnectShard(c, i)
    PROVE  IndInv'
<1>1. /\ TypeCluster /\ TypeClient /\ TypeHealth /\ TypeTask /\ TypeSup /\ TypeCall
      /\ TypeCounts /\ Causes /\ Drains /\ Idle /\ Ledger
  BY Zenon DEF IndInv, TypeOK
<1>2. UNCHANGED <<started, started_count, supervisor_stop, admission, runtime_stop, client, task, sup, drained, failures, decisions>>
  BY Zenon DEF ReconnectShard, cluster, OnlySup
<1>3. TypeCluster' /\ TypeClient' /\ TypeTask' /\ TypeSup' /\ Causes'
  BY <1>1, <1>2, Zenon DEF TypeCluster, TypeClient, TypeTask, TypeSup, Causes
<1>4. Ledger'
  BY <1>1, <1>2, LedgerSame, Zenon
<1>5. TypeHealth'
  BY <1>1, HealthKept, Zenon DEF ReconnectShard
<1>6. TypeCall' /\ Drains'
  <2>1. "reconnect" \in CallStages /\ "reconnect" # "stop_gateway" /\ drained \subseteq drained'
    BY <1>2, Zenon DEF CallStages
  <2> QED
    BY <1>1, <2>1, CallOn, Zenon DEF ReconnectShard
<1>7. TypeCounts'
  <2>1. "reconnect" \in AllOps
    BY Zenon DEF AllOps
  <2>2. env' \in Environment
    BY <1>1, <2>1, BeginTyped, Zenon DEF ReconnectShard, TypeCounts
  <2> QED
    BY <1>1, <1>2, <2>2, CountsKept, Zenon
<1>8. Idle'
  <2>1. started
    BY <1>1, Zenon DEF Idle, Quiet, ReconnectShard, At
  <2> QED
    BY <1>2, <2>1, Zenon DEF Idle
<1> QED
  BY <1>3, <1>4, <1>5, <1>6, <1>7, <1>8, Zenon DEF IndInv, TypeOK

LEMMA RearmShardKeeps ==
    ASSUME IndInv, CountLaws, NEW c \in Callers, NEW i \in Shards, RearmShard(c, i)
    PROVE  IndInv'
<1>1. /\ TypeCluster /\ TypeClient /\ TypeHealth /\ TypeTask /\ TypeSup /\ TypeCall
      /\ TypeCounts /\ Causes /\ Drains /\ Idle /\ Ledger
  BY Zenon DEF IndInv, TypeOK
<1>2. UNCHANGED <<started, started_count, supervisor_stop, admission, runtime_stop, client, task, sup, call, drained, failures, decisions>>
  BY Zenon DEF RearmShard, cluster, OnlySup
<1>3. TypeCluster' /\ TypeClient' /\ TypeTask' /\ TypeSup' /\ TypeCall' /\ Causes' /\ Drains' /\ Idle'
  BY <1>1, <1>2, Zenon DEF TypeCluster, TypeClient, TypeTask, TypeSup, TypeCall, Causes, Drains, Idle, Quiet
<1>4. Ledger'
  BY <1>1, <1>2, LedgerSame, Zenon
<1>5. TypeHealth'
  <2>1. PICK s \in {"CREATED", "STARTING", "READY", "STOPPING", "STOPPED", "ERROR"} :
           health' = [health EXCEPT ![i].budget = 0, ![i].status = s]
    <3>1. health[i] \in HealthRecord /\ DOMAIN health = Shards
      BY <1>1, Zenon DEF TypeHealth, HealthRecord
    <3>2. PICK s \in {"CREATED", "STARTING", "READY", "STOPPING", "STOPPED", "ERROR"} :
             s = IF health[i].status = "ERROR" /\ health[i].suppressed
                 THEN IF started THEN "STOPPED" ELSE "CREATED" ELSE health[i].status
      BY <3>1, Zenon DEF HealthRecord
    <3>3. [health EXCEPT ![i].budget = 0][i].status = health[i].status
      BY <3>1, SMTT(30) DEF HealthRecord
    <3>4. health' = [[health EXCEPT ![i].budget = 0] EXCEPT ![i].status =
                        IF @ = "ERROR" /\ health[i].suppressed
                        THEN IF started THEN "STOPPED" ELSE "CREATED" ELSE @]
      BY Zenon DEF RearmShard
    <3> QED
      BY <3>2, <3>3, <3>4, Zenon
  <2>2. 0 \in Nat
    OBVIOUS
  <2> QED
    BY <1>1, <2>1, <2>2, Zenon DEF TypeHealth
<1>6. TypeCounts'
  <2>1. "rearm" \in AllOps
    BY Zenon DEF AllOps
  <2>2. env' \in Environment
    BY <1>1, <2>1, BeginTyped, Zenon DEF RearmShard, TypeCounts
  <2> QED
    BY <1>1, <1>2, <2>2, CountsKept, Zenon
<1> QED
  BY <1>3, <1>4, <1>5, <1>6, Zenon DEF IndInv, TypeOK

LEMMA SetAdmissionKeeps ==
    ASSUME IndInv, CountLaws, NEW c \in Callers, SetAdmission(c)
    PROVE  IndInv'
<1>1. /\ TypeCluster /\ TypeClient /\ TypeHealth /\ TypeTask /\ TypeSup /\ TypeCall
      /\ TypeCounts /\ Causes /\ Drains /\ Idle /\ Ledger
  BY Zenon DEF IndInv, TypeOK
<1>2. UNCHANGED <<started, started_count, supervisor_stop, runtime_stop, client, health, task, sup, call, drained, failures, decisions>>
  BY Zenon DEF SetAdmission, cluster, OnlySup
<1>3. TypeClient' /\ TypeHealth' /\ TypeTask' /\ TypeSup' /\ TypeCall' /\ Causes' /\ Drains' /\ Idle'
  BY <1>1, <1>2, Zenon DEF TypeClient, TypeHealth, TypeTask, TypeSup, TypeCall, Causes, Drains, Idle, Quiet
<1>4. Ledger'
  BY <1>1, <1>2, LedgerSame, Zenon
<1>5. TypeCluster'
  BY <1>1, <1>2, Zenon DEF SetAdmission, TypeCluster
<1>6. Idle'
  BY <1>1, <1>2, Zenon DEF Idle, Quiet
<1>7. TypeCounts'
  <2>1. "admission" \in AllOps
    BY Zenon DEF AllOps
  <2>2. env' \in Environment
    BY <1>1, <2>1, BeginTyped, Zenon DEF SetAdmission, TypeCounts
  <2> QED
    BY <1>1, <1>2, <2>2, CountsKept, Zenon
<1> QED
  BY <1>3, <1>4, <1>5, <1>6, <1>7, Zenon DEF IndInv, TypeOK

LEMMA StopKeeps ==
    ASSUME IndInv, CountLaws, NEW c \in Callers, Stop(c)
    PROVE  IndInv'
<1>1. /\ TypeCluster /\ TypeClient /\ TypeHealth /\ TypeTask /\ TypeSup /\ TypeCall
      /\ TypeCounts /\ Causes /\ Drains /\ Idle /\ Ledger
  BY Zenon DEF IndInv, TypeOK
<1>2. UNCHANGED <<started, started_count, admission, runtime_stop, client, task, sup, drained, failures, decisions>>
  BY Zenon DEF Stop, cluster, OnlySup
<1>3. TypeClient' /\ TypeTask' /\ TypeSup' /\ Causes'
  BY <1>1, <1>2, Zenon DEF TypeClient, TypeTask, TypeSup, Causes
<1>4. TypeCluster'
  BY <1>1, <1>2, Zenon DEF Stop, TypeCluster
<1>5. TypeHealth'
  <2>1. ASSUME NEW i \in Shards PROVE Marked(health[i]) \in HealthRecord
    <3>1. health[i] \in HealthRecord
      BY <1>1, Zenon DEF TypeHealth, HealthRecord
    <3>2. [health[i] EXCEPT !.status = "STOPPING"] \in HealthRecord
      BY <3>1, Zenon DEF HealthRecord
    <3> QED
      BY <3>1, <3>2, Zenon DEF Marked
  <2> QED
    BY <2>1, Zenon DEF Stop, TypeHealth, HealthRecord
<1>6. TypeCall' /\ Drains'
  <2>1. "stop" \in CallStages /\ "stop" # "stop_gateway" /\ drained \subseteq drained'
    BY <1>2, Zenon DEF CallStages
  <2>2. 1 \in Shards
    BY ClusterAssumption DEF Shards
  <2> QED
    BY <1>1, <2>1, <2>2, CallOn, Zenon DEF Stop
<1>7. TypeCounts'
  <2>1. "stop" \in AllOps
    BY Zenon DEF AllOps
  <2>2. env' \in Environment
    BY <1>1, <2>1, BeginTyped, Zenon DEF Stop, TypeCounts
  <2> QED
    BY <1>1, <1>2, <2>2, CountsKept, Zenon
<1>8. Ledger'
  <2>1. ASSUME NEW i \in Shards PROVE Steady(i)
    <3>1. supervisor_stop' = TRUE
      BY Zenon DEF Stop
    <3> QED
      BY <1>2, <3>1, Zenon DEF Steady, Errored, Held, Published, Busy, Past
  <2> QED
    BY <1>1, <1>2, <2>1, LedgerSteady, Zenon
<1>9. Idle'
  <2>1. started
    BY <1>1, Zenon DEF Idle, Quiet, Stop, At
  <2> QED
    BY <1>2, <2>1, Zenon DEF Idle
<1> QED
  BY <1>3, <1>4, <1>5, <1>6, <1>7, <1>8, <1>9, Zenon DEF IndInv, TypeOK

-----------------------------------------------------------------------------
(* dcc_cluster_start and dcc_cluster_wait. *)

(* Health entries whose status alone is written. *)
LEMMA HealthMapped ==
    ASSUME TypeHealth, health' \in [Shards -> HealthRecord] PROVE TypeHealth'
BY Zenon DEF TypeHealth, HealthRecord

LEMMA StatusWritten ==
    ASSUME TypeHealth, NEW i \in Shards,
           NEW s \in {"CREATED", "STARTING", "READY", "STOPPING", "STOPPED", "ERROR"}
    PROVE  health[i] \in HealthRecord /\ [health[i] EXCEPT !.status = s] \in HealthRecord
<1>1. health[i] \in HealthRecord
  BY Zenon DEF TypeHealth, HealthRecord
<1> QED
  BY <1>1, Zenon DEF HealthRecord

(* A start finds no task, and leaves the first task of each shard. *)
LEMMA StartTasks ==
    ASSUME TypeTask, Quiet, task' = [i \in Shards |-> [task[i] EXCEPT ![1] = "run"]]
    PROVE  /\ TypeTask'
           /\ \A i \in Shards, k \in Slots : task'[i][k] # "error" /\ task'[i][k] # "ok"
<1>1. 1 \in Slots
  BY ClusterAssumption DEF Slots
<1>2. ASSUME NEW i \in Shards
      PROVE  /\ task'[i] = [task[i] EXCEPT ![1] = "run"]
             /\ task[i] \in [Slots -> {"none", "run", "ok", "error", "log", "stop"}]
  BY Zenon DEF TypeTask
<1>3. ASSUME NEW i \in Shards
      PROVE  task'[i] \in [Slots -> {"none", "run", "ok", "error", "log", "stop"}]
  BY <1>2, Zenon
<1>4. ASSUME NEW i \in Shards, NEW k \in Slots PROVE task'[i][k] # "error" /\ task'[i][k] # "ok"
  <2>1. task[i][k] = "none"
    BY Zenon DEF Quiet
  <2>2. task'[i][k] \in {"none", "run"}
    BY <1>2, <2>1, Zenon
  <2> QED
    BY <2>2, Zenon
<1> QED
  BY <1>3, <1>4, Zenon DEF TypeTask

(* Nobody looks at the flags, or none is up, or every shard stops. *)
LEMMA Restarted ==
    ASSUME CountLaws, TypeCounts, Ledger, UNCHANGED <<drained, failures, decisions>>,
           \A i \in Shards : Errored(i)' \subseteq Errored(i),
           \A i \in Shards : sup'.pc = "off" \/ ~client'[i].completed,
           sup'.pc \in {"off", "pause"}
    PROVE  Ledger'
<1>1. ASSUME NEW i \in Shards PROVE Steady(i)
  <2>1. ~Held(i)'
    BY Zenon DEF Held
  <2>2. ~Published(i)'
    BY Zenon DEF Published, Past
  <2> QED
    BY <2>1, <2>2, Zenon DEF Steady
<1> QED
  BY <1>1, LedgerSteady, Zenon

LEMMA StartSpends ==
    ASSUME env \in Environment, env.starts > 0
    PROVE  /\ [env EXCEPT !.starts = @ - 1] \in Environment
           /\ \A n \in Nat : [env EXCEPT !.starts = @ - 1, !.faults = n] \in Environment
<1>1. env.starts - 1 \in Nat
  BY SMTT(30) DEF Environment
<1> QED
  BY <1>1, Zenon DEF Environment

LEMMA StartKeeps ==
    ASSUME IndInv, CountLaws, Start
    PROVE  IndInv'
<1>1. /\ TypeCluster /\ TypeClient /\ TypeHealth /\ TypeTask /\ TypeSup /\ TypeCall
      /\ TypeCounts /\ Causes /\ Drains /\ Idle /\ Ledger
  BY Zenon DEF IndInv, TypeOK
<1>2. UNCHANGED <<admission, call, drained, failures, decisions>>
  BY Zenon DEF Start, cluster, OnlySup
<1>3. TypeCall' /\ Drains'
  BY <1>1, <1>2, Zenon DEF TypeCall, Drains
<1>4. Quiet /\ \A c \in Callers : call[c].pc = "idle"
  BY <1>1, Zenon DEF Idle, Start
<1>5. TypeCluster'
  <2>1. ShardCount \in 0..ShardCount
    BY ClusterAssumption
  <2> QED
    BY <1>1, <1>2, <2>1, Zenon DEF Start, TypeCluster
<1>6. TypeClient' /\ \A i \in Shards : client'[i] = Launched
  BY Launches, Zenon DEF Start, TypeClient, ClientRecord
<1>7. \A i \in Shards : ~client'[i].completed /\ ~client'[i].stop_requested
  <2>1. ~Launched.completed /\ ~Launched.stop_requested
    BY SMTT(30) DEF Launched, NoClient
  <2> QED
    BY <1>6, <2>1, Zenon
<1>8. TypeHealth'
  <2>1. health' \in [Shards -> HealthRecord]
    BY <1>1, StatusWritten, Zenon DEF Start
  <2> QED
    BY <1>1, <2>1, HealthMapped, Zenon
<1>9. /\ TypeTask'
      /\ \A i \in Shards, k \in Slots : task'[i][k] # "error" /\ task'[i][k] # "ok"
  BY <1>1, <1>4, StartTasks, Zenon DEF Start
<1>10. TypeCounts'
  <2>1. env' \in Environment
    BY <1>1, StartSpends, Zenon DEF Start, TypeCounts
  <2> QED
    BY <1>1, <1>2, <2>1, CountsKept, Zenon
<1>11. Causes'
  BY <1>7, <1>9, Zenon DEF Causes
<1>12. TypeSup' /\ sup'.pc \in {"off", "pause"}
  <2>1. [pc |-> "pause", i |-> 0] \in [pc : {"off", "pause"}, i : {0}] /\ [pc |-> "pause", i |-> 0].pc = "pause"
    OBVIOUS
  <2>2. sup.pc = "off"
    BY <1>4, Zenon DEF Quiet
  <2>3. sup' = sup \/ sup' = [pc |-> "pause", i |-> 0]
    BY Zenon DEF Start
  <2>4. CASE sup' = sup
    BY <1>1, <2>2, <2>4, Zenon DEF TypeSup
  <2>5. CASE sup' = [pc |-> "pause", i |-> 0]
    BY <2>1, <2>5, Zenon DEF TypeSup
  <2> QED
    BY <2>3, <2>4, <2>5, Zenon
<1>13. Idle'
  BY Zenon DEF Idle, Start
<1>14. Ledger'
  <2>1. \A i \in Shards : Errored(i)' \subseteq Errored(i)
    BY <1>9, Zenon DEF Errored
  <2> QED
    BY <1>1, <1>2, <1>7, <1>12, <2>1, Restarted, Zenon
<1> QED
  BY <1>3, <1>4, <1>5, <1>6, <1>7, <1>8, <1>9, <1>10, <1>11, <1>12, <1>13, <1>14, Zenon DEF IndInv, TypeOK

LEMMA StartUnsupervisedKeeps ==
    ASSUME IndInv, CountLaws, StartUnsupervised
    PROVE  IndInv'
<1>1. /\ TypeCluster /\ TypeClient /\ TypeHealth /\ TypeTask /\ TypeSup /\ TypeCall
      /\ TypeCounts /\ Causes /\ Drains /\ Idle /\ Ledger
  BY Zenon DEF IndInv, TypeOK
<1>2. UNCHANGED <<admission, sup, call, drained, failures, decisions>>
  BY Zenon DEF StartUnsupervised, cluster, OnlySup
<1>3. TypeSup' /\ TypeCall' /\ Drains'
  BY <1>1, <1>2, Zenon DEF TypeSup, TypeCall, Drains
<1>4. Quiet /\ \A c \in Callers : call[c].pc = "idle"
  BY <1>1, Zenon DEF Idle, StartUnsupervised
<1>5. TypeCluster'
  <2>1. ShardCount \in 0..ShardCount
    BY ClusterAssumption
  <2> QED
    BY <1>1, <1>2, <2>1, Zenon DEF StartUnsupervised, TypeCluster
<1>6. TypeClient' /\ \A i \in Shards : client'[i] = [Launched EXCEPT !.stopping = TRUE, !.stop_requested = TRUE]
  BY Launches, Zenon DEF StartUnsupervised, TypeClient, ClientRecord
<1>7. \A i \in Shards : ~client'[i].completed /\ client'[i].stopping
  <2>1. /\ ~[Launched EXCEPT !.stopping = TRUE, !.stop_requested = TRUE].completed
        /\ [Launched EXCEPT !.stopping = TRUE, !.stop_requested = TRUE].stopping
    BY SMTT(30) DEF Launched, NoClient
  <2> QED
    BY <1>6, <2>1, Zenon
<1>8. TypeHealth'
  <2>1. health' \in [Shards -> HealthRecord]
    BY <1>1, StatusWritten, Zenon DEF StartUnsupervised
  <2> QED
    BY <1>1, <2>1, HealthMapped, Zenon
<1>9. /\ TypeTask'
      /\ \A i \in Shards, k \in Slots : task'[i][k] # "error" /\ task'[i][k] # "ok"
  BY <1>1, <1>4, StartTasks, Zenon DEF StartUnsupervised
<1>10. TypeCounts'
  <2>1. env' \in Environment
    <3>1. env.faults - 1 \in Nat
      BY <1>1, SMTT(30) DEF StartUnsupervised, TypeCounts, Environment
    <3>2. env' = [env EXCEPT !.starts = @ - 1, !.faults = env.faults - 1]
      BY <1>1, Zenon DEF StartUnsupervised, TypeCounts, Environment
    <3> QED
      BY <1>1, <3>1, <3>2, StartSpends, Zenon DEF StartUnsupervised, TypeCounts
  <2> QED
    BY <1>1, <1>2, <2>1, CountsKept, Zenon
<1>11. Causes'
  BY <1>7, <1>9, Zenon DEF Causes
<1>12. sup'.pc \in {"off", "pause"}
  BY <1>2, <1>4, Zenon DEF Quiet
<1>13. Idle'
  BY Zenon DEF Idle, StartUnsupervised
<1>14. Ledger'
  <2>1. \A i \in Shards : Errored(i)' \subseteq Errored(i)
    BY <1>9, Zenon DEF Errored
  <2> QED
    BY <1>1, <1>2, <1>7, <1>12, <2>1, Restarted, Zenon
<1> QED
  BY <1>3, <1>4, <1>5, <1>6, <1>7, <1>8, <1>9, <1>10, <1>11, <1>12, <1>13, <1>14, Zenon DEF IndInv, TypeOK

LEMMA StartFailsKeeps ==
    ASSUME IndInv, CountLaws, NEW i \in Shards, StartFails(i)
    PROVE  IndInv'
<1>1. /\ TypeCluster /\ TypeClient /\ TypeHealth /\ TypeTask /\ TypeSup /\ TypeCall
      /\ TypeCounts /\ Causes /\ Drains /\ Idle /\ Ledger
  BY Zenon DEF IndInv, TypeOK
<1>2. UNCHANGED <<started, admission, task, sup, call, drained, failures, decisions>>
  BY Zenon DEF StartFails, cluster, OnlySup
<1>3. TypeTask' /\ TypeSup' /\ TypeCall' /\ Drains' /\ Idle'
  BY <1>1, <1>2, Zenon DEF TypeTask, TypeSup, TypeCall, Drains, Idle, Quiet
<1>4. Quiet /\ \A c \in Callers : call[c].pc = "idle"
  BY <1>1, Zenon DEF Idle, StartFails
<1>5. TypeCluster'
  <2>1. i - 1 \in 0..ShardCount
    BY ClusterAssumption DEF Shards
  <2>2. (i > 1) \in BOOLEAN /\ (runtime_stop \/ i > 1) \in BOOLEAN
    BY DEF Shards
  <2> QED
    BY <1>1, <1>2, <2>1, <2>2, Zenon DEF StartFails, TypeCluster
<1>6. TypeClient'
  <2>1. ASSUME NEW j \in Shards PROVE client[j] \in ClientRecord
    BY <1>1, Zenon DEF TypeClient, ClientRecord
  <2>2. ASSUME NEW j \in Shards
        PROVE  (IF j < i THEN [Launched EXCEPT !.stopping = TRUE, !.stop_requested = TRUE]
                ELSE IF j = i /\ ~client[i].started
                     THEN [NoClient EXCEPT !.completed = TRUE, !.last_status = "error"]
                     ELSE client[j]) \in ClientRecord
    BY <2>1, Launches, Zenon
  <2>3. client' \in [Shards -> ClientRecord]
    BY <2>2, Zenon DEF StartFails
  <2> QED
    BY <2>3, Zenon DEF TypeClient, ClientRecord
<1>7. TypeHealth'
  <2>1. ASSUME NEW j \in Shards
        PROVE  [health[j] EXCEPT !.status = CASE j < i -> "STOPPING" [] j = i -> "ERROR"
                                              [] OTHER -> "STARTING"] \in HealthRecord
    <3>1. PICK s \in {"CREATED", "STARTING", "READY", "STOPPING", "STOPPED", "ERROR"} :
             s = CASE j < i -> "STOPPING" [] j = i -> "ERROR" [] OTHER -> "STARTING"
      <4>1. CASE j < i
        <5>1. j # i
          BY <4>1 DEF Shards
        <5> QED
          BY <4>1, <5>1
      <4>2. CASE j = i
        <5>1. ~(j < i)
          BY <4>2 DEF Shards
        <5> QED
          BY <4>2, <5>1
      <4>3. CASE ~(j < i) /\ j # i
        BY <4>3
      <4> QED
        BY <4>1, <4>2, <4>3
    <3> QED
      BY <1>1, <3>1, StatusWritten, Zenon
  <2>2. health' \in [Shards -> HealthRecord]
    BY <2>1, Zenon DEF StartFails
  <2> QED
    BY <1>1, <2>2, HealthMapped, Zenon
<1>8. TypeCounts'
  <2>1. PICK n : n = IF client[i].started THEN env.faults ELSE env.faults - 1
    OBVIOUS
  <2>2. env' = [env EXCEPT !.starts = @ - 1, !.faults = n]
    BY <1>1, <2>1, Zenon DEF StartFails, TypeCounts, Environment
  <2>3. env'.faults = n
    BY <1>1, <2>2, Zenon DEF TypeCounts, Environment
  <2>4. env.faults \in Nat
    BY <1>1, Zenon DEF TypeCounts, Environment
  <2>5. n >= 0
    BY <2>3, Zenon DEF StartFails
  <2>6. n \in Nat
    BY <2>1, <2>4, <2>5
  <2>7. env' \in Environment
    BY <1>1, <2>2, <2>6, StartSpends, Zenon DEF StartFails, TypeCounts
  <2> QED
    BY <1>1, <1>2, <2>7, CountsKept, Zenon
<1>9. Causes'
  <2>1. ASSUME NEW j \in Shards, j \notin drained, client'[j].stop_requested
        PROVE  client'[j].stopping
    <3>1. /\ [Launched EXCEPT !.stopping = TRUE, !.stop_requested = TRUE].stopping
          /\ ~[NoClient EXCEPT !.completed = TRUE, !.last_status = "error"].stop_requested
      BY SMTT(30) DEF Launched, NoClient
    <3>2. CASE j < i
      BY <3>1, <3>2, Zenon DEF StartFails
    <3>3. CASE ~(j < i) /\ j = i /\ ~client[i].started
      BY <2>1, <3>1, <3>3, Zenon DEF StartFails
    <3>4. CASE ~(j < i) /\ ~(j = i /\ ~client[i].started)
      <4>1. client'[j] = client[j]
        BY <3>4, Zenon DEF StartFails
      <4> QED
        BY <1>1, <2>1, <4>1, Zenon DEF Causes
    <3> QED
      BY <3>2, <3>3, <3>4, Zenon
  <2>2. ASSUME NEW j \in Shards, NEW k \in Slots PROVE task'[j][k] # "ok"
    BY <1>2, <1>4, Zenon DEF Quiet
  <2> QED
    BY <1>2, <2>1, <2>2, Zenon DEF Causes
<1>10. Ledger'
  <2>1. sup'.pc = "off"
    BY <1>2, <1>4, Zenon DEF Quiet
  <2>2. \A j \in Shards : Errored(j)' \subseteq Errored(j)
    BY <1>2, Zenon DEF Errored
  <2> QED
    BY <1>1, <1>2, <2>1, <2>2, Restarted, Zenon
<1> QED
  BY <1>3, <1>4, <1>5, <1>6, <1>7, <1>8, <1>9, <1>10, Zenon DEF IndInv, TypeOK

LEMMA WaitKeeps ==
    ASSUME IndInv, CountLaws, Wait
    PROVE  IndInv'
<1>1. /\ TypeCluster /\ TypeClient /\ TypeHealth /\ TypeTask /\ TypeSup /\ TypeCall
      /\ TypeCounts /\ Causes /\ Drains /\ Idle /\ Ledger
  BY Zenon DEF IndInv, TypeOK
<1>2. UNCHANGED <<supervisor_stop, admission, runtime_stop, task, sup, call, env, drained, failures, decisions>>
  BY Zenon DEF Wait, cluster, OnlySup
<1>3. TypeTask' /\ TypeSup' /\ TypeCall' /\ TypeCounts' /\ Drains'
  BY <1>1, <1>2, Zenon DEF TypeTask, TypeSup, TypeCall, TypeCounts, Drains
<1>4. TypeCluster'
  <2>1. 0 \in 0..ShardCount
    BY ClusterAssumption
  <2> QED
    BY <1>1, <1>2, <2>1, Zenon DEF Wait, TypeCluster
<1>5. /\ TypeClient'
      /\ \A i \in Shards : /\ client'[i].stopping <=> client[i].stopping
                           /\ client'[i].stop_requested <=> client[i].stop_requested
  <2>1. ASSUME NEW i \in Shards
        PROVE  /\ client[i] \in ClientRecord
               /\ client'[i] = [client[i] EXCEPT !.started = FALSE]
    BY <1>1, Zenon DEF TypeClient, ClientRecord, Wait
  <2>2. ASSUME NEW i \in Shards
        PROVE  /\ [client[i] EXCEPT !.started = FALSE] \in ClientRecord
               /\ client'[i].stopping <=> client[i].stopping
               /\ client'[i].stop_requested <=> client[i].stop_requested
    BY <2>1, Zenon DEF ClientRecord
  <2> QED
    BY <2>2, Zenon DEF TypeClient, ClientRecord, Wait
<1>6. TypeHealth'
  <2>1. health' \in [Shards -> HealthRecord]
    BY <1>1, StatusWritten, Zenon DEF Wait
  <2> QED
    BY <1>1, <2>1, HealthMapped, Zenon
<1>7. Causes'
  BY <1>1, <1>2, <1>5, Zenon DEF Causes
<1>8. Ledger'
  <2>1. sup'.pc = "off"
    BY <1>2, Zenon DEF Wait, Quiet
  <2>2. \A j \in Shards : Errored(j)' \subseteq Errored(j)
    BY <1>2, Zenon DEF Errored
  <2> QED
    BY <1>1, <1>2, <2>1, <2>2, Restarted, Zenon
<1>9. Idle'
  BY <1>2, Zenon DEF Idle, Quiet, Wait
<1> QED
  BY <1>3, <1>4, <1>5, <1>6, <1>7, <1>8, <1>9, Zenon DEF IndInv, TypeOK

-----------------------------------------------------------------------------
(* Every step keeps the inductive invariant. *)

LEMMA TasksKeep ==
    ASSUME IndInv, CountLaws, NEW i \in Shards, NEW k \in Slots,
           TaskStep(i, k) \/ Ready(i, k) \/ Fail(i, k)
    PROVE  IndInv'
BY ReturnKeeps, CompleteKeeps, LogKeeps, StopOnErrorKeeps, ReadyKeeps, FailKeeps, Zenon
   DEF TaskStep

LEMMA SupervisorKeeps == ASSUME IndInv, CountLaws, SupervisorStep PROVE IndInv'
BY PauseKeeps, ScanKeeps, JudgeKeeps, ForgetKeeps, DecideKeeps, DelayKeeps, SupCheckKeeps,
   SupSpawnKeeps, SupStatusKeeps, RecordedKeeps, Zenon DEF SupervisorStep

LEMMA CallStepKeeps == ASSUME IndInv, CountLaws, NEW c \in Callers, CallStep(c) PROVE IndInv'
BY StopGatewayKeeps, CheckStartKeeps, SpawnTaskKeeps, SpawnStatusKeeps, RequestReconnectKeeps,
   CallFailedKeeps, StopClientKeeps, Zenon DEF CallStep

LEMMA CallsKeep == ASSUME IndInv, CountLaws, NEW c \in Callers, Calls(c) PROVE IndInv'
<1>1. env.shards \subseteq Shards
  BY EnvShards, Zenon DEF IndInv, TypeOK
<1>2. CASE Stop(c) \/ SetAdmission(c)
  BY <1>2, StopKeeps, SetAdmissionKeeps, Zenon
<1>3. ASSUME NEW i \in env.shards,
             DrainShard(c, i) \/ ResumeShard(c, i) \/ ReconnectShard(c, i) \/ RearmShard(c, i)
      PROVE  IndInv'
  <2>1. i \in Shards
    BY <1>1, <1>3, Zenon
  <2> QED
    BY <1>3, <2>1, DrainShardKeeps, ResumeShardKeeps, ReconnectShardKeeps, RearmShardKeeps, Zenon
<1> QED
  BY <1>2, <1>3, Zenon DEF Calls

LEMMA NextKeeps == ASSUME IndInv, CountLaws, Next PROVE IndInv'
<1>1. CASE Start \/ StartUnsupervised \/ Wait \/ \E i \in Shards : StartFails(i)
  BY <1>1, StartKeeps, StartUnsupervisedKeeps, WaitKeeps, StartFailsKeeps, Zenon
<1>2. CASE SupervisorStep
  BY <1>2, SupervisorKeeps, Zenon
<1>3. CASE \E i \in Shards, k \in Slots : TaskStep(i, k) \/ Ready(i, k) \/ Fail(i, k)
  BY <1>3, TasksKeep, Zenon
<1>4. CASE \E c \in Callers : CallStep(c) \/ Calls(c)
  BY <1>4, CallStepKeeps, CallsKeep, Zenon
<1> QED
  BY <1>1, <1>2, <1>3, <1>4, Zenon DEF Next

LEMMA StutterKeeps == ASSUME IndInv, CountLaws, UNCHANGED vars PROVE IndInv'
<1>1. UNCHANGED <<started, started_count, supervisor_stop, admission, runtime_stop, client,
                  health, task, sup, call, env, drained, failures, decisions>>
  BY Zenon DEF vars, cluster
<1>2. TypeOK'
  BY <1>1, Zenon DEF IndInv, TypeOK, TypeCluster, TypeClient, TypeHealth, TypeTask, TypeSup,
     TypeCall, TypeCounts
<1>3. Causes' /\ Drains'
  BY <1>1, Zenon DEF IndInv, Causes, Drains
<1>4. Idle'
  BY <1>1, Zenon DEF IndInv, Idle, Quiet
<1>5. Ledger'
  BY <1>1, LedgerSame, Zenon DEF IndInv, TypeOK
<1> QED
  BY <1>2, <1>3, <1>4, <1>5, Zenon DEF IndInv

LEMMA InitHolds == ASSUME CountLaws, Init PROVE IndInv
<1>1. TypeCluster
  <2>1. ShardCount \in Nat
    BY ClusterAssumption, Zenon
  <2>2. 0 \in 0..ShardCount
    BY <2>1
  <2> QED
    BY <2>2, Zenon DEF Init, TypeCluster
<1>2. TypeClient
  BY Launches, Zenon DEF Init, TypeClient, ClientRecord
<1>3. TypeHealth
  BY DEF Init, TypeHealth
<1>4. TypeTask
  BY Zenon DEF Init, TypeTask
<1>5. TypeSup
  BY DEF Init, TypeSup
<1>6. TypeCall
  BY Zenon DEF Init, TypeCall
<1>7. TypeCounts
  <2>1. 0 \in Nat
    OBVIOUS
  <2> QED
    BY <2>1, ClusterAssumption, Zenon DEF Init, TypeCounts
<1>8. Quiet /\ \A c \in Callers : call[c].pc = "idle"
  <2>1. [pc |-> "off", i |-> 0].pc = "off" /\ IdleCall.pc = "idle"
    BY DEF IdleCall
  <2> QED
    BY <2>1, Zenon DEF Init, Quiet
<1>9. Causes
  <2>1. ~NoClient.stop_requested
    BY DEF NoClient
  <2>2. \A i \in Shards : client[i] = NoClient
    BY Zenon DEF Init
  <2>3. \A i \in Shards, k \in Slots : task[i][k] # "ok"
    BY <1>8, Zenon DEF Quiet
  <2> QED
    BY <2>1, <2>2, <2>3, Zenon DEF Causes
<1>10. Drains
  <2>1. \A c \in Callers : call[c].pc # "stop_gateway"
    BY <1>8, Zenon
  <2> QED
    BY <2>1, Zenon DEF Drains
<1>11. Ledger
  <2> SUFFICES ASSUME NEW i \in Shards PROVE decisions[i] + Unjudged(i) <= failures[i]
    BY Zenon DEF Ledger
  <2>1. Errored(i) = {}
    BY <1>8, Zenon DEF Errored, Quiet
  <2>2. ~Held(i) /\ ~Published(i)
    BY <1>8, Zenon DEF Held, Published, Past, Quiet
  <2>3. Cardinality(Errored(i)) = 0
    BY <2>1, Zenon DEF CountLaws
  <2>4. One(Held(i)) = 0 /\ One(Published(i)) = 0
    BY <2>2, Zenon DEF One
  <2>5. decisions[i] = 0 /\ failures[i] = 0
    BY Zenon DEF Init
  <2> QED
    BY <2>3, <2>4, <2>5 DEF Unjudged
<1> QED
  BY <1>1, <1>2, <1>3, <1>4, <1>5, <1>6, <1>7, <1>8, <1>9, <1>10, <1>11, Zenon
     DEF IndInv, TypeOK, Idle

-----------------------------------------------------------------------------
(* The theorems. *)

INSTANCE FiniteSetTheorems

LEMMA CountLawsHold == CountLaws
<1>1. IsFiniteSet(Slots)
  <2>1. MaxTasks \in Int /\ 1 \in Int
    BY ClusterAssumption
  <2> QED
    BY <2>1, FS_Interval, Zenon DEF Slots
<1>2. \A S \in SUBSET Slots : IsFiniteSet(S)
  BY <1>1, FS_Subset, Zenon
<1>3. \A S \in SUBSET Slots : Cardinality(S) \in Nat
  BY <1>2, FS_CardinalityType, Zenon
<1>4. \A S, T \in SUBSET Slots : S \subseteq T => Cardinality(S) <= Cardinality(T)
  BY <1>2, FS_Subset, Zenon
<1>5. \A S \in SUBSET Slots, k \in Slots : k \in S => Cardinality(S \ {k}) = Cardinality(S) - 1
  BY <1>2, FS_RemoveElement, Zenon
<1>6. \A S \in SUBSET Slots, k \in Slots : k \notin S => Cardinality(S \cup {k}) = Cardinality(S) + 1
  BY <1>2, FS_AddElement, Zenon
<1>7. Cardinality({}) = 0
  BY FS_EmptySet, Zenon
<1> QED
  BY <1>3, <1>4, <1>5, <1>6, <1>7, Zenon DEF CountLaws

(* Init and every step of the cluster keep the inductive invariant. *)
LEMMA Inductive == Spec => []IndInv
<1>1. Init => IndInv
  BY CountLawsHold, InitHolds, Zenon
<1>2. IndInv /\ [Next]_vars => IndInv'
  BY CountLawsHold, NextKeeps, StutterKeeps, Zenon
<1> QED
  BY <1>1, <1>2, PTL DEF Spec

(* The flags, the health table, the tasks, the supervisor and the callers  *)
(* keep their types, whatever the number of shards and callers.            *)
THEOREM ClusterTypes == Spec => []TypeOK
<1>1. IndInv => TypeOK
  BY Zenon DEF IndInv
<1> QED
  BY <1>1, Inductive, PTL

(* The supervisor decides at most once on each failure of a gateway task   *)
(* of a shard nobody drained, whatever resumes, reconnects, stops and      *)
(* failing spawns interleave with its passes (cluster_supervisor.c,        *)
(* cluster_supervisor_apply.c, gateway.c).                                 *)
THEOREM FailuresAreJudgedOnce == Spec => []EachFailureJudgedOnce
<1>1. IndInv => EachFailureJudgedOnce
  <2> SUFFICES ASSUME IndInv, NEW i \in Shards, i \notin drained PROVE decisions[i] <= failures[i]
    BY Zenon DEF EachFailureJudgedOnce
  <2>1. decisions[i] + Unjudged(i) <= failures[i]
    BY Zenon DEF IndInv, Ledger
  <2>2. decisions[i] \in Nat /\ failures[i] \in Nat
    BY Zenon DEF IndInv, TypeOK, TypeCounts
  <2>3. Cardinality(Errored(i)) \in Nat
    BY CountLawsHold, Counts, Zenon
  <2>4. One(Held(i)) \in Nat /\ One(Published(i)) \in Nat
    BY DEF One
  <2>5. \A d, c, h, p, f \in Nat : d + (c + h + p) <= f => d <= f
    OBVIOUS
  <2> QED
    BY <2>1, <2>2, <2>3, <2>4, <2>5, Zenon DEF Unjudged
<1> QED
  BY <1>1, Inductive, PTL
====
