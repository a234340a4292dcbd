------------------------ MODULE InteractionRegistry ------------------------
(***************************************************************************)
(* The registry of live interactions and of tombstones of retired ones     *)
(* (src/src/app/app_interaction_registry.c).  A delivery is registered     *)
(* before its handler runs and retired when its action queue is freed; the *)
(* tombstone it leaves makes a redelivery within the time to live a        *)
(* duplicate.  The tombstone table is an array of fixed size and retire    *)
(* has no way to fail: registration has to keep a slot for it.             *)
(*                                                                         *)
(* A flow is one delivery; flows with one identity (application,           *)
(* interaction and token) are redeliveries of one interaction.             *)
(***************************************************************************)
EXTENDS Integers, FiniteSets

CONSTANTS
  Flows,          \* deliveries
  Identities,     \* application id, interaction id and token
  Identity,       \* the identity of each flow
  MaxLive,        \* client->interaction_max_live_queues
  MaxTombstones,  \* client->interaction_max_tombstones
  Ttl,            \* client->interaction_tombstone_ttl_ms
  MaxTime,        \* bound: the clock
  None

Slots == 1 .. MaxTombstones
Tombstone == [identity : Identities, expiry : Nat]

ASSUME RegistryAssumption ==
  /\ Identity \in [Flows -> Identities]
  /\ MaxLive \in Nat /\ MaxTombstones \in Nat /\ Ttl \in Nat /\ MaxTime \in Nat
  /\ None \notin Tombstone
  /\ None \notin Nat

VARIABLES
  live,        \* the flows of client->interaction_live_entries
  tombstones,  \* client->interaction_tombstones; None for an unused slot
  phase,       \* where each flow is
  now,         \* dcc_rest_now_ms
  retired_at   \* history: when an identity was last retired

vars == <<live, tombstones, phase, now, retired_at>>

Init ==
  /\ live = {}
  /\ tombstones = [i \in Slots |-> None]
  /\ phase = [f \in Flows |-> "new"]
  /\ now = 0
  /\ retired_at = [d \in Identities |-> None]

Used(table) == {i \in Slots : table[i] # None}

(* expire_locked: the slots whose time has come are cleared.               *)
ExpiredEarly(i) == tombstones[i] # None /\ now + 1 >= tombstones[i].expiry

Expired(i) == tombstones[i] # None /\ now >= tombstones[i].expiry

ExpireLocked == [i \in Slots |-> IF Expired(i) THEN None ELSE tombstones[i]]

Buried(table, d) == \E i \in Used(table) : table[i].identity = d

IsLiveTwice(d) == Cardinality({f \in live : Identity[f] = d}) > 1

IsLive(d) == \E f \in live : Identity[f] = d

HasRoomNow(table) ==
  /\ Cardinality(live) < MaxLive
  /\ Cardinality(Used(table)) < MaxTombstones

HasRoom(table) ==
  /\ Cardinality(live) < MaxLive
  /\ Cardinality(Used(table)) < MaxTombstones
  /\ Cardinality(live) < MaxTombstones - Cardinality(Used(table))

(* Registration: the sweep happens whatever the answer.  A refused or      *)
(* duplicate flow is destroyed by dcc_flow_create and was never registered.*)
Register(f) ==
  /\ phase[f] = "new"
  /\ tombstones' = ExpireLocked
  /\ \/ /\ Buried(ExpireLocked, Identity[f]) \/ IsLive(Identity[f])
        /\ phase' = [phase EXCEPT ![f] = "duplicate"]
        /\ UNCHANGED live
     \/ /\ ~Buried(ExpireLocked, Identity[f]) /\ ~IsLive(Identity[f])
        /\ ~HasRoom(ExpireLocked)
        /\ phase' = [phase EXCEPT ![f] = "refused"]
        /\ UNCHANGED live
     \/ /\ ~Buried(ExpireLocked, Identity[f]) /\ ~IsLive(Identity[f])
        /\ HasRoom(ExpireLocked)
        /\ phase' = [phase EXCEPT ![f] = "live"]
        /\ live' = live \cup {f}
  /\ UNCHANGED <<now, retired_at>>

(* The first unused slot takes the tombstone of d; without an unused slot  *)
(* none is written.                                                        *)
Bury(d) ==
  IF \E i \in Slots : tombstones[i] = None
  THEN LET i == CHOOSE j \in Slots :
                  tombstones[j] = None /\ \A k \in 1 .. j - 1 : tombstones[k] # None
       IN [tombstones EXCEPT ![i] = [identity |-> d, expiry |-> now + Ttl]]
  ELSE tombstones

(* Retirement: the live entry goes and a tombstone comes.                  *)
Retire(f) ==
  /\ phase[f] = "live"
  /\ phase' = [phase EXCEPT ![f] = "retired"]
  /\ live' = live \ {f}
  /\ tombstones' = Bury(Identity[f])
  /\ retired_at' = [retired_at EXCEPT ![Identity[f]] = now]
  /\ UNCHANGED now

Tick ==
  /\ now < MaxTime
  /\ now' = now + 1
  /\ UNCHANGED <<live, tombstones, phase, retired_at>>

Next ==
  \/ \E f \in Flows : Register(f) \/ Retire(f)
  \/ Tick

Spec == Init /\ [][Next]_vars

-----------------------------------------------------------------------------
Phases == {"new", "live", "duplicate", "refused", "retired"}

(* The variables keep their types, and the live entries are the flows that *)
(* are registered.                                                         *)
TypeOK ==
  /\ live = {f \in Flows : phase[f] = "live"}
  /\ IsFiniteSet(live)
  /\ tombstones \in [Slots -> Tombstone \cup {None}]
  /\ phase \in [Flows -> Phases]
  /\ now \in Nat
  /\ retired_at \in [Identities -> Nat \cup {None}]

(* "live reservations + unexpired tombstones <= max_tombstones": every     *)
(* live entry has a tombstone slot kept for it, so that retire, which      *)
(* cannot fail, always finds an unused one.                                *)
SlotKeptForEachLive ==
  /\ Cardinality(live) + Cardinality(Used(tombstones)) <= MaxTombstones
  /\ Cardinality(live) <= MaxLive

(* The tombstone of an identity is in the table until its time to live has *)
(* passed: the sweeps of other registrations never take it early and no    *)
(* retirement overwrites it.                                               *)
RetiredIsBuried ==
  \A d \in Identities :
    retired_at[d] # None /\ now < retired_at[d] + Ttl => Buried(tombstones, d)

(* No two deliveries of one interaction are live together.                 *)
OneLivePerIdentity ==
  \A f, g \in live : Identity[f] = Identity[g] => f = g

(* A delivery is accepted only when its interaction is not live and was    *)
(* not retired within the time to live.                                    *)
NoRedelivery ==
  [][\A f \in Flows : phase[f] # "live" /\ phase'[f] = "live" =>
       LET d == Identity[f] IN
         /\ ~IsLive(d)
         /\ retired_at[d] # None => now >= retired_at[d] + Ttl]_vars
=============================================================================
