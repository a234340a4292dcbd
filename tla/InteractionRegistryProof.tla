---------------------- MODULE InteractionRegistryProof ----------------------
(***************************************************************************)
(* Proofs about the interaction registry, for any number of deliveries,    *)
(* identities, slots and any time to live.                                 *)
(***************************************************************************)
EXTENDS InteractionRegistry, FiniteSetTheorems, WellFoundedInduction, TLAPS

(* A tombstone expires no earlier than a time to live after its identity   *)
(* was last retired: what makes RetiredIsBuried survive the sweeps.        *)
BuriedUntil ==
  \A d \in Identities :
    retired_at[d] # None /\ now < retired_at[d] + Ttl =>
      \E i \in Slots : /\ tombstones[i] # None
                       /\ tombstones[i].identity = d
                       /\ tombstones[i].expiry = retired_at[d] + Ttl

IndInv ==
  /\ TypeOK
  /\ SlotKeptForEachLive
  /\ BuriedUntil
  /\ OneLivePerIdentity

(* The used slots of any table are a finite set.                           *)
LEMMA UsedFinite ==
  ASSUME NEW table
  PROVE  /\ IsFiniteSet(Used(table))
         /\ Cardinality(Used(table)) \in Nat
         /\ Cardinality(Used(table)) <= MaxTombstones
<1>1. IsFiniteSet(Slots) /\ Cardinality(Slots) = MaxTombstones
  <2>1. MaxTombstones \in Int /\ 1 \in Int
    BY RegistryAssumption
  <2>2. IsFiniteSet(Slots) /\ Cardinality(Slots) = IF 1 > MaxTombstones THEN 0 ELSE MaxTombstones - 1 + 1
    BY <2>1, FS_Interval DEF Slots
  <2> QED
    BY <2>1, <2>2, RegistryAssumption
<1>2. Used(table) \subseteq Slots
  BY DEF Used
<1> QED
  BY <1>1, <1>2, FS_Subset, FS_CardinalityType

(* A sweep only clears slots.                                              *)
LEMMA SweepShrinks ==
  ASSUME TypeOK
  PROVE  /\ ExpireLocked \in [Slots -> Tombstone \cup {None}]
         /\ Cardinality(Used(ExpireLocked)) <= Cardinality(Used(tombstones))
<1>1. Used(ExpireLocked) \subseteq Used(tombstones)
  BY DEF Used, ExpireLocked, Expired
<1>2. ExpireLocked \in [Slots -> Tombstone \cup {None}]
  BY DEF ExpireLocked, TypeOK
<1> QED
  BY <1>1, <1>2, UsedFinite, FS_Subset

(* With an unused slot, a retirement writes its tombstone into one of them *)
(* and changes no other slot.                                              *)
LEMMA BuryWrites ==
  ASSUME TypeOK, NEW d \in Identities, NEW s \in Slots, tombstones[s] = None
  PROVE  \E i \in Slots :
           /\ tombstones[i] = None
           /\ Bury(d) = [tombstones EXCEPT ![i] = [identity |-> d, expiry |-> now + Ttl]]
<1> DEFINE S == {j \in Slots : tombstones[j] = None}
           P(j) == tombstones[j] = None /\ \A k \in 1 .. j - 1 : tombstones[k] # None
<1>1. PICK n \in S : \A m \in S : n <= m
  <2>1. S \subseteq Nat /\ S # {}
    BY RegistryAssumption DEF Slots
  <2>2. PICK x \in S : \A y \in S : ~ (<<y, x>> \in OpToRel(<, Nat))
    <3> HIDE DEF S
    <3> QED
      BY <2>1, NatLessThanWellFounded, WFMin, Zenon
  <2>3. \A y \in S : ~(y < x)
    BY <2>1, <2>2, Zenon DEF OpToRel
  <2> QED
    BY <2>1, <2>3
<1>2. n \in Slots /\ P(n)
  <2>1. \A k \in 1 .. n - 1 : k \in Slots /\ ~(n <= k)
    BY RegistryAssumption DEF Slots
  <2> QED
    BY <1>1, <2>1
<1>3. P(CHOOSE j \in Slots : P(j)) /\ (CHOOSE j \in Slots : P(j)) \in Slots
  BY <1>2, Zenon
<1> QED
  BY <1>3, Zenon DEF Bury

(* The initial state satisfies the inductive invariant.                    *)
LEMMA IndInit ==
  Init => IndInv
<1> SUFFICES ASSUME Init PROVE IndInv
  OBVIOUS
<1>1. live = {} /\ Cardinality(live) = 0 /\ IsFiniteSet(live)
  BY FS_EmptySet DEF Init
<1>2. TypeOK
  BY <1>1, RegistryAssumption DEF Init, TypeOK, Phases
<1>3. Used(tombstones) = {}
  BY DEF Init, Used
<1>4. SlotKeptForEachLive
  BY <1>1, <1>3, FS_EmptySet, RegistryAssumption DEF SlotKeptForEachLive
<1>5. BuriedUntil /\ OneLivePerIdentity
  BY <1>1 DEF Init, BuriedUntil, OneLivePerIdentity
<1> QED
  BY <1>2, <1>4, <1>5 DEF IndInv

(* Every step preserves the inductive invariant.  Registration adds a live *)
(* entry only with a slot to spare; retirement turns one entry into one    *)
(* tombstone; a sweep clears only what the clock has passed.               *)
LEMMA IndStep ==
  IndInv /\ [Next]_vars => IndInv'
<1> SUFFICES ASSUME IndInv, [Next]_vars PROVE IndInv'
  OBVIOUS
<1> USE RegistryAssumption
<1>a. TypeOK /\ SlotKeptForEachLive /\ BuriedUntil /\ OneLivePerIdentity
  BY DEF IndInv
<1>n. /\ Cardinality(live) \in Nat
      /\ \A table : Cardinality(Used(table)) \in Nat
      /\ Cardinality(live) + Cardinality(Used(tombstones)) <= MaxTombstones
      /\ Cardinality(live) <= MaxLive
  BY <1>a, UsedFinite, FS_CardinalityType DEF TypeOK, SlotKeptForEachLive
<1>1. ASSUME NEW f \in Flows, Register(f) PROVE IndInv'
  <2>1. /\ tombstones' = ExpireLocked /\ now' = now /\ retired_at' = retired_at
        /\ phase[f] = "new"
        /\ \/ live' = live /\ phase' \in [Flows -> Phases]
                /\ \A g \in Flows : phase'[g] = "live" <=> phase[g] = "live"
           \/ /\ ~IsLive(Identity[f]) /\ HasRoom(ExpireLocked)
              /\ live' = live \cup {f} /\ phase' = [phase EXCEPT ![f] = "live"]
    BY <1>1, <1>a DEF Register, TypeOK, Phases
  <2>2. ExpireLocked \in [Slots -> Tombstone \cup {None}]
        /\ Cardinality(Used(ExpireLocked)) <= Cardinality(Used(tombstones))
    BY <1>a, SweepShrinks
  <2>3. f \notin live /\ IsFiniteSet(live')
        /\ (live' = live \cup {f} => Cardinality(live') = Cardinality(live) + 1)
    <3>1. f \notin live /\ IsFiniteSet(live)
      BY <2>1, <1>a DEF TypeOK
    <3>2. IsFiniteSet(live \cup {f}) /\ Cardinality(live \cup {f}) = Cardinality(live) + 1
      BY <3>1, FS_AddElement, SMTT(30)
    <3> QED
      BY <2>1, <3>1, <3>2, SMTT(30)
  <2>4. TypeOK'
    BY <2>1, <2>2, <2>3, <1>a DEF TypeOK, Phases
  <2>5. SlotKeptForEachLive'
    BY <2>1, <2>2, <2>3, <1>n, SMTT(30) DEF SlotKeptForEachLive, HasRoom
  <2>6. BuriedUntil'
    BY <2>1, <1>a DEF BuriedUntil, ExpireLocked, Expired, TypeOK
  <2>7. OneLivePerIdentity'
    BY <2>1, <1>a DEF OneLivePerIdentity, IsLive
  <2> QED
    BY <2>4, <2>5, <2>6, <2>7, SMTT(30) DEF IndInv
<1>2. ASSUME NEW f \in Flows, Retire(f) PROVE IndInv'
  <2>1. /\ live' = live \ {f} /\ phase' = [phase EXCEPT ![f] = "retired"]
        /\ tombstones' = Bury(Identity[f]) /\ now' = now
        /\ retired_at' = [retired_at EXCEPT ![Identity[f]] = now]
        /\ f \in live /\ Identity[f] \in Identities
    BY <1>2, <1>a DEF Retire, TypeOK
  <2>2. IsFiniteSet(live') /\ Cardinality(live') = Cardinality(live) - 1
        /\ Cardinality(live) >= 1
    <3>1. IsFiniteSet(live) /\ f \in live
      BY <2>1, <1>a DEF TypeOK
    <3>2. IsFiniteSet(live \ {f}) /\ Cardinality(live \ {f}) = Cardinality(live) - 1
      BY <3>1, FS_RemoveElement, Zenon
    <3>3. Cardinality(live \ {f}) \in Nat
      BY <3>2, FS_CardinalityType
    <3> QED
      BY <2>1, <3>2, <3>3, <1>n, SMTT(30)
  <2>3. \E s \in Slots : tombstones[s] = None
    <3> SUFFICES ASSUME \A s \in Slots : tombstones[s] # None PROVE FALSE
      OBVIOUS
    <3>1. Used(tombstones) = Slots
      BY DEF Used
    <3>2. Cardinality(1 .. MaxTombstones) = MaxTombstones
      BY FS_Interval
    <3> QED
      BY <3>1, <3>2, <2>2, <1>n DEF Slots
  <2>4. PICK i \in Slots :
           /\ tombstones[i] = None
           /\ tombstones' = [tombstones EXCEPT ![i] =
                [identity |-> Identity[f], expiry |-> now + Ttl]]
    BY <2>1, <2>3, <1>a, BuryWrites
  <2>5. [identity |-> Identity[f], expiry |-> now + Ttl] \in Tombstone
    BY <2>1, <1>a, SMTT(30) DEF Tombstone, TypeOK
  <2>6. TypeOK'
    BY <2>1, <2>2, <2>4, <2>5, <1>a, SMTT(30) DEF TypeOK, Phases
  <2>7. SlotKeptForEachLive'
    <3>1. Used(tombstones)' = Used(tombstones) \cup {i} /\ i \notin Used(tombstones)
      BY <2>4, <2>5, <1>a, SMTT(30) DEF Used, TypeOK
    <3>2. Cardinality(Used(tombstones)') = Cardinality(Used(tombstones)) + 1
      BY <3>1, UsedFinite, FS_AddElement, Zenon
    <3> QED
      BY <3>2, <2>2, <1>n, SMTT(30) DEF SlotKeptForEachLive
  <2>8. BuriedUntil'
    BY <2>1, <2>4, <2>5, <1>a, SMTT(30) DEF BuriedUntil, TypeOK
  <2>9. OneLivePerIdentity'
    BY <2>1, <1>a, SMTT(30) DEF OneLivePerIdentity
  <2> QED
    BY <2>6, <2>7, <2>8, <2>9, SMTT(30) DEF IndInv
<1>3. CASE Tick
  BY <1>3, <1>a, SMTT(30) DEF Tick, IndInv, TypeOK, SlotKeptForEachLive, BuriedUntil,
                    OneLivePerIdentity, Used
<1>4. CASE UNCHANGED vars
  BY <1>4, <1>a DEF vars, IndInv, TypeOK, SlotKeptForEachLive, BuriedUntil,
                    OneLivePerIdentity, Used
<1> QED
  BY <1>1, <1>2, <1>3, <1>4, SMTT(30) DEF Next

(* The inductive invariant holds throughout.                               *)
LEMMA IndInvariant ==
  Spec => []IndInv
<1> QED
  BY IndInit, IndStep, PTL DEF Spec

(* The registry's variables keep their types.                              *)
THEOREM TypeCorrect ==
  Spec => []TypeOK
<1>1. IndInv => TypeOK
  BY DEF IndInv
<1> QED
  BY <1>1, IndInvariant, PTL

(* Registration keeps a tombstone slot for every live entry, so that       *)
(* dcc_app_interaction_registry_retire never finds the table full.         *)
THEOREM RetireAlwaysFindsASlot ==
  Spec => []SlotKeptForEachLive
<1>1. IndInv => SlotKeptForEachLive
  BY DEF IndInv
<1> QED
  BY <1>1, IndInvariant, PTL

(* A retired interaction has its tombstone for the whole time to live.     *)
THEOREM RetiredStaysBuried ==
  Spec => []RetiredIsBuried
<1>1. IndInv => RetiredIsBuried
  BY DEF IndInv, BuriedUntil, RetiredIsBuried, Buried, Used
<1> QED
  BY <1>1, IndInvariant, PTL

(* No two deliveries of one interaction are handled together.              *)
THEOREM DeliveriesAreExclusive ==
  Spec => []OneLivePerIdentity
<1>1. IndInv => OneLivePerIdentity
  BY DEF IndInv
<1> QED
  BY <1>1, IndInvariant, PTL

(* dcc_app_interaction_registry_register accepts no redelivery within the  *)
(* time to live.                                                           *)
THEOREM RedeliveriesAreRefused ==
  Spec => NoRedelivery
<1> DEFINE Accepts(f) ==
      LET d == Identity[f] IN
        /\ ~IsLive(d)
        /\ retired_at[d] # None => now >= retired_at[d] + Ttl
<1>1. IndInv /\ [Next]_vars =>
        [\A f \in Flows : phase[f] # "live" /\ phase'[f] = "live" => Accepts(f)]_vars
  <2> SUFFICES ASSUME IndInv, Next, NEW f \in Flows,
                      phase[f] # "live", phase'[f] = "live"
               PROVE  Accepts(f)
    OBVIOUS
  <2>1. PICK g \in Flows : Register(g) \/ Retire(g) \/ Tick
    BY SMTT(30) DEF Next
  <2>2. Register(g) /\ g = f
    BY <2>1 DEF IndInv, TypeOK, Register, Retire, Tick, Phases
  <2>3. ~Buried(ExpireLocked, Identity[f]) /\ ~IsLive(Identity[f])
    BY <2>2 DEF Register, IndInv, TypeOK
  <2>4. Identity[f] \in Identities /\ now \in Nat /\ Ttl \in Nat
        /\ retired_at \in [Identities -> Nat \cup {None}]
        /\ tombstones \in [Slots -> Tombstone \cup {None}]
    BY RegistryAssumption DEF IndInv, TypeOK
  <2>5. ASSUME retired_at[Identity[f]] # None, now < retired_at[Identity[f]] + Ttl
        PROVE  FALSE
    <3>1. PICK i \in Slots : /\ tombstones[i] # None
                             /\ tombstones[i].identity = Identity[f]
                             /\ tombstones[i].expiry = retired_at[Identity[f]] + Ttl
      BY <2>4, <2>5 DEF IndInv, BuriedUntil
    <3>2. ExpireLocked[i] = tombstones[i]
      BY <3>1, <2>4, <2>5 DEF ExpireLocked, Expired
    <3> QED
      BY <3>1, <3>2, <2>3 DEF Buried, Used
  <2> QED
    BY <2>3, <2>4, <2>5
<1> QED
  BY <1>1, IndInvariant, PTL DEF Spec, NoRedelivery
=============================================================================
