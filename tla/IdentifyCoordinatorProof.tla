---------------------- MODULE IdentifyCoordinatorProof ----------------------
(***************************************************************************)
(* The cluster's IDENTIFY reservations, for every number of shards, every   *)
(* concurrency, every limit Discord may report and every clock: the counter *)
(* of session starts is exact until its first refill, and the reservations  *)
(* of a bucket are spaced.                                                  *)
(***************************************************************************)
EXTENDS IdentifyCoordinator, TLAPS

\* What a bucket's entry says of its last reservation.  BucketSpacing follows
\* from it, as a grant needs bucket_next to have passed.
NextIsSpaced ==
    \A b \in Buckets : last[b] # Never => bucket_next[b] = last[b] + Spacing

Inv == TypeOK /\ ReportedLimitHolds /\ NextIsSpaced

\* A shard's bucket is one of the coordinator's, capped or not.
LEMMA ConcurrencyType == Concurrency \in Nat \ {0}
  BY CoordinatorAssumption DEF Concurrency

LEMMA BucketType == ASSUME NEW s \in Shards PROVE Bucket(s) \in Buckets
<1>1. s \in Nat
  BY CoordinatorAssumption DEF Shards
<1>2. s % Concurrency \in 0..(Concurrency - 1)
  BY <1>1, ConcurrencyType
<1> QED
  BY <1>2 DEF Bucket, Buckets

LEMMA DelayType == ASSUME NEW s \in Shards PROVE IdentifyDelay(s) \in Nat
<1> DEFINE c == IF MaxConcurrency = 0 THEN 1 ELSE MaxConcurrency
<1>1. s \in Nat /\ c \in Nat \ {0} /\ Spacing \in Nat
  BY CoordinatorAssumption DEF Shards
<1> HIDE DEF c
<1>2. s \div c \in Nat
  BY <1>1
<1>3. (s \div c) * Spacing \in Nat
  BY <1>1, <1>2
<1> QED
  BY <1>3 DEF IdentifyDelay, c

LEMMA InvInit == Init => Inv
<1> SUFFICES ASSUME Init PROVE Inv
  OBVIOUS
<1>1. PICK l \in Limits \cup {Unknown} :
         /\ remaining = l.remaining /\ total = l.total /\ reset_at = l.reset_at
         /\ own = [s \in Shards |-> [remaining |-> l.remaining, reset_at |-> l.reset_at,
                                     delay |-> IdentifyDelay(s)]]
         /\ allowance = IF l.total = 0 \/ l.reset_at = 0 THEN Never ELSE l.remaining
  BY DEF Init
<1>2. l.remaining \in Nat /\ l.total \in Nat /\ l.reset_at \in Nat
  BY CoordinatorAssumption DEF Unknown
<1>3. /\ now = 1 /\ used = 0
      /\ bucket_next = [b \in Buckets |-> 0]
      /\ shard = [s \in Shards |-> Idle]
      /\ last = [b \in Buckets |-> Never]
  BY DEF Init
<1>4. TypeOK
  BY <1>1, <1>2, <1>3, DelayType DEF TypeOK, Idle, PCs
<1>5. ReportedLimitHolds
  BY <1>1, <1>2, <1>3 DEF ReportedLimitHolds
<1>6. NextIsSpaced
  BY <1>3 DEF NextIsSpaced
<1> QED
  BY <1>4, <1>5, <1>6 DEF Inv

\* A grant was possible only because the bucket's slot had come, and only with a
\* session start left while the reported limit stands.
LEMMA GrantFacts ==
  ASSUME Inv, NEW s \in Shards, Reserve(s)
  PROVE  /\ shard'[s].pc = "granted" \/ shard'[s].pc = "waiting"
         /\ shard'[s].pc = "granted" =>
               /\ Grant(s, shard[s].at)
               /\ bucket_next[Bucket(s)] <= shard[s].at
               /\ LimitDelay(shard[s].at) = 0
         /\ shard'[s].pc = "waiting" =>
               /\ \E d \in Nat : Refuse(s, d)
               /\ remaining' = Left(shard[s].at)
               /\ used' = IF Refills(shard[s].at) THEN 0 ELSE used
<1> DEFINE t == shard[s].at
           ld == LimitDelay(t)
           bd == BucketDelay(Bucket(s), t)
<1>1. t \in Nat /\ remaining \in Nat /\ total \in Nat /\ reset_at \in Nat
  BY DEF Inv, TypeOK
<1>2. bucket_next[Bucket(s)] \in Nat
  BY BucketType DEF Inv, TypeOK
<1>3. ld \in Nat
  BY <1>1 DEF LimitDelay, ResetAt, Left, Refills
<1>4. bd \in Nat /\ (bd = 0 => bucket_next[Bucket(s)] <= t)
  BY <1>1, <1>2 DEF BucketDelay
<1>5. Max2(ld, bd) \in Nat /\ (Max2(ld, bd) = 0 => ld = 0 /\ bd = 0)
  <2> HIDE DEF ld, bd
  <2> QED
    BY <1>3, <1>4 DEF Max2
<1>6. IF Max2(ld, bd) = 0 THEN Grant(s, t)
      ELSE /\ Refuse(s, Max2(ld, bd))
           /\ remaining' = Left(t)
           /\ used' = IF Refills(t) THEN 0 ELSE used
  BY DEF Reserve
<1>7. shard \in [Shards -> [pc : PCs, at : Nat, until : Nat]]
  BY DEF Inv, TypeOK
<1>8. CASE Max2(ld, bd) = 0
  <2>1. shard'[s].pc = "granted"
    BY <1>6, <1>7, <1>8 DEF Grant
  <2> QED
    BY <1>4, <1>5, <1>6, <1>8, <2>1
<1>9. CASE Max2(ld, bd) # 0
  <2>1. shard'[s].pc = "waiting"
    BY <1>6, <1>7, <1>9 DEF Refuse, Sleep
  <2> QED
    BY <1>5, <1>6, <1>9, <2>1
<1> QED
  BY <1>8, <1>9

LEMMA TypeStep == TypeOK /\ ReportedLimitHolds /\ NextIsSpaced /\ [Next]_vars => TypeOK'
<1> SUFFICES ASSUME Inv, [Next]_vars PROVE TypeOK'
  BY DEF Inv
<1>1. TypeOK
  BY DEF Inv
<1>2. CASE UNCHANGED vars
  BY <1>1, <1>2 DEF vars, limit, ghosts, TypeOK
<1>3. CASE Tick
  BY <1>1, <1>3 DEF Tick, limit, ghosts, TypeOK
<1>4. ASSUME NEW s \in Shards, Step(s) PROVE TypeOK'
  <2>1. Refreshed(own[s]) \in [remaining : Nat, reset_at : Nat, delay : Nat]
    BY <1>1, ZenonT(40) DEF TypeOK, Refreshed
  <2>2. CASE Wait(s)
    <3> DEFINE o == Refreshed(own[s])
               delay == IF o.remaining = 0 /\ o.reset_at # 0 /\ now < o.reset_at
                        THEN Max2(o.reset_at - now, o.delay) ELSE o.delay
    <3>1. /\ own' = [own EXCEPT ![s] = [o EXCEPT !.delay = 0]]
          /\ IF delay = 0 THEN ToStamp(s) ELSE Sleep(s, "delayed", delay)
          /\ UNCHANGED <<now, limit, ghosts>>
      BY <2>2 DEF Wait
    <3>2. delay \in Nat
      BY <1>1, <2>1 DEF TypeOK, Max2
    <3>3. [o EXCEPT !.delay = 0] \in [remaining : Nat, reset_at : Nat, delay : Nat]
      BY <2>1
    <3> HIDE DEF o, delay
    <3>4. own' \in [Shards -> [remaining : Nat, reset_at : Nat, delay : Nat]]
      BY <1>1, <3>1, <3>3 DEF TypeOK
    <3>5. /\ shard' \in [Shards -> [pc : PCs, at : Nat, until : Nat]]
          /\ \A x \in Shards : shard'[x].at <= now
      <4>1. now \in Nat /\ now + delay \in Nat
        BY <1>1, <3>2 DEF TypeOK
      <4>2. \E u \in Nat, pc \in PCs : shard' = [shard EXCEPT ![s] = [pc |-> pc, at |-> 0, until |-> u]]
        BY <3>1, <4>1 DEF ToStamp, Sleep, PCs
      <4> QED
        BY <1>1, <4>1, <4>2 DEF TypeOK
    <3> QED
      BY <1>1, <3>1, <3>4, <3>5 DEF TypeOK, limit, ghosts
  <2>3. CASE Wake(s)
    <3>1. own' \in [Shards -> [remaining : Nat, reset_at : Nat, delay : Nat]]
      BY <1>1, <2>1, <2>3 DEF Wake, TypeOK
    <3>2. /\ shard' \in [Shards -> [pc : PCs, at : Nat, until : Nat]]
          /\ \A x \in Shards : shard'[x].at <= now
      BY <1>1, <2>3 DEF Wake, ToStamp, TypeOK, PCs
    <3> QED
      BY <1>1, <2>3, <3>1, <3>2 DEF Wake, TypeOK, limit, ghosts
  <2>4. CASE Cancel(s)
    BY <1>1, <2>4 DEF Cancel, Idle, TypeOK, PCs, limit, ghosts
  <2>5. CASE Stamp(s)
    BY <1>1, <2>5 DEF Stamp, TypeOK, PCs, limit, ghosts
  <2>6. CASE Reserve(s)
    <3> DEFINE t == shard[s].at
    <3>1. t \in Nat /\ t <= now /\ Left(t) \in Nat /\ ResetAt(t) \in Nat
      BY <1>1 DEF TypeOK, Left, ResetAt, Refills
    <3>2. reset_at' \in Nat /\ allowance' \in Nat \cup {Never} /\ now' = now /\ total' = total
      BY <1>1, <2>6, <3>1 DEF Reserve, TypeOK
    <3>3. CASE shard'[s].pc = "granted"
      <4>1. Grant(s, t)
        BY <2>6, <3>3, GrantFacts
      <4>2. remaining' \in Nat /\ used' \in Nat
        BY <1>1, <3>1, <4>1 DEF Grant, TypeOK
      <4>3. bucket_next' \in [Buckets -> Nat] /\ last' \in [Buckets -> Nat \cup {Never}]
        BY <1>1, <3>1, <4>1, BucketType, CoordinatorAssumption DEF Grant, TypeOK
      <4>4. own' \in [Shards -> [remaining : Nat, reset_at : Nat, delay : Nat]]
        BY <1>1, <4>1, <4>2, SMTT(30) DEF Grant, TypeOK
      <4>5. /\ shard' \in [Shards -> [pc : PCs, at : Nat, until : Nat]]
            /\ \A x \in Shards : shard'[x].at <= now
        BY <1>1, <3>1, <4>1 DEF Grant, TypeOK, PCs
      <4> QED
        BY <1>1, <3>2, <4>2, <4>3, <4>4, <4>5 DEF TypeOK
    <3>4. CASE shard'[s].pc = "waiting"
      <4>1. PICK d \in Nat : Refuse(s, d)
        BY <2>6, <3>4, GrantFacts, SMTT(30)
      <4>2. remaining' \in Nat /\ used' \in Nat
        BY <1>1, <2>6, <3>1, <3>4, GrantFacts DEF TypeOK
      <4>3. /\ shard' \in [Shards -> [pc : PCs, at : Nat, until : Nat]]
            /\ \A x \in Shards : shard'[x].at <= now
        BY <1>1, <4>1 DEF Refuse, Sleep, TypeOK, PCs
      <4> QED
        BY <1>1, <3>2, <4>1, <4>2, <4>3 DEF Refuse, TypeOK
    <3> QED
      BY <2>6, <3>3, <3>4, GrantFacts
  <2>7. CASE End(s)
    BY <1>1, <2>7, CoordinatorAssumption, SMTT(30) DEF End, Idle, TypeOK, PCs, limit, ghosts
  <2> QED
    BY <1>4, <2>2, <2>3, <2>4, <2>5, <2>6, <2>7 DEF Step
<1> QED
  BY <1>2, <1>3, <1>4 DEF Next

\* Only Reserve touches the coordinator.
LEMMA LimitStep ==
  Inv /\ [Next]_vars => ReportedLimitHolds' /\ NextIsSpaced'
<1> SUFFICES ASSUME Inv, [Next]_vars PROVE ReportedLimitHolds' /\ NextIsSpaced'
  OBVIOUS
<1>1. CASE UNCHANGED <<limit, ghosts>>
  BY <1>1 DEF Inv, ReportedLimitHolds, NextIsSpaced, limit, ghosts
<1>2. ASSUME NEW s \in Shards, Reserve(s) PROVE ReportedLimitHolds' /\ NextIsSpaced'
  <2> DEFINE t == shard[s].at
  <2>1. /\ t \in Nat /\ remaining \in Nat /\ reset_at \in Nat /\ used \in Nat
        /\ allowance \in Nat \cup {Never}
        /\ bucket_next \in [Buckets -> Nat] /\ last \in [Buckets -> Nat \cup {Never}]
    BY SMTT(30) DEF Inv, TypeOK
  <2>2. /\ reset_at' = ResetAt(t)
        /\ allowance' = IF Refills(t) /\ allowance # Never THEN Left(t) ELSE allowance
    BY <1>2 DEF Reserve
  <2>3. reset_at' # 0 => ~Refills(t) /\ reset_at # 0 /\ allowance' = allowance /\ Left(t) = remaining
    BY <2>2 DEF ResetAt, Left
  <2>4. CASE shard'[s].pc = "granted"
    <3>1. Grant(s, t) /\ LimitDelay(t) = 0
      BY <1>2, <2>4, GrantFacts, SMTT(30)
    <3>2. reset_at' # 0 => remaining > 0
      BY <2>1, <2>3, <3>1 DEF LimitDelay, ResetAt, Refills
    <3>3. ReportedLimitHolds'
      BY <2>1, <2>3, <3>1, <3>2 DEF Inv, ReportedLimitHolds, Grant
    <3>4. NextIsSpaced'
      BY <2>1, <3>1, BucketType DEF Inv, NextIsSpaced, Grant
    <3> QED
      BY <3>3, <3>4, SMTT(30)
  <2>5. CASE shard'[s].pc = "waiting"
    <3>1. PICK d \in Nat : Refuse(s, d)
      BY <1>2, <2>5, GrantFacts
    <3>2. remaining' = Left(t) /\ used' = IF Refills(t) THEN 0 ELSE used
      BY <1>2, <2>5, GrantFacts
    <3>3. ReportedLimitHolds'
      BY <2>3, <3>2 DEF Inv, ReportedLimitHolds
    <3>4. NextIsSpaced'
      BY <3>1, SMTT(30) DEF Inv, NextIsSpaced, Refuse
    <3> QED
      BY <3>3, <3>4
  <2> QED
    BY <1>2, <2>4, <2>5, GrantFacts
<1>3. Next => UNCHANGED <<limit, ghosts>> \/ \E s \in Shards : Reserve(s)
  BY Zenon DEF Next, Tick, Step, Wait, Wake, Cancel, Stamp, End
<1>4. UNCHANGED vars => UNCHANGED <<limit, ghosts>>
  BY DEF vars
<1> QED
  BY <1>1, <1>2, <1>3, <1>4

LEMMA InvStep == Inv /\ [Next]_vars => Inv'
  BY TypeStep, LimitStep DEF Inv

LEMMA InvHolds == Spec => []Inv
  BY InvInit, InvStep, PTL DEF Spec

\* A shard is granted a slot only by Reserve, once bucket_next has passed.
LEMMA SpacedStep ==
  ASSUME Inv, [Next]_vars, NEW s \in Shards,
         shard[s].pc # "granted", shard'[s].pc = "granted", last[Bucket(s)] # Never
  PROVE  shard'[s].at >= last[Bucket(s)] + Spacing
<1>1. shard \in [Shards -> [pc : PCs, at : Nat, until : Nat]]
  BY DEF Inv, TypeOK
<1>2. ~UNCHANGED shard
  OBVIOUS
<1>3. PICK x \in Shards : Step(x)
  BY <1>2, SMTT(30) DEF Next, Tick, vars
<1>4. Reserve(x)
  BY <1>1, <1>3, SMTT(30) DEF Step, Wait, Wake, Cancel, Stamp, End, Sleep, ToStamp, Idle
<1>5. Grant(x, shard[x].at) \/ \E d \in Nat : Refuse(x, d)
  BY <1>4, GrantFacts
<1>6. x = s
  BY <1>1, <1>5, SMTT(30) DEF Grant, Refuse, Sleep
<1>7. Grant(s, shard[s].at) /\ bucket_next[Bucket(s)] <= shard[s].at
  BY <1>4, <1>6, GrantFacts
<1>8. shard'[s].at = shard[s].at
  BY <1>1, <1>7 DEF Grant
<1>9. bucket_next[Bucket(s)] = last[Bucket(s)] + Spacing
  BY BucketType DEF Inv, NextIsSpaced
<1> QED
  BY <1>7, <1>8, <1>9

\* Every variable keeps its type, for every cluster: in particular the unsigned
\* counter of dcc_cluster_identify_coordinator is never counted below zero.
THEOREM TypeCorrect == Spec => []TypeOK
<1>1. Inv => TypeOK
  BY DEF Inv
<1> QED
  BY <1>1, InvHolds, PTL

\* Until its first refill the limit is exact: reservations made and reservations
\* left add up to what Discord reported (gateway_identify.c, the locked section).
THEOREM LimitIsExact == Spec => []ReportedLimitHolds
<1>1. Inv => ReportedLimitHolds
  BY DEF Inv
<1> QED
  BY <1>1, InvHolds, PTL

\* Two reservations of one bucket are spaced, however the shards' reads of the
\* clock and their turns at the lock interleave.
THEOREM ReservationsAreSpaced == Spec => BucketSpacing
<1>1. Inv /\ [Next]_vars =>
         [\A s \in Shards :
            shard[s].pc # "granted" /\ shard'[s].pc = "granted" /\ last[Bucket(s)] # Never
              => shard'[s].at >= last[Bucket(s)] + Spacing]_vars
  BY SpacedStep
<1> QED
  BY <1>1, InvHolds, PTL DEF Spec, BucketSpacing
=============================================================================
