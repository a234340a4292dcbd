------------------------ MODULE IdentifyCoordinator ------------------------
(***************************************************************************)
(* The IDENTIFY reservations of a cluster: every shard's gateway task waits *)
(* in dcc_gateway_wait_identify_slot until the coordinator the shards share *)
(* grants it one.  A grant respects the session-start limit Discord         *)
(* reported and keeps two shards of one bucket five seconds apart.          *)
(* Source: src/gateway/gateway_identify.c, src/client/cluster_config.c,     *)
(* cluster_gateway_info_copy.c, cluster_start_identify_budget.c.            *)
(*                                                                          *)
(* Time is a clock that may advance between any two steps.  A shard reads   *)
(* it before it takes the coordinator's lock; the locked section is one     *)
(* step.  A sleep ends no earlier than asked, or when a stop or a reconnect *)
(* request cancels it.                                                      *)
(***************************************************************************)
EXTENDS Integers, FiniteSets

CONSTANTS
    ShardCount,      \* shard_count
    MaxConcurrency,  \* the coordinator's max_concurrency, 0 if unknown
    BucketCap,       \* DCC_CLUSTER_IDENTIFY_BUCKET_CAP
    Spacing,         \* the 5000 ms between two reservations of a bucket
    Limits,          \* the session-start limits Discord may have reported
    Delays,          \* identify delays a session that ended may have set
    MaxTime          \* bound on the clock

\* A limit that was not fetched is all zero.
Unknown == [remaining |-> 0, total |-> 0, reset_at |-> 0]

ASSUME CoordinatorAssumption ==
    /\ ShardCount \in Nat /\ MaxConcurrency \in Nat
    /\ BucketCap \in Nat \ {0} /\ Spacing \in Nat \ {0}
    /\ Limits \subseteq [remaining : Nat, total : Nat, reset_at : Nat]
    /\ Delays \subseteq Nat
    /\ MaxTime \in Nat

Shards == 0..(ShardCount - 1)
Concurrency ==
    LET known == IF MaxConcurrency = 0 THEN 1 ELSE MaxConcurrency
    IN  IF known > BucketCap THEN BucketCap ELSE known
Buckets == 0..(Concurrency - 1)
Never == -1

VARIABLES
    now,          \* dcc_gateway_now_ms
    remaining,    \* of the coordinator, with total, reset_at and bucket_next
    total,
    reset_at,
    bucket_next,
    own,          \* each client's copy of the limit and its identify delay
    shard,        \* where each gateway task is in its wait
    last,         \* time of the last reservation of each bucket
    used,         \* reservations since the limit was reported or refilled
    allowance     \* what the limit allowed then, or Never if it is not known

limit == <<remaining, total, reset_at, bucket_next>>
ghosts == <<last, used, allowance>>
vars == <<now, limit, own, shard, ghosts>>

Idle == [pc |-> "idle", at |-> 0, until |-> 0]

\* dcc_cluster_identify_delay.
IdentifyDelay(s) ==
    (s \div (IF MaxConcurrency = 0 THEN 1 ELSE MaxConcurrency)) * Spacing

\* dcc_cluster_check_initial_identify_budget: otherwise the start is refused.
BudgetSuffices(l) == l.remaining >= ShardCount \/ (l.total = 0 /\ l.reset_at = 0)

\* dcc_cluster_copy_gateway_info_from_first, then the budget's check.
Init ==
    /\ now = 1
    /\ \E l \in Limits \cup {Unknown} :
          /\ BudgetSuffices(l)
          /\ remaining = l.remaining /\ total = l.total /\ reset_at = l.reset_at
          /\ own = [s \in Shards |-> [remaining |-> l.remaining, reset_at |-> l.reset_at,
                                      delay |-> IdentifyDelay(s)]]
          /\ allowance = IF l.total = 0 \/ l.reset_at = 0 THEN Never ELSE l.remaining
    /\ bucket_next = [b \in Buckets |-> 0]
    /\ shard = [s \in Shards |-> Idle]
    /\ last = [b \in Buckets |-> Never]
    /\ used = 0

-----------------------------------------------------------------------------
\* dcc_gateway_refresh_identify_limit.
Refreshed(o) ==
    IF o.remaining = 0 /\ o.reset_at # 0 /\ now >= o.reset_at
    THEN [o EXCEPT !.remaining = IF total # 0 THEN total ELSE 1, !.reset_at = 0]
    ELSE o

Max2(a, b) == IF a > b THEN a ELSE b

Sleep(s, pc, delay) ==
    shard' = [shard EXCEPT ![s] = [pc |-> pc, at |-> 0, until |-> now + delay]]
ToStamp(s) == shard' = [shard EXCEPT ![s] = [pc |-> "stamp", at |-> 0, until |-> 0]]

\* dcc_gateway_wait_identify_slot up to its sleep: the delay the last session
\* left and the client's own copy of the limit.
Wait(s) ==
    /\ shard[s].pc = "idle"
    /\ LET o == Refreshed(own[s])
           delay == IF o.remaining = 0 /\ o.reset_at # 0 /\ now < o.reset_at
                    THEN Max2(o.reset_at - now, o.delay) ELSE o.delay
       IN  /\ own' = [own EXCEPT ![s] = [o EXCEPT !.delay = 0]]
           /\ IF delay = 0 THEN ToStamp(s) ELSE Sleep(s, "delayed", delay)
    /\ UNCHANGED <<now, limit, ghosts>>

\* The end of a sleep, of the client's own delay or of the coordinator's.
Wake(s) ==
    /\ shard[s].pc \in {"delayed", "waiting"} /\ now >= shard[s].until
    /\ own' = IF shard[s].pc = "delayed" THEN [own EXCEPT ![s] = Refreshed(@)] ELSE own
    /\ ToStamp(s)
    /\ UNCHANGED <<now, limit, ghosts>>

\* dcc_gateway_wait_ms returns DCC_ERR_CANCELED.
Cancel(s) ==
    /\ shard[s].pc \in {"delayed", "waiting"}
    /\ shard' = [shard EXCEPT ![s] = Idle]
    /\ UNCHANGED <<now, limit, own, ghosts>>

\* The head of the coordinator's loop reads the clock, outside the lock.
Stamp(s) ==
    /\ shard[s].pc = "stamp"
    /\ shard' = [shard EXCEPT ![s] = [pc |-> "lock", at |-> now, until |-> 0]]
    /\ UNCHANGED <<now, limit, own, ghosts>>

\* The locked section, for a shard that read the clock at t.
Refills(t) == remaining = 0 /\ reset_at # 0 /\ t >= reset_at
Left(t) == IF Refills(t) THEN (IF total # 0 THEN total ELSE 1) ELSE remaining
ResetAt(t) == IF Refills(t) THEN 0 ELSE reset_at
LimitDelay(t) == IF Left(t) = 0 /\ ResetAt(t) > t THEN ResetAt(t) - t ELSE 0
Bucket(s) == s % Concurrency
BucketDelay(b, t) == IF bucket_next[b] > t THEN bucket_next[b] - t ELSE 0

\* Mutant: an unknown or used up limit is counted down as well.
Grant(s, t) ==
    /\ bucket_next' = [bucket_next EXCEPT ![Bucket(s)] = t + Spacing]
    /\ remaining' = IF Left(t) > 0 THEN Left(t) - 1 ELSE 0
    /\ own' = [own EXCEPT ![s].remaining = remaining']
    /\ shard' = [shard EXCEPT ![s] = [pc |-> "granted", at |-> t, until |-> 0]]
    /\ last' = [last EXCEPT ![Bucket(s)] = t]
    /\ used' = (IF Refills(t) THEN 0 ELSE used) + 1

Refuse(s, delay) ==
    /\ Sleep(s, "waiting", delay)
    /\ UNCHANGED <<bucket_next, own, last>>

\* Mutants: the lock is released between the test of the bucket and the store to
\* it; the session-start limit is not looked at.
ReserveRaced(s) ==
    /\ LET t == shard[s].at
           delay == Max2(LimitDelay(t), BucketDelay(Bucket(s), t))
       IN  \/ /\ shard[s].pc = "lock" /\ delay = 0
              /\ shard' = [shard EXCEPT ![s].pc = "store"]
              /\ UNCHANGED <<bucket_next, own, last, remaining, used>>
           \/ /\ shard[s].pc = "lock" /\ delay > 0
              /\ Refuse(s, delay)
              /\ UNCHANGED <<remaining, used>>
           \/ shard[s].pc = "store" /\ Grant(s, t)
    /\ UNCHANGED <<now, total, reset_at, allowance>>
ReserveUnlimited(s) ==
    /\ shard[s].pc = "lock"
    /\ LET t == shard[s].at
           delay == BucketDelay(Bucket(s), t)
       IN  IF delay = 0 THEN Grant(s, t)
           ELSE Refuse(s, delay) /\ UNCHANGED <<remaining, used>>
    /\ UNCHANGED <<now, total, reset_at, allowance>>

Reserve(s) ==
    /\ shard[s].pc = "lock"
    /\ LET t == shard[s].at
           delay == Max2(LimitDelay(t), BucketDelay(Bucket(s), t))
       IN  /\ reset_at' = ResetAt(t)
           /\ allowance' = IF Refills(t) /\ allowance # Never THEN Left(t) ELSE allowance
           /\ IF delay = 0 THEN Grant(s, t)
              ELSE /\ Refuse(s, delay)
                   /\ remaining' = Left(t)
                   /\ used' = IF Refills(t) THEN 0 ELSE used
    /\ UNCHANGED <<now, total>>

\* The session ends; a close for rate limits or an invalid session leaves a delay.
End(s) ==
    /\ shard[s].pc = "granted"
    /\ shard' = [shard EXCEPT ![s] = Idle]
    /\ \E d \in Delays \cup {0} : own' = [own EXCEPT ![s].delay = d]
    /\ UNCHANGED <<now, limit, ghosts>>

Tick ==
    /\ now < MaxTime
    /\ now' = now + 1
    /\ UNCHANGED <<limit, own, shard, ghosts>>

Step(s) == Wait(s) \/ Wake(s) \/ Cancel(s) \/ Stamp(s) \/ Reserve(s) \/ End(s)

Next == Tick \/ \E s \in Shards : Step(s)

Spec == Init /\ [][Next]_vars

-----------------------------------------------------------------------------
PCs == {"idle", "delayed", "stamp", "lock", "waiting", "granted"}

\* Every variable keeps its type, and no shard holds a time from the future.
TypeOK ==
    /\ now \in Nat
    /\ remaining \in Nat /\ total \in Nat /\ reset_at \in Nat
    /\ bucket_next \in [Buckets -> Nat]
    /\ own \in [Shards -> [remaining : Nat, reset_at : Nat, delay : Nat]]
    /\ shard \in [Shards -> [pc : PCs, at : Nat, until : Nat]]
    /\ last \in [Buckets -> Nat \cup {Never}]
    /\ used \in Nat /\ allowance \in Nat \cup {Never}
    /\ \A s \in Shards : shard[s].at <= now

\* Two reservations of one bucket are at least Spacing apart, by the times the
\* shards read, although a shard reads the clock before it takes the lock and
\* another may reserve in between.
BucketSpacing ==
    [][\A s \in Shards :
          shard[s].pc # "granted" /\ shard'[s].pc = "granted" /\ last[Bucket(s)] # Never
              => shard'[s].at >= last[Bucket(s)] + Spacing]_vars

\* Until the limit Discord reported has been refilled once, no more sessions are
\* started than it allowed, and whatever is left is what the counter says.
ReportedLimitHolds ==
    allowance # Never /\ reset_at # 0 => used + remaining = allowance

\* "the global session-start limit is consumed once per reservation"
\* (docs/production-playbooks.md): a cluster that knows its limit never makes
\* more reservations than the limit allows until it is refilled.
LimitIsConsumed == allowance # Never => used <= allowance
=============================================================================
