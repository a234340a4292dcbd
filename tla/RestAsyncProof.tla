--------------------------- MODULE RestAsyncProof ---------------------------
(***************************************************************************)
(* The theorems about RestAsync, for any number of requests, routes and    *)
(* threads and any limits.  First what the steps do to the pending lists,  *)
(* to the place of a job, to its claim on a route and to the active list,  *)
(* and that they keep the types of the drain loop, the counters, the       *)
(* times, the threads and the flags; then the inductive invariant.         *)
(***************************************************************************)
EXTENDS RestAsync, TLAPS

-----------------------------------------------------------------------------
(* The sequence operations that model linked lists: unlinking an element,  *)
(* linking one at a place and linking one at the tail.                     *)

(* The elements of a concatenation. *)
LEMMA ConcatElements ==
    ASSUME NEW S, NEW s \in Seq(S), NEW t \in Seq(S)
    PROVE  /\ s \o t \in Seq(S)
           /\ Len(s \o t) = Len(s) + Len(t)
           /\ \A j \in 1 .. Len(s) + Len(t) :
                 (s \o t)[j] = IF j <= Len(s) THEN s[j] ELSE t[j - Len(s)]
OBVIOUS

(* Removing the element at a place: the others keep their order. *)
LEMMA WithoutElements ==
    ASSUME NEW S, NEW s \in Seq(S), NEW i \in 1 .. Len(s)
    PROVE  /\ Without(s, i) \in Seq(S)
           /\ Len(Without(s, i)) = Len(s) - 1
           /\ \A j \in 1 .. Len(s) - 1 :
                 Without(s, i)[j] = IF j < i THEN s[j] ELSE s[j + 1]
<1> DEFINE a == SubSeq(s, 1, i - 1)
           b == SubSeq(s, i + 1, Len(s))
<1>1. Len(s) \in Nat /\ i \in Int
  OBVIOUS
<1>2. a \in Seq(S) /\ Len(a) = i - 1 /\ \A j \in 1 .. i - 1 : a[j] = s[j]
  BY <1>1
<1>3. b \in Seq(S) /\ Len(b) = Len(s) - i /\ \A j \in 1 .. Len(s) - i : b[j] = s[i + j]
  BY <1>1
<1> HIDE DEF a, b
<1>4. /\ a \o b \in Seq(S)
      /\ Len(a \o b) = Len(s) - 1
      /\ \A j \in 1 .. Len(s) - 1 :
            (a \o b)[j] = IF j <= i - 1 THEN a[j] ELSE b[j - (i - 1)]
  <2>1. Len(a) + Len(b) = Len(s) - 1
    BY <1>1, <1>2, <1>3
  <2>2. /\ a \o b \in Seq(S) /\ Len(a \o b) = Len(a) + Len(b)
        /\ \A j \in 1 .. Len(a) + Len(b) :
              (a \o b)[j] = IF j <= Len(a) THEN a[j] ELSE b[j - Len(a)]
    BY <1>2, <1>3, ConcatElements, Zenon
  <2> QED
    BY <1>2, <2>1, <2>2
<1>5. \A j \in 1 .. Len(s) - 1 : (a \o b)[j] = IF j < i THEN s[j] ELSE s[j + 1]
  <2> SUFFICES ASSUME NEW j \in 1 .. Len(s) - 1
               PROVE  (a \o b)[j] = IF j < i THEN s[j] ELSE s[j + 1]
    BY Zenon
  <2>1. (a \o b)[j] = IF j <= i - 1 THEN a[j] ELSE b[j - (i - 1)]
    BY <1>4, Zenon
  <2>2. CASE j < i
    <3>1. j <= i - 1 /\ j \in 1 .. i - 1
      BY <1>1, <2>2
    <3> QED
      BY <1>2, <2>1, <2>2, <3>1, Zenon
  <2>3. CASE ~(j < i)
    <3>1. /\ ~(j <= i - 1) /\ j - (i - 1) \in 1 .. Len(s) - i
          /\ i + (j - (i - 1)) = j + 1
      BY <1>1, <2>3
    <3>2. b[j - (i - 1)] = s[i + (j - (i - 1))]
      BY <1>3, <3>1, Zenon
    <3> QED
      BY <2>1, <2>3, <3>1, <3>2, Zenon
  <2> QED
    BY <2>2, <2>3, Zenon
<1>6. Without(s, i) = a \o b
  BY DEF Without, a, b
<1> QED
  BY <1>4, <1>5, <1>6

(* Inserting an element at a place: the others keep their order. *)
LEMMA WithAtElements ==
    ASSUME NEW S, NEW s \in Seq(S), NEW i \in 1 .. Len(s) + 1, NEW e \in S
    PROVE  /\ WithAt(s, i, e) \in Seq(S)
           /\ Len(WithAt(s, i, e)) = Len(s) + 1
           /\ \A j \in 1 .. Len(s) + 1 :
                 WithAt(s, i, e)[j] =
                     IF j < i THEN s[j] ELSE IF j = i THEN e ELSE s[j - 1]
<1> DEFINE a == SubSeq(s, 1, i - 1)
           b == SubSeq(s, i, Len(s))
           c == a \o <<e>>
<1>1. Len(s) \in Nat /\ i \in Int /\ <<e>> \in Seq(S) /\ Len(<<e>>) = 1 /\ <<e>>[1] = e
  OBVIOUS
<1>2. a \in Seq(S) /\ Len(a) = i - 1 /\ \A j \in 1 .. i - 1 : a[j] = s[j]
  BY <1>1
<1>3. /\ b \in Seq(S) /\ Len(b) = Len(s) - i + 1
      /\ \A j \in 1 .. Len(s) - i + 1 : b[j] = s[i + j - 1]
  BY <1>1
<1> HIDE DEF a, b
<1>4. /\ c \in Seq(S) /\ Len(c) = i
      /\ \A j \in 1 .. i : c[j] = IF j <= i - 1 THEN a[j] ELSE <<e>>[j - (i - 1)]
  BY <1>1, <1>2
<1>5. \A j \in 1 .. i : c[j] = IF j < i THEN s[j] ELSE e
  BY <1>1, <1>2, <1>4
<1> HIDE DEF c
<1>6. /\ c \o b \in Seq(S) /\ Len(c \o b) = Len(s) + 1
      /\ \A j \in 1 .. Len(s) + 1 : (c \o b)[j] = IF j <= i THEN c[j] ELSE b[j - i]
  <2>1. Len(c) + Len(b) = Len(s) + 1
    BY <1>1, <1>3, <1>4
  <2>2. /\ c \o b \in Seq(S) /\ Len(c \o b) = Len(c) + Len(b)
        /\ \A j \in 1 .. Len(c) + Len(b) :
              (c \o b)[j] = IF j <= Len(c) THEN c[j] ELSE b[j - Len(c)]
    BY <1>3, <1>4, ConcatElements, ZenonT(40)
  <2> QED
    BY <1>4, <2>1, <2>2
<1>7. \A j \in 1 .. Len(s) + 1 :
         (c \o b)[j] = IF j < i THEN s[j] ELSE IF j = i THEN e ELSE s[j - 1]
  BY <1>1, <1>3, <1>5, <1>6, SMTT(30)
<1>8. WithAt(s, i, e) = c \o b
  BY DEF WithAt, a, b, c
<1> QED
  BY <1>6, <1>7, <1>8

(* The sets of elements, when no element occurs twice. *)
LEMMA WithoutSet ==
    ASSUME NEW S, NEW s \in Seq(S), NEW i \in 1 .. Len(s), NoDuplicates(s)
    PROVE  /\ Without(s, i) \in Seq(S)
           /\ Len(Without(s, i)) = Len(s) - 1
           /\ Elements(Without(s, i)) = Elements(s) \ {s[i]}
           /\ NoDuplicates(Without(s, i))
<1> DEFINE t == Without(s, i)
<1>1. /\ t \in Seq(S) /\ Len(t) = Len(s) - 1 /\ Len(s) \in Nat
      /\ \A j \in 1 .. Len(s) - 1 : t[j] = IF j < i THEN s[j] ELSE s[j + 1]
  BY WithoutElements
<1> HIDE DEF t
<1>2. DOMAIN t = 1 .. Len(s) - 1 /\ DOMAIN s = 1 .. Len(s)
  BY <1>1
<1>3. \A j, k \in 1 .. Len(s) : s[j] = s[k] => j = k
  BY <1>2 DEF NoDuplicates
<1>4. NoDuplicates(t)
  BY <1>1, <1>2, <1>3, SMTT(30) DEF NoDuplicates
<1>5. ASSUME NEW e \in Elements(t) PROVE e \in Elements(s) \ {s[i]}
  BY <1>1, <1>2, <1>3, <1>5, SMTT(30) DEF Elements
<1>6. ASSUME NEW j \in 1 .. Len(s), j # i PROVE s[j] \in Elements(t)
  <2>1. CASE j < i
    BY <1>1, <1>2, <2>1, SMTT(30) DEF Elements
  <2>2. CASE j > i
    <3>1. j - 1 \in 1 .. Len(s) - 1 /\ t[j - 1] = s[j]
      BY <1>1, <2>2
    <3> QED
      BY <1>2, <3>1 DEF Elements
  <2> QED
    BY <1>6, <2>1, <2>2
<1>7. ASSUME NEW e \in Elements(s) \ {s[i]} PROVE e \in Elements(t)
  BY <1>2, <1>6 DEF Elements
<1> QED
  BY <1>1, <1>4, <1>5, <1>7 DEF t

LEMMA WithAtSet ==
    ASSUME NEW S, NEW s \in Seq(S), NEW i \in 1 .. Len(s) + 1, NEW e \in S,
           NoDuplicates(s), e \notin Elements(s)
    PROVE  /\ WithAt(s, i, e) \in Seq(S)
           /\ Len(WithAt(s, i, e)) = Len(s) + 1
           /\ Elements(WithAt(s, i, e)) = Elements(s) \cup {e}
           /\ NoDuplicates(WithAt(s, i, e))
<1> DEFINE t == WithAt(s, i, e)
<1>1. /\ t \in Seq(S) /\ Len(t) = Len(s) + 1 /\ Len(s) \in Nat
      /\ \A j \in 1 .. Len(s) + 1 :
            t[j] = IF j < i THEN s[j] ELSE IF j = i THEN e ELSE s[j - 1]
  <2>1. Len(s) \in Nat
    OBVIOUS
  <2>2. /\ WithAt(s, i, e) \in Seq(S) /\ Len(WithAt(s, i, e)) = Len(s) + 1
        /\ \A j \in 1 .. Len(s) + 1 :
              WithAt(s, i, e)[j] =
                  IF j < i THEN s[j] ELSE IF j = i THEN e ELSE s[j - 1]
    BY WithAtElements
  <2> QED
    BY <2>1, <2>2
<1> HIDE DEF t
<1>2. DOMAIN t = 1 .. Len(s) + 1 /\ DOMAIN s = 1 .. Len(s)
  BY <1>1
<1>3. \A j, k \in 1 .. Len(s) : s[j] = s[k] => j = k
  BY <1>2 DEF NoDuplicates
<1>4. \A j \in 1 .. Len(s) : s[j] # e
  BY <1>2 DEF Elements
<1>a. \A j \in 1 .. Len(s) + 1 :
         /\ j < i => j \in 1 .. Len(s) /\ t[j] = s[j] /\ t[j] # e
         /\ j > i => j - 1 \in 1 .. Len(s) /\ t[j] = s[j - 1] /\ t[j] # e
         /\ j = i => t[j] = e
  BY <1>1, <1>4
<1>5. NoDuplicates(t)
  <2> SUFFICES ASSUME NEW j \in 1 .. Len(s) + 1, NEW k \in 1 .. Len(s) + 1, t[j] = t[k]
               PROVE  j = k
    BY <1>2 DEF NoDuplicates
  <2>4. /\ j < i /\ k < i => j = k
        /\ j < i /\ k > i => j = k - 1
        /\ j > i /\ k < i => j - 1 = k
        /\ j > i /\ k > i => j - 1 = k - 1
    BY <1>3, <1>a, SMTT(30)
  <2>5. j \in Int /\ k \in Int /\ i \in Int
    BY <1>1
  <2> QED
    BY <1>a, <2>4, <2>5
<1>6. ASSUME NEW x \in Elements(t) PROVE x \in Elements(s) \cup {e}
  <2>1. PICK j \in 1 .. Len(s) + 1 : x = t[j]
    BY <1>2, <1>6 DEF Elements
  <2>2. x = IF j < i THEN s[j] ELSE IF j = i THEN e ELSE s[j - 1]
    BY <1>1, <2>1
  <2>3. j < i => j \in 1 .. Len(s)
    BY <1>1
  <2>4. j > i => j - 1 \in 1 .. Len(s)
    BY <1>1
  <2> QED
    BY <1>1, <1>2, <2>2, <2>3, <2>4 DEF Elements
<1>7. e \in Elements(t)
  BY <1>1, <1>2 DEF Elements
<1>8. ASSUME NEW j \in 1 .. Len(s) PROVE s[j] \in Elements(t)
  <2>1. CASE j < i
    BY <1>1, <1>2, <2>1, SMTT(30) DEF Elements
  <2>2. CASE j >= i
    <3>1. j + 1 \in 1 .. Len(s) + 1 /\ t[j + 1] = s[j]
      BY <1>1, <2>2
    <3> QED
      BY <1>2, <3>1 DEF Elements
  <2> QED
    BY <2>1, <2>2
<1>9. ASSUME NEW x \in Elements(s) PROVE x \in Elements(t)
  BY <1>2, <1>8 DEF Elements
<1> QED
  BY <1>1, <1>5, <1>6, <1>7, <1>9 DEF t

LEMMA AppendSet ==
    ASSUME NEW S, NEW s \in Seq(S), NEW e \in S, NoDuplicates(s), e \notin Elements(s)
    PROVE  /\ Append(s, e) \in Seq(S)
           /\ Elements(Append(s, e)) = Elements(s) \cup {e}
           /\ NoDuplicates(Append(s, e))
<1> DEFINE t == Append(s, e)
<1>1. /\ t \in Seq(S) /\ Len(t) = Len(s) + 1 /\ Len(s) \in Nat
      /\ \A j \in 1 .. Len(s) : t[j] = s[j]
      /\ t[Len(s) + 1] = e
  OBVIOUS
<1> HIDE DEF t
<1>2. DOMAIN t = 1 .. Len(s) + 1 /\ DOMAIN s = 1 .. Len(s)
  BY <1>1
<1>3. NoDuplicates(t)
  BY <1>1, <1>2 DEF NoDuplicates, Elements
<1>4. ASSUME NEW x \in Elements(t) PROVE x \in Elements(s) \cup {e}
  BY <1>1, <1>2, <1>4 DEF Elements
<1>5. ASSUME NEW x \in Elements(s) \cup {e} PROVE x \in Elements(t)
  BY <1>1, <1>2 DEF Elements
<1> QED
  BY <1>1, <1>3, <1>4, <1>5 DEF t

LEMMA EmptySequence == Elements(<< >>) = {} /\ NoDuplicates(<< >>)
  BY DEF Elements, NoDuplicates

-----------------------------------------------------------------------------
(* The two facts about the constants that the lemmas below need. *)
LEMMA PriorityTyped == PriorityOf \in [Requests -> Priorities]
BY ConstantsAssumption, Zenon

LEMMA NoneApart == None \notin Requests /\ None \notin Threads
BY ConstantsAssumption, Zenon

(* What the four ways to change the pending lists do to them. *)
LEMMA QueueTake ==
    ASSUME TypeSched, QueueShape, NEW p \in Priorities, NEW i \in 1 .. Len(queue[p]),
           TakeAt(p, i)
    PROVE  /\ queue[p][i] \in Requests /\ PriorityOf[queue[p][i]] = p
           /\ InQueue(queue[p][i])
           /\ queue' \in [Priorities -> Seq(Requests)] /\ QueueShape'
           /\ Len(queue'[p]) + 1 = Len(queue[p])
           /\ \A q \in Requests : InQueue(q)' <=> InQueue(q) /\ q # queue[p][i]
<1> USE PriorityTyped
<1>1. queue \in [Priorities -> Seq(Requests)]
  BY Zenon DEF TypeSched
<1> DEFINE s == queue[p]  t == Without(s, i)
<1>2. s \in Seq(Requests) /\ NoDuplicates(s) /\ \A r \in Elements(s) : PriorityOf[r] = p
  BY <1>1, Zenon DEF QueueShape
<1>3. s[i] \in Requests /\ s[i] \in Elements(s) /\ Len(s) \in Nat
  BY <1>2 DEF Elements
<1>4. /\ t \in Seq(Requests) /\ Len(t) = Len(s) - 1 /\ NoDuplicates(t)
      /\ Elements(t) = Elements(s) \ {s[i]}
  BY <1>2, WithoutSet, Zenon
<1> HIDE DEF t
<1>5. queue' = [queue EXCEPT ![p] = t]
  BY Zenon DEF TakeAt, Unlink, t
<1>6. queue'[p] = t /\ \A x \in Priorities \ {p} : queue'[x] = queue[x]
  BY <1>1, <1>5, Zenon
<1>7. QueueShape'
  BY <1>2, <1>4, <1>6, Zenon DEF QueueShape
<1>8. \A q \in Requests : InQueue(q)' <=> InQueue(q) /\ q # s[i]
  BY <1>2, <1>3, <1>4, <1>6, ZenonT(40) DEF InQueue
<1>9. InQueue(s[i])
  BY <1>2, <1>3, Zenon DEF InQueue
<1> QED
  BY <1>1, <1>2, <1>3, <1>4, <1>5, <1>6, <1>7, <1>8, <1>9, SMTT(30)

LEMMA QueuePush ==
    ASSUME TypeSched, QueueShape, NEW r \in Requests, ~InQueue(r),
           queue' = PushTail(queue, r)
    PROVE  /\ queue' \in [Priorities -> Seq(Requests)] /\ QueueShape'
           /\ \A q \in Requests : InQueue(q)' <=> InQueue(q) \/ q = r
<1> USE PriorityTyped
<1> DEFINE p == PriorityOf[r]  s == queue[p]  t == Append(s, r)
<1>1. queue \in [Priorities -> Seq(Requests)] /\ p \in Priorities
  BY Zenon DEF TypeSched
<1>2. /\ s \in Seq(Requests) /\ NoDuplicates(s) /\ r \notin Elements(s)
      /\ \A q \in Elements(s) : PriorityOf[q] = p
  BY <1>1, Zenon DEF QueueShape, InQueue
<1>3. t \in Seq(Requests) /\ Elements(t) = Elements(s) \cup {r} /\ NoDuplicates(t)
  BY <1>2, AppendSet
<1> HIDE DEF t
<1>4. queue' = [queue EXCEPT ![p] = t]
  BY Zenon DEF PushTail, t
<1>5. queue'[p] = t /\ \A x \in Priorities \ {p} : queue'[x] = queue[x]
  BY <1>1, <1>4, ZenonT(40)
<1>6. QueueShape'
  BY <1>2, <1>3, <1>5, ZenonT(40) DEF QueueShape
<1>7. \A q \in Requests : InQueue(q)' <=> InQueue(q) \/ q = r
  BY <1>1, <1>2, <1>3, <1>5, Zenon DEF InQueue
<1> QED
  BY <1>1, <1>3, <1>4, <1>6, <1>7, SMTT(30)

LEMMA QueueRestore ==
    ASSUME TypeSched, QueueShape, NEW r \in Requests, ~InQueue(r),
           NEW i \in 1 .. Len(queue[PriorityOf[r]]) + 1,
           queue' = [queue EXCEPT ![PriorityOf[r]] = Restore(@, i, r)]
    PROVE  /\ queue' \in [Priorities -> Seq(Requests)] /\ QueueShape'
           /\ \A q \in Requests : InQueue(q)' <=> InQueue(q) \/ q = r
<1> USE PriorityTyped
<1> DEFINE p == PriorityOf[r]  s == queue[p]  t == WithAt(s, i, r)
<1>1. queue \in [Priorities -> Seq(Requests)] /\ p \in Priorities
  BY Zenon DEF TypeSched
<1>2. /\ s \in Seq(Requests) /\ NoDuplicates(s) /\ r \notin Elements(s)
      /\ \A q \in Elements(s) : PriorityOf[q] = p
  BY <1>1, Zenon DEF QueueShape, InQueue
<1>3. t \in Seq(Requests) /\ Elements(t) = Elements(s) \cup {r} /\ NoDuplicates(t)
  BY <1>2, WithAtSet
<1> HIDE DEF t
<1>4. queue' = [queue EXCEPT ![p] = t]
  BY Zenon DEF Restore, t
<1>5. queue'[p] = t /\ \A x \in Priorities \ {p} : queue'[x] = queue[x]
  BY <1>1, <1>4, Zenon
<1>6. QueueShape'
  BY <1>2, <1>3, <1>5, ZenonT(40) DEF QueueShape
<1>7. \A q \in Requests : InQueue(q)' <=> InQueue(q) \/ q = r
  BY <1>1, <1>2, <1>3, <1>5, Zenon DEF InQueue
<1> QED
  BY <1>1, <1>3, <1>4, <1>6, <1>7, SMTT(30)

LEMMA QueueDetach ==
    ASSUME queue' = [p \in Priorities |-> << >>]
    PROVE  /\ queue' \in [Priorities -> Seq(Requests)] /\ QueueShape'
           /\ \A q \in Requests : ~InQueue(q)'
<1> USE PriorityTyped
<1>1. queue' \in [Priorities -> Seq(Requests)]
  OBVIOUS
<1>2. \A p \in Priorities : queue'[p] = << >>
  BY Zenon
<1> QED
  BY <1>1, <1>2, EmptySequence, Zenon DEF QueueShape, InQueue

LEMMA QueueSame ==
    ASSUME queue' = queue
    PROVE  /\ QueueShape <=> QueueShape'
           /\ \A q \in Requests : InQueue(q)' <=> InQueue(q)
BY Zenon DEF QueueShape, InQueue

(* A detached job leaves no trace in the lists. *)
LEMMA DetachOrKeep ==
    ASSUME TypeSched, QueueShape, NEW t,
           DetachPending(t) \/ queue' = queue
    PROVE  queue' \in [Priorities -> Seq(Requests)] /\ QueueShape'
<1>1. CASE DetachPending(t)
  BY <1>1, QueueDetach, Zenon DEF DetachPending
<1>2. CASE queue' = queue
  BY <1>2, QueueSame, Zenon DEF TypeSched
<1> QED
  BY <1>1, <1>2, Zenon

(* No job is in the hand while rest_lock is free, nor when a loop begins. *)
LEMMA EmptyHand ==
    /\ LockFree => drain.taken = None
    /\ \A t, a, g : Draining(t, a, g).taken = None
    /\ NoDrain.taken = None
BY DEF LockFree, NoDrain, Draining

LEMMA ThreadNames ==
    /\ Bulk \in Threads /\ Destroyer \in Threads /\ \A r \in Requests : Worker(r) \in Threads
    /\ \A t \in Threads : t # None
<1>1. Bulk \in Threads /\ Destroyer \in Threads
  BY SMTT(30) DEF Threads
<1>2. ASSUME NEW r \in Requests PROVE Worker(r) \in Threads
  <2>1. <<"worker", r>> \in {<<k, q>> : k \in {"submit", "worker", "cancel"}, q \in Requests}
    OBVIOUS
  <2> QED
    BY <2>1, SMTT(30) DEF Threads, Worker
<1> QED
  BY <1>1, <1>2, NoneApart, Zenon

(* A step that touches nothing the place of job q depends on. *)
JobSame(q) ==
    /\ sub'[q] = sub[q] /\ resource_state'[q] = resource_state[q] /\ worker'[q] = worker[q]
    /\ owner'[q] = owner[q] /\ terminal'[q] = terminal[q]
    /\ InQueue(q)' <=> InQueue(q)
    /\ drain'.taken = q <=> drain.taken = q

LEMMA PlaceKept == ASSUME NEW q \in Requests, PlaceOf(q), JobSame(q) PROVE PlaceOf(q)'
BY Zenon DEF JobSame, PlaceOf, Live, Charged

LEMMA PlacesSame ==
    ASSUME Places, drain'.taken = drain.taken,
           UNCHANGED <<queue, sub, resource_state, worker, owner, terminal>>
    PROVE  Places'
<1> SUFFICES ASSUME NEW q \in Requests PROVE PlaceOf(q)'
  BY Zenon DEF Places
<1>1. PlaceOf(q) /\ JobSame(q)
  BY QueueSame, Zenon DEF Places, JobSame
<1> QED
  BY <1>1, PlaceKept, Zenon

(* A step that moves one job. *)
LEMMA PlacesAt ==
    ASSUME Places, NEW r \in Requests, \A q \in Requests : q # r => JobSame(q), PlaceOf(r)'
    PROVE  Places'
<1> SUFFICES ASSUME NEW q \in Requests PROVE PlaceOf(q)'
  BY Zenon DEF Places
<1>1. CASE q = r
  BY <1>1, Zenon
<1>2. CASE q # r
  <2>1. PlaceOf(q) /\ JobSame(q)
    BY <1>2, Zenon DEF Places
  <2> QED
    BY <2>1, PlaceKept, Zenon
<1> QED
  BY <1>1, <1>2, Zenon

(* What is known of a job by its place. *)
LEMMA Unlisted ==
    ASSUME NEW r \in Requests, PlaceOf(r), ~Live(r)
    PROVE  /\ ~InQueue(r) /\ drain.taken # r /\ worker[r] = "none" /\ owner[r] = None
           /\ terminal[r] = 0 /\ resource_state[r] = Charged(sub[r])
BY Zenon DEF PlaceOf

LEMMA AtWork ==
    ASSUME NEW r \in Requests, PlaceOf(r), worker[r] # "none"
    PROVE  /\ ~InQueue(r) /\ drain.taken # r /\ owner[r] = None /\ Live(r)
           /\ resource_state[r] = 2
           /\ worker[r] \in {"delivered", "complete", "free"} => terminal[r] = 1
           /\ worker[r] \notin {"delivered", "complete", "free"} => terminal[r] = 0
BY Zenon DEF PlaceOf

(* A submission moves on outside the queue. *)
LEMMA SubMoves ==
    ASSUME Places, sub \in [Requests -> SubStates], resource_state \in [Requests -> 0 .. 2],
           NEW r \in Requests, ~Live(r), NEW s \in SubStates, s \notin {"queued", "accepted"},
           sub' = [sub EXCEPT ![r] = s], NEW n, n = Charged(s),
           resource_state' = [resource_state EXCEPT ![r] = n],
           UNCHANGED <<queue, drain, worker, owner, terminal>>
    PROVE  Places'
<1>1. PlaceOf(r)
  BY Zenon DEF Places
<1>2. /\ ~InQueue(r)' /\ drain'.taken # r /\ worker'[r] = "none" /\ owner'[r] = None
      /\ terminal'[r] = 0
  BY <1>1, QueueSame, Unlisted, Zenon
<1>3. sub'[r] = s /\ resource_state'[r] = n
  BY Zenon
<1>4. \A q \in Requests : q # r => JobSame(q)
  BY QueueSame, Zenon DEF JobSame
<1>5. ~Live(r)' /\ resource_state'[r] = Charged(sub[r])'
  BY <1>3, Zenon DEF Live, Charged
<1>6. PlaceOf(r)'
  BY <1>2, <1>5, Zenon DEF PlaceOf
<1> QED
  BY <1>4, <1>6, PlacesAt, Zenon

(* A worker moves on, on this side of the delivery or on the other. *)
LEMMA WorkerMoves ==
    ASSUME Places, worker \in [Requests -> WorkerStates], terminal \in [Requests -> Nat],
           NEW r \in Requests, worker[r] # "none",
           NEW w \in WorkerStates, w # "none", worker' = [worker EXCEPT ![r] = w],
           NEW n, terminal' = [terminal EXCEPT ![r] = n],
           w \in {"delivered", "complete", "free"} => n = 1,
           w \notin {"delivered", "complete", "free"} => n = 0,
           drain.taken = None, drain'.taken = None,
           UNCHANGED <<queue, sub, resource_state, owner>>
    PROVE  Places'
<1>1. PlaceOf(r)
  BY Zenon DEF Places
<1>2. /\ ~InQueue(r)' /\ drain'.taken # r /\ owner'[r] = None
      /\ Live(r)' /\ resource_state'[r] = 2
  BY <1>1, QueueSame, AtWork, NoneApart, Zenon DEF Live
<1>3. worker'[r] = w /\ terminal'[r] = n
  BY Zenon
<1>4. \A q \in Requests : q # r => JobSame(q)
  BY QueueSame, Zenon DEF JobSame
<1>5. 2 # 0
  OBVIOUS
<1>6. PlaceOf(r)'
  BY <1>2, <1>3, <1>5, Zenon DEF PlaceOf
<1> QED
  BY <1>4, <1>6, PlacesAt, Zenon

(* The same while a drain loop holds another job. *)
LEMMA WorkerGoesOn ==
    ASSUME Places, worker \in [Requests -> WorkerStates],
           NEW r \in Requests, worker[r] # "none",
           NEW w \in WorkerStates, w # "none", worker' = [worker EXCEPT ![r] = w],
           w \in {"delivered", "complete", "free"} <=> worker[r] \in {"delivered", "complete", "free"},
           UNCHANGED <<queue, drain, sub, resource_state, owner, terminal>>
    PROVE  Places'
<1>1. PlaceOf(r)
  BY Zenon DEF Places
<1>2. /\ ~InQueue(r)' /\ drain'.taken # r /\ owner'[r] = None
      /\ Live(r)' /\ resource_state'[r] = 2
  BY <1>1, QueueSame, AtWork, Zenon DEF Live
<1>3. worker'[r] = w
  BY Zenon
<1>4. /\ worker'[r] \in {"delivered", "complete", "free"} => terminal'[r] = 1
      /\ worker'[r] \notin {"delivered", "complete", "free"} => terminal'[r] = 0
  BY <1>1, <1>3, AtWork, Zenon
<1>5. \A q \in Requests : q # r => JobSame(q)
  BY QueueSame, Zenon DEF JobSame
<1>6. 2 # 0
  OBVIOUS
<1>7. PlaceOf(r)'
  BY <1>2, <1>3, <1>4, <1>6, Zenon DEF PlaceOf
<1> QED
  BY <1>5, <1>7, PlacesAt, Zenon

(* Thread t detaches the pending lists and becomes the owner of their jobs. *)
LEMMA Detaches ==
    ASSUME Places, NEW t \in Threads, DetachPending(t),
           drain'.taken = drain.taken, UNCHANGED <<sub, resource_state, terminal, worker>>
    PROVE  Places'
<1> SUFFICES ASSUME NEW q \in Requests PROVE PlaceOf(q)'
  BY Zenon DEF Places
<1>1. PlaceOf(q) /\ ~InQueue(q)' /\ owner'[q] = IF InQueue(q) THEN t ELSE owner[q]
  BY QueueDetach, Zenon DEF DetachPending, Places
<1>2. CASE InQueue(q)
  <2>1. /\ Live(q)' /\ resource_state'[q] = 1 /\ terminal'[q] = 0 /\ worker'[q] = "none"
        /\ drain'.taken # q /\ owner'[q] = t /\ t # None
    BY <1>1, <1>2, ThreadNames, Zenon DEF PlaceOf, Live
  <2>2. 1 # 0
    OBVIOUS
  <2> QED
    BY <1>1, <2>1, <2>2, Zenon DEF PlaceOf
<1>3. CASE ~InQueue(q)
  <2>1. JobSame(q)
    BY <1>1, <1>3, Zenon DEF JobSame
  <2> QED
    BY <1>1, <2>1, PlaceKept, Zenon
<1> QED
  BY <1>2, <1>3, Zenon

(* Where a job is decides its charge, its progress and its terminal: one  *)
(* lemma for each group of steps.                                          *)
LEMMA PlacesSubmit == ASSUME IndInv, NEW r \in Requests, SubmitStep(r) PROVE Places'
<1>1. /\ TypeSched /\ QueueShape /\ Places /\ PlaceOf(r)
      /\ sub \in [Requests -> SubStates] /\ resource_state \in [Requests -> 0 .. 2]
  BY Zenon DEF IndInv, TypeOK, TypeRes, TypeThreads, Places
<1> USE DEF sched, res, work, cancels, client
<1>2. ASSUME NEW s \in SubStates, s \notin {"queued", "accepted", "reserved", "rejecting"},
             ~Live(r), Charged(sub[r]) = 0, sub' = [sub EXCEPT ![r] = s],
             UNCHANGED <<queue, drain, worker, owner, terminal, resource_state>>
      PROVE  Places'
  <2>1. resource_state[r] = 0 /\ Charged(s) = 0
    BY <1>1, <1>2, Unlisted, Zenon DEF Charged
  <2>2. resource_state' = [resource_state EXCEPT ![r] = 0]
    BY <1>1, <1>2, <2>1, Zenon
  <2> QED
    BY <1>1, <1>2, <2>1, <2>2, SubMoves, Zenon
<1>3. CASE OperationBegin(r)
  <2>1. PICK s \in {"refused", "begun"} : sub' = [sub EXCEPT ![r] = s]
    BY <1>3, Zenon DEF OperationBegin
  <2>2. s \in SubStates /\ s \notin {"queued", "accepted", "reserved", "rejecting"}
    BY <2>1, Zenon DEF SubStates
  <2>3. ~Live(r) /\ Charged(sub[r]) = 0
    BY <1>3, Zenon DEF OperationBegin, Live, Charged
  <2>4. UNCHANGED <<queue, drain, worker, owner, terminal, resource_state>>
    BY <1>3, Zenon DEF OperationBegin
  <2> QED
    BY <1>2, <2>1, <2>2, <2>3, <2>4, Zenon
<1>4. CASE SubmitReserve(r)
  <2>1. "reserved" \in SubStates /\ "reserved" \notin {"queued", "accepted"} /\ Charged("reserved") = 1
    BY Zenon DEF SubStates, Charged
  <2>2. ~Live(r) /\ sub' = [sub EXCEPT ![r] = "reserved"]
    BY <1>4, Zenon DEF SubmitReserve, Live
  <2>3. /\ resource_state' = [resource_state EXCEPT ![r] = 1]
        /\ UNCHANGED <<queue, drain, worker, owner, terminal>>
    BY <1>4, Zenon DEF SubmitReserve, ReserveQueued
  <2> QED
    BY <1>1, <2>1, <2>2, <2>3, SubMoves, Zenon
<1>5. "refusing" \in SubStates /\ "refusing" \notin {"queued", "accepted", "reserved", "rejecting"}
      /\ Charged("refusing") = 0
  BY Zenon DEF SubStates, Charged
<1>6. CASE SubmitRejected(r)
  <2>1. ~Live(r) /\ Charged(sub[r]) = 0
    BY <1>6, Zenon DEF SubmitRejected, Live, Charged
  <2>2. /\ sub' = [sub EXCEPT ![r] = "refusing"]
        /\ UNCHANGED <<queue, drain, worker, owner, terminal, resource_state>>
    BY <1>6, Zenon DEF SubmitRejected
  <2> QED
    BY <1>2, <1>5, <2>1, <2>2, Zenon
<1>7. CASE SubmitNoMemory(r)
  <2>1. ~Live(r)
    BY <1>7, Zenon DEF SubmitNoMemory, Live
  <2>2. /\ sub' = [sub EXCEPT ![r] = "refusing"]
        /\ resource_state' = [resource_state EXCEPT ![r] = 0]
        /\ UNCHANGED <<queue, drain, worker, owner, terminal>>
    BY <1>7, Zenon DEF SubmitNoMemory, ReleaseRequest
  <2> QED
    BY <1>1, <1>5, <2>1, <2>2, SubMoves, Zenon
<1>8. CASE SubmitFreeRejected(r)
  <2>1. ~Live(r)
    BY <1>8, Zenon DEF SubmitFreeRejected, Live
  <2>2. /\ sub' = [sub EXCEPT ![r] = "refusing"]
        /\ resource_state' = [resource_state EXCEPT ![r] = 0]
        /\ UNCHANGED <<queue, drain, worker, owner, terminal>>
    BY <1>8, Zenon DEF SubmitFreeRejected, FreeJob, ReleaseRequest
  <2> QED
    BY <1>1, <1>5, <2>1, <2>2, SubMoves, Zenon
<1>9. CASE SubmitReturn(r)
  <2>1. UNCHANGED <<queue, drain, worker, owner, terminal, resource_state>>
    BY <1>9, Zenon DEF SubmitReturn
  <2>2. CASE sub[r] = "refusing" /\ sub' = [sub EXCEPT ![r] = "refused"]
    <3>1. "refused" \in SubStates /\ "refused" \notin {"queued", "accepted", "reserved", "rejecting"}
      BY Zenon DEF SubStates
    <3>2. ~Live(r) /\ Charged(sub[r]) = 0
      BY <2>2, Zenon DEF Live, Charged
    <3> QED
      BY <1>2, <2>1, <2>2, <3>1, <3>2, Zenon
  <2>3. CASE sub[r] = "queued" /\ sub' = [sub EXCEPT ![r] = "accepted"]
    <3>1. \A q \in Requests : q # r => JobSame(q)
      BY <1>1, <2>1, <2>3, QueueSame, Zenon DEF JobSame
    <3>2. Live(r) /\ Live(r)' /\ (InQueue(r)' <=> InQueue(r))
      BY <1>1, <2>1, <2>3, QueueSame, Zenon DEF Live
    <3>3. PlaceOf(r)'
      BY <1>1, <2>1, <3>2, Zenon DEF PlaceOf
    <3> QED
      BY <1>1, <3>1, <3>3, PlacesAt, Zenon
  <2> QED
    BY <1>9, <2>2, <2>3, Zenon DEF SubmitReturn
<1>10. CASE SubmitEnqueue(r)
  <2>1. /\ sub[r] = "reserved" /\ sub' = [sub EXCEPT ![r] = "queued"]
        /\ UNCHANGED <<resource_state, worker, owner, terminal>>
        /\ drain.taken = None /\ drain'.taken = None
    BY <1>10, EmptyHand, Zenon DEF SubmitEnqueue
  <2>2. ~Live(r) /\ Charged(sub[r]) = 1
    BY <2>1, Zenon DEF Live, Charged
  <2>3. \A q \in Requests : InQueue(q)' <=> InQueue(q) \/ q = r
    BY <1>1, <1>10, <2>2, Unlisted, QueuePush, Zenon DEF SubmitEnqueue
  <2>4. \A q \in Requests : q # r => JobSame(q)
    BY <1>1, <2>1, <2>3, Zenon DEF JobSame
  <2>5. /\ Live(r)' /\ resource_state'[r] = 1 /\ terminal'[r] = 0 /\ worker'[r] = "none"
        /\ owner'[r] = None /\ InQueue(r)' /\ drain'.taken # r
    BY <1>1, <2>1, <2>2, <2>3, Unlisted, NoneApart, Zenon DEF Live
  <2>6. 1 # 0
    OBVIOUS
  <2>7. PlaceOf(r)'
    BY <2>5, <2>6, Zenon DEF PlaceOf
  <2> QED
    BY <1>1, <2>4, <2>7, PlacesAt, Zenon
<1> QED
  BY <1>3, <1>4, <1>6, <1>7, <1>8, <1>9, <1>10, Zenon DEF SubmitStep

LEMMA PlacesWorker == ASSUME IndInv, NEW r \in Requests, WorkerStep(r) PROVE Places'
<1>1. /\ TypeSched /\ QueueShape /\ Places /\ PlaceOf(r)
      /\ worker \in [Requests -> WorkerStates] /\ resource_state \in [Requests -> 0 .. 2]
      /\ terminal \in [Requests -> Nat]
  BY Zenon DEF IndInv, TypeOK, TypeRes, TypeThreads, TypeFlags, Places
<1> USE DEF sched, res, work, cancels, client
<1>2. ASSUME NEW v \in WorkerStates, NEW w \in WorkerStates, v # "none", w # "none",
             v \notin {"delivered", "complete", "free"}, w \notin {"delivered", "complete", "free"},
             worker[r] = v, worker' = [worker EXCEPT ![r] = w],
             UNCHANGED <<queue, drain, sub, resource_state, owner, terminal>>
      PROVE  Places'
  BY <1>1, <1>2, WorkerGoesOn, Zenon
<1>3. {"start", "http", "classify", "backoff", "retry", "requeue", "deliver"} \subseteq
         {s \in WorkerStates : s # "none" /\ s \notin {"delivered", "complete", "free"}}
  BY Zenon DEF WorkerStates
<1>4. ASSUME \E v, w \in {"start", "http", "classify", "backoff", "retry", "requeue", "deliver"} :
                worker[r] = v /\ worker' = [worker EXCEPT ![r] = w],
             UNCHANGED <<queue, drain, sub, resource_state, owner, terminal>>
      PROVE  Places'
  BY <1>2, <1>3, <1>4, Zenon
<1>5. CASE WorkerStart(r)
  BY <1>4, <1>5, Zenon DEF WorkerStart
<1>6. CASE HttpFails(r)
  BY <1>4, <1>6, Zenon DEF HttpFails
<1>7. CASE HttpResponse(r)
  BY <1>4, <1>7, Zenon DEF HttpResponse
<1>8. CASE Classify(r)
  <2>1. \E w \in {"backoff", "deliver"} : worker' = [worker EXCEPT ![r] = w]
    BY <1>8, Zenon DEF Classify
  <2>2. worker[r] = "classify" /\ UNCHANGED <<queue, drain, sub, resource_state, owner, terminal>>
    BY <1>8, Zenon DEF Classify
  <2> QED
    BY <1>4, <2>1, <2>2, Zenon
<1>9. CASE Backoff(r)
  BY <1>4, <1>9, Zenon DEF Backoff
<1>10. CASE ReleaseResponse(r)
  <2>1. UNCHANGED <<queue, drain, sub, resource_state, owner, terminal>>
    BY <1>10, Zenon DEF ReleaseResponse
  <2>2. CASE worker[r] = "retry" /\ worker' = [worker EXCEPT ![r] = "requeue"]
    BY <1>4, <2>1, <2>2, Zenon
  <2>3. CASE worker[r] = "delivered" /\ worker' = [worker EXCEPT ![r] = "complete"]
    <3>1. "complete" \in WorkerStates
      BY Zenon DEF WorkerStates
    <3> QED
      BY <1>1, <2>1, <2>3, <3>1, WorkerGoesOn, Zenon
  <2> QED
    BY <1>10, <2>2, <2>3, Zenon DEF ReleaseResponse
<1>11. CASE RetryAbandoned(r)
  BY <1>4, <1>11, Zenon DEF RetryAbandoned
<1>12. CASE Deliver(r)
  <2>1. /\ worker[r] = "deliver" /\ worker' = [worker EXCEPT ![r] = "delivered"]
        /\ terminal' = [terminal EXCEPT ![r] = terminal[r] + 1]
        /\ UNCHANGED <<queue, drain, sub, resource_state, owner>>
    BY <1>12, Zenon DEF Deliver
  <2>2. /\ ~InQueue(r) /\ drain.taken # r /\ owner[r] = None /\ Live(r)
        /\ resource_state[r] = 2 /\ terminal[r] = 0
    BY <1>1, <2>1, AtWork, Zenon
  <2>3. \A q \in Requests : q # r => JobSame(q)
    BY <1>1, <2>1, QueueSame, Zenon DEF JobSame
  <2>4. 0 + 1 = 1 /\ 2 # 0
    OBVIOUS
  <2>5. worker'[r] = "delivered" /\ terminal'[r] = 1
    BY <1>1, <2>1, <2>2, <2>4, Zenon
  <2>6. ~InQueue(r)' /\ drain'.taken # r /\ owner'[r] = None /\ Live(r)' /\ resource_state'[r] = 2
    BY <2>1, <2>2, QueueSame, Zenon DEF Live
  <2>7. PlaceOf(r)'
    BY <2>4, <2>5, <2>6, Zenon DEF PlaceOf
  <2> QED
    BY <1>1, <2>3, <2>7, PlacesAt, Zenon
<1>13. CASE WorkerFree(r)
  <2>1. /\ worker[r] = "free" /\ worker' = [worker EXCEPT ![r] = "none"]
        /\ resource_state' = [resource_state EXCEPT ![r] = 0]
        /\ UNCHANGED <<queue, drain, sub, terminal, owner>>
    BY <1>13, Zenon DEF WorkerFree, FreeJob, ReleaseRequest
  <2>2. ~InQueue(r) /\ drain.taken # r /\ owner[r] = None /\ Live(r) /\ terminal[r] = 1
    BY <1>1, <2>1, AtWork, Zenon
  <2>3. \A q \in Requests : q # r => JobSame(q)
    BY <1>1, <2>1, QueueSame, Zenon DEF JobSame
  <2>4. worker'[r] = "none" /\ resource_state'[r] = 0
    BY <1>1, <2>1, Zenon
  <2>5. ~InQueue(r)' /\ drain'.taken # r /\ owner'[r] = None /\ Live(r)' /\ terminal'[r] = 1
    BY <2>1, <2>2, QueueSame, Zenon DEF Live
  <2>6. PlaceOf(r)'
    BY <2>4, <2>5, Zenon DEF PlaceOf
  <2> QED
    BY <1>1, <2>3, <2>6, PlacesAt, Zenon
<1>14. CASE RequeueRetry(r)
  <2>1. /\ worker[r] = "requeue" /\ worker' = [worker EXCEPT ![r] = "none"]
        /\ drain.taken = None /\ drain'.taken = None /\ UNCHANGED <<sub, owner, terminal>>
    BY <1>14, EmptyHand, Zenon DEF RequeueRetry
  <2>2. /\ ~InQueue(r) /\ owner[r] = None /\ Live(r) /\ resource_state[r] = 2 /\ terminal[r] = 0
    BY <1>1, <2>1, AtWork, Zenon
  <2>3. resource_state' = [resource_state EXCEPT ![r] = 1]
    BY <1>14, <2>2, Zenon DEF RequeueRetry, Requeue
  <2>4. \A q \in Requests : InQueue(q)' <=> InQueue(q) \/ q = r
    BY <1>1, <1>14, <2>2, QueuePush, Zenon DEF RequeueRetry
  <2>5. \A q \in Requests : q # r => JobSame(q)
    BY <1>1, <2>1, <2>3, <2>4, Zenon DEF JobSame
  <2>6. /\ InQueue(r)' /\ drain'.taken # r /\ owner'[r] = None /\ Live(r)' /\ terminal'[r] = 0
        /\ worker'[r] = "none" /\ resource_state'[r] = 1
    BY <1>1, <2>1, <2>2, <2>3, <2>4, NoneApart, Zenon DEF Live
  <2>7. 1 # 0
    OBVIOUS
  <2>8. PlaceOf(r)'
    BY <2>6, <2>7, Zenon DEF PlaceOf
  <2> QED
    BY <1>1, <2>5, <2>8, PlacesAt, Zenon
<1>15. CASE Complete(r)
  <2>1. /\ worker[r] = "complete" /\ worker' = [worker EXCEPT ![r] = "free"]
        /\ drain.taken = None /\ UNCHANGED <<sub, resource_state, terminal>>
    BY <1>15, EmptyHand, Zenon DEF Complete
  <2>2. drain'.taken = None
    BY <1>15, EmptyHand, Zenon DEF Complete
  <2>3. "free" \in WorkerStates
    BY Zenon DEF WorkerStates
  <2>4. ~InQueue(r) /\ owner[r] = None /\ Live(r) /\ resource_state[r] = 2 /\ terminal[r] = 1
    BY <1>1, <2>1, AtWork, Zenon
  <2>5. CASE stopping
    <3>1. DetachPending(Worker(r))
      BY <1>15, <2>5, Zenon DEF Complete
    <3>2. \A q \in Requests : ~InQueue(q)' /\ owner'[q] = IF InQueue(q) THEN Worker(r) ELSE owner[q]
      BY <3>1, QueueDetach, Zenon DEF DetachPending
    <3>3. \A q \in Requests : q # r => worker'[q] = worker[q]
      BY <1>1, <2>1, Zenon
    <3>4. ASSUME NEW q \in Requests, q # r, InQueue(q) PROVE PlaceOf(q)'
      <4>1. PlaceOf(q)
        BY <1>1, Zenon DEF Places
      <4>2. /\ Live(q)' /\ resource_state'[q] = 1 /\ terminal'[q] = 0 /\ worker'[q] = "none"
            /\ ~InQueue(q)' /\ drain'.taken # q /\ owner'[q] # None
        BY <2>1, <2>2, <3>2, <3>3, <3>4, <4>1, ThreadNames, NoneApart, Zenon DEF PlaceOf, Live
      <4>3. 1 # 0
        OBVIOUS
      <4> QED
        BY <4>2, <4>3, Zenon DEF PlaceOf
    <3>5. ASSUME NEW q \in Requests, q # r, ~InQueue(q) PROVE PlaceOf(q)'
      <4>1. PlaceOf(q) /\ JobSame(q)
        BY <1>1, <2>1, <2>2, <3>2, <3>3, <3>5, Zenon DEF JobSame, Places
      <4> QED
        BY <4>1, PlaceKept, Zenon
    <3>6. PlaceOf(r)'
      <4>1. /\ Live(r)' /\ resource_state'[r] = 2 /\ terminal'[r] = 1 /\ worker'[r] = "free"
            /\ ~InQueue(r)' /\ drain'.taken # r /\ owner'[r] = None
        BY <1>1, <2>1, <2>2, <2>4, <3>2, NoneApart, Zenon DEF Live
      <4>2. 2 # 0
        OBVIOUS
      <4> QED
        BY <4>1, <4>2, Zenon DEF PlaceOf
    <3> QED
      BY <3>4, <3>5, <3>6, Zenon DEF Places
  <2>6. CASE ~stopping
    <3>1. UNCHANGED <<queue, owner>>
      BY <1>15, <2>6, Zenon DEF Complete
    <3>2. terminal' = [terminal EXCEPT ![r] = 1]
      BY <1>1, <2>1, <2>4, Zenon
    <3> QED
      BY <1>1, <2>1, <2>2, <2>3, <3>1, <3>2, WorkerMoves, Zenon
  <2> QED
    BY <2>5, <2>6, Zenon
<1> QED
  BY <1>5, <1>6, <1>7, <1>8, <1>9, <1>10, <1>11, <1>12, <1>13, <1>14, <1>15, Zenon DEF WorkerStep

LEMMA PlacesCancel == ASSUME IndInv, NEW r \in Requests, CancelStep(r) PROVE Places'
<1>1. /\ Places /\ PlaceOf(r) /\ owner \in [Requests -> Threads \cup {None}]
      /\ resource_state \in [Requests -> 0 .. 2] /\ terminal \in [Requests -> Nat]
  BY Zenon DEF IndInv, TypeOK, TypeRes, TypeThreads, TypeFlags, Places
<1> USE DEF sched, res, work, cancels, client
<1>2. CASE CancelDetached(r)
  <2>1. /\ owner[r] # None
        /\ owner' = [owner EXCEPT ![r] = None]
        /\ terminal' = [terminal EXCEPT ![r] = terminal[r] + 1]
        /\ resource_state' = [resource_state EXCEPT ![r] = 0]
        /\ UNCHANGED <<queue, drain, sub, worker>>
    BY <1>2, Zenon DEF CancelDetached, FreeJob, ReleaseRequest
  <2>2. /\ ~InQueue(r) /\ drain.taken # r /\ worker[r] = "none" /\ Live(r) /\ terminal[r] = 0
    <3>1. 1 # 2
      OBVIOUS
    <3> QED
      BY <1>1, <2>1, <3>1, Zenon DEF PlaceOf
  <2>3. \A q \in Requests : q # r => JobSame(q)
    BY <1>1, <2>1, QueueSame, Zenon DEF JobSame
  <2>4. 0 + 1 = 1
    OBVIOUS
  <2>5. /\ ~InQueue(r)' /\ drain'.taken # r /\ worker'[r] = "none" /\ Live(r)'
        /\ terminal'[r] = 1 /\ owner'[r] = None /\ resource_state'[r] = 0
    BY <1>1, <2>1, <2>2, <2>4, QueueSame, Zenon DEF Live
  <2>6. PlaceOf(r)'
    BY <2>5, Zenon DEF PlaceOf
  <2> QED
    BY <1>1, <2>3, <2>6, PlacesAt, Zenon
<1>3. CASE RequestCancel(r)
  BY <1>1, <1>3, PlacesSame, Zenon DEF RequestCancel
<1>4. CASE RequestCancelLocked(r)
  <2>1. drain.taken = None /\ drain'.taken = None
    <3>1. LockFree
      BY <1>4, Zenon DEF RequestCancelLocked
    <3>2. drain' = drain \/ drain' = Draining(Canceler(r), None, TRUE)
      BY <1>4, Zenon DEF RequestCancelLocked
    <3> QED
      BY <3>1, <3>2, EmptyHand, Zenon
  <2>2. UNCHANGED <<queue, sub, resource_state, worker, owner, terminal>>
    BY <1>4, Zenon DEF RequestCancelLocked
  <2> QED
    BY <1>1, <2>1, <2>2, PlacesSame, Zenon
<1> QED
  BY <1>2, <1>3, <1>4, Zenon DEF CancelStep

LEMMA PlacesDrain == ASSUME IndInv, DrainStep PROVE Places'
<1>1. /\ TypeSched /\ TypeDrain /\ QueueShape /\ DrainPlace /\ Places
      /\ sub \in [Requests -> SubStates] /\ resource_state \in [Requests -> 0 .. 2]
      /\ worker \in [Requests -> WorkerStates]
  BY Zenon DEF IndInv, TypeOK, TypeRes, TypeThreads
<1> USE DEF sched, res, work, cancels, client
<1>2. CASE DrainStop
  <2>1. /\ drain'.taken = drain.taken
        /\ UNCHANGED <<queue, sub, resource_state, worker, owner, terminal>>
    BY <1>2, EmptyHand, Zenon DEF DrainStop, DrainReturns
  <2> QED
    BY <1>1, <2>1, PlacesSame, Zenon
<1>3. ASSUME NEW p \in Priorities, NEW i \in 1 .. Len(queue[p]), TakeAt(p, i),
              drain.taken = None
       PROVE  Places'
  <2>1. PICK r \in Requests : r = queue[p][i]
    BY <1>1, <1>3, QueueTake, Zenon
  <2>2. /\ InQueue(r) /\ \A q \in Requests : InQueue(q)' <=> InQueue(q) /\ q # r
    BY <1>1, <1>3, <2>1, QueueTake, Zenon
  <2>3. Taking(r, i).taken = r
    BY DEF Taking
  <2>4. /\ resource_state' = [resource_state EXCEPT ![r] = 2]
        /\ drain'.taken = r
        /\ UNCHANGED <<sub, worker, owner, terminal>>
    BY <1>3, <2>1, <2>3, Zenon DEF TakeAt, Activate
  <2>5. \A q \in Requests : q # r => JobSame(q)
    BY <1>1, <1>3, <2>2, <2>4, NoneApart, Zenon DEF JobSame
  <2>6. PlaceOf(r)
    BY <1>1, Zenon DEF Places
  <2>7. /\ ~InQueue(r)' /\ drain'.taken = r /\ worker'[r] = "none" /\ Live(r)'
        /\ terminal'[r] = 0 /\ owner'[r] = None /\ resource_state'[r] = 2
    BY <1>1, <2>2, <2>4, <2>6, Zenon DEF Live, PlaceOf
  <2>8. 2 # 0
    OBVIOUS
  <2>9. PlaceOf(r)'
    BY <2>7, <2>8, Zenon DEF PlaceOf
  <2> QED
    BY <1>1, <2>5, <2>9, PlacesAt, Zenon
<1>4. CASE DrainTake
  BY <1>3, <1>4, Zenon DEF DrainTake
<1>5. ASSUME drain.taken # None PROVE \E r \in Requests : r = drain.taken
  BY <1>1, <1>5, Zenon DEF TypeDrain
<1>6. CASE DrainSpawn
  <2>1. PICK r \in Requests : r = drain.taken
    BY <1>5, <1>6, Zenon DEF DrainSpawn
  <2>2. /\ worker' = [worker EXCEPT ![r] = "start"] /\ drain'.taken = None
        /\ UNCHANGED <<queue, sub, resource_state, owner, terminal>>
    BY <1>6, <2>1, EmptyHand, Zenon DEF DrainSpawn
  <2>3. PlaceOf(r)
    BY <1>1, Zenon DEF Places
  <2>4. \A q \in Requests : q # r => JobSame(q)
    BY <1>1, <2>1, <2>2, QueueSame, NoneApart, Zenon DEF JobSame
  <2>5. /\ ~InQueue(r)' /\ drain'.taken # r /\ worker'[r] = "start" /\ Live(r)'
        /\ terminal'[r] = 0 /\ owner'[r] = None /\ resource_state'[r] = 2
    BY <1>1, <2>1, <2>2, <2>3, QueueSame, NoneApart, Zenon DEF Live, PlaceOf
  <2>6. 2 # 0
    OBVIOUS
  <2>7. PlaceOf(r)'
    BY <2>5, <2>6, Zenon DEF PlaceOf
  <2> QED
    BY <1>1, <2>4, <2>7, PlacesAt, Zenon
<1>7. CASE DrainSpawnFails
  <2>1. PICK r \in Requests : r = drain.taken
    BY <1>5, <1>7, Zenon DEF DrainSpawnFails
  <2>2. PlaceOf(r)
    BY <1>1, Zenon DEF Places
  <2>3. /\ ~InQueue(r) /\ Live(r) /\ resource_state[r] = 2 /\ terminal[r] = 0
        /\ worker[r] = "none" /\ owner[r] = None
    BY <2>1, <2>2, Zenon DEF PlaceOf
  <2>4. drain'.taken = None /\ UNCHANGED <<worker, owner, terminal>>
    <3>1. drain' = Draining(drain.by, drain.admission, FALSE) \/ drain' = NoDrain
      BY <1>7, Zenon DEF DrainSpawnFails, DrainReturns
    <3>2. UNCHANGED <<worker, owner, terminal>>
      BY <1>7, Zenon DEF DrainSpawnFails
    <3> QED
      BY <3>1, <3>2, EmptyHand, Zenon
  <2>5. CASE r = drain.admission
    <3>1. /\ sub' = [sub EXCEPT ![r] = "rejecting"]
          /\ queue' = queue /\ resource_state' = resource_state
      BY <1>7, <2>1, <2>5, Zenon DEF DrainSpawnFails
    <3>2. \A q \in Requests : q # r => JobSame(q)
      BY <1>1, <2>1, <2>4, <3>1, QueueSame, NoneApart, Zenon DEF JobSame
    <3>3. sub'[r] = "rejecting"
      BY <1>1, <3>1, Zenon
    <3>4. ~Live(r)' /\ Charged(sub[r])' = 2
      BY <3>3, Zenon DEF Live, Charged
    <3>5. /\ ~InQueue(r)' /\ drain'.taken # r /\ worker'[r] = "none"
          /\ terminal'[r] = 0 /\ owner'[r] = None /\ resource_state'[r] = 2
      BY <2>1, <2>3, <2>4, <3>1, QueueSame, NoneApart, Zenon
    <3>6. PlaceOf(r)'
      BY <3>4, <3>5, Zenon DEF PlaceOf
    <3> QED
      BY <1>1, <3>2, <3>6, PlacesAt, Zenon
  <2>6. CASE r # drain.admission
    <3>1. /\ sub' = sub
          /\ queue' = [queue EXCEPT ![PriorityOf[r]] = Restore(@, drain.at, r)]
          /\ resource_state' = [resource_state EXCEPT ![r] = 1]
      BY <1>7, <2>1, <2>3, <2>6, Zenon DEF DrainSpawnFails, Requeue
    <3>2. drain.at \in 1 .. Len(queue[PriorityOf[r]]) + 1
      BY <1>1, <2>1, NoneApart, Zenon DEF DrainPlace
    <3>3. \A q \in Requests : InQueue(q)' <=> InQueue(q) \/ q = r
      BY <1>1, <2>3, <3>1, <3>2, QueueRestore, Zenon
    <3>4. \A q \in Requests : q # r => JobSame(q)
      BY <1>1, <2>1, <2>4, <3>1, <3>3, NoneApart, Zenon DEF JobSame
    <3>5. /\ InQueue(r)' /\ drain'.taken # r /\ worker'[r] = "none" /\ Live(r)'
          /\ terminal'[r] = 0 /\ owner'[r] = None /\ resource_state'[r] = 1
      BY <1>1, <2>1, <2>3, <2>4, <3>1, <3>3, NoneApart, Zenon DEF Live
    <3>6. 1 # 0
      OBVIOUS
    <3>7. PlaceOf(r)'
      BY <3>5, <3>6, Zenon DEF PlaceOf
    <3> QED
      BY <1>1, <3>4, <3>7, PlacesAt, Zenon
  <2> QED
    BY <2>5, <2>6, Zenon
<1> QED
  BY <1>2, <1>4, <1>6, <1>7, Zenon DEF DrainStep

LEMMA PlacesRest ==
    ASSUME IndInv, BulkCancel \/ WaitStep \/ TeardownStep \/ Tick \/ \E w \in wakes : RetryWake(w)
    PROVE  Places'
<1>1. Places
  BY Zenon DEF IndInv
<1> USE DEF sched, res, work, cancels, client
<1>2. ASSUME NEW w \in wakes, RetryWake(w) PROVE Places'
  BY <1>1, <1>2, EmptyHand, PlacesSame, Zenon DEF RetryWake
<1>3. CASE WaitCheck
  BY <1>1, <1>3, EmptyHand, PlacesSame, Zenon DEF WaitCheck
<1>4. ASSUME UNCHANGED <<queue, drain, sub, resource_state, worker, owner, terminal>>
       PROVE  Places'
  BY <1>1, <1>4, PlacesSame, Zenon
<1>5. CASE BulkCancel
  <2>1. drain'.taken = drain.taken /\ UNCHANGED <<sub, resource_state, terminal, worker>>
    BY <1>5, Zenon DEF BulkCancel
  <2>2. CASE DetachPending(Bulk)
    BY <1>1, <2>1, <2>2, ThreadNames, Detaches, Zenon
  <2>3. CASE UNCHANGED <<queue, owner>>
    BY <1>1, <2>1, <2>3, PlacesSame, Zenon
  <2> QED
    BY <1>5, <2>2, <2>3, Zenon DEF BulkCancel
<1>6. CASE TeardownCancelAll
  <2>1. /\ drain'.taken = drain.taken /\ DetachPending(Destroyer)
        /\ UNCHANGED <<sub, resource_state, terminal, worker>>
    BY <1>6, Zenon DEF TeardownCancelAll
  <2> QED
    BY <1>1, <2>1, ThreadNames, Detaches, Zenon
<1>7. ASSUME \/ WaitBegin \/ WaitElapsed \/ ClientStop \/ CloseAdmission
              \/ OperationsWait \/ RuntimeQuiesce \/ TeardownWait \/ Tick
       PROVE  Places'
  BY <1>4, <1>7, Zenon DEF WaitBegin, WaitElapsed, ClientStop, CloseAdmission,
         OperationsWait, RuntimeQuiesce, TeardownWait, Tick
<1> QED
  BY <1>2, <1>3, <1>5, <1>6, <1>7, Zenon DEF WaitStep, TeardownStep

LEMMA PlacesStep == IndInv /\ Next => Places'
  BY PlacesSubmit, PlacesWorker, PlacesCancel, PlacesDrain, PlacesRest, Zenon DEF Next

-----------------------------------------------------------------------------
(* Claims on routes and the active list.                                   *)

(* The active list holds the jobs of the hand and of the workers.          *)
LEMMA ClaimsSubmit == ASSUME IndInv, NEW r \in Requests, SubmitStep(r) PROVE Claims'
<1> USE NoneApart
<1>1. /\ TypeSched /\ TypeDrain /\ TypeThreads /\ TypeFlags
      /\ QueueShape /\ Places /\ Claims
  BY Zenon DEF IndInv, TypeOK
<1> USE DEF Claims, ClaimOf, sched, res, work, cancels, client
<1>2. CASE OperationBegin(r)
  BY <1>1, <1>2, Zenon DEF OperationBegin, TypeSched, TypeThreads, TypeFlags
<1>3. CASE SubmitReserve(r)
  BY <1>1, <1>3, Zenon DEF SubmitReserve, TypeSched, TypeThreads, TypeFlags
<1>4. CASE SubmitRejected(r)
  BY <1>1, <1>4, Zenon DEF SubmitRejected, TypeSched, TypeThreads, TypeFlags
<1>5. CASE SubmitNoMemory(r)
  BY <1>1, <1>5, Zenon DEF SubmitNoMemory, TypeSched, TypeThreads, TypeFlags
<1>6. CASE SubmitReturn(r)
  BY <1>1, <1>6, Zenon DEF SubmitReturn, TypeSched, TypeThreads, TypeFlags
<1>7. CASE SubmitFreeRejected(r)
  <2>1. PlaceOf(r)
    BY <1>1, Zenon DEF Places
  <2> QED
    BY <1>1, <1>7, <2>1, Zenon DEF SubmitFreeRejected, FreeJob, PlaceOf, Live, TypeSched, TypeThreads, TypeFlags
<1>8. CASE SubmitEnqueue(r)
  <2>1. drain.taken = None /\ drain'.taken = None /\ worker[r] = "none"
    BY <1>1, <1>8, Zenon DEF SubmitEnqueue, Draining, LockFree, NoDrain, Places, PlaceOf, Live
  <2>2. /\ UNCHANGED <<active_list, route_claimed, worker>>
        /\ cancel_requested' = [cancel_requested EXCEPT ![r] = handle_cancel[r]]
    BY <1>8, Zenon DEF SubmitEnqueue
  <2> QED
    BY <1>1, <2>1, <2>2, ZenonT(40) DEF TypeFlags
<1> QED
  BY <1>2, <1>3, <1>4, <1>5, <1>6, <1>7, <1>8, ZenonT(40) DEF SubmitStep

(* A worker goes on, with its slot and its claim. *)
LEMMA ClaimMoves ==
    ASSUME Claims, worker \in [Requests -> WorkerStates],
           NEW r \in Requests, worker[r] \notin {"none", "free"},
           NEW w, w \notin {"none", "free", "start"},
           w \in {"http", "classify"} => route_claimed[r],
           worker' = [worker EXCEPT ![r] = w],
           UNCHANGED <<active_list, route_claimed, drain, cancel_requested>>
    PROVE  Claims'
<1> SUFFICES ASSUME NEW q \in Requests PROVE ClaimOf(q)'
  BY Zenon DEF Claims
<1>1. ClaimOf(q)
  BY Zenon DEF Claims
<1>2. CASE q = r
  BY <1>1, <1>2, Zenon DEF ClaimOf
<1>3. CASE q # r
  BY <1>1, <1>3, Zenon DEF ClaimOf
<1> QED
  BY <1>2, <1>3, Zenon

LEMMA ClaimsWorker == ASSUME IndInv, NEW r \in Requests, WorkerStep(r) PROVE Claims'
<1> USE NoneApart
<1>1. /\ TypeSched /\ TypeDrain /\ TypeThreads /\ TypeFlags
      /\ QueueShape /\ Places /\ Claims
  BY Zenon DEF IndInv, TypeOK
<1> USE DEF Claims, ClaimOf, sched, res, work, cancels, client
<1>2. CASE WorkerStart(r)
  <2>1. /\ UNCHANGED <<active_list, route_claimed, drain, cancel_requested>>
        /\ worker \in [Requests -> WorkerStates]
    BY <1>1, <1>2, Zenon DEF WorkerStart, TypeThreads
  <2>2. \/ worker' = [worker EXCEPT ![r] = "deliver"]
        \/ ~cancel_requested[r] /\ worker' = [worker EXCEPT ![r] = "http"]
    BY <1>2, Zenon DEF WorkerStart
  <2>3. worker[r] = "start" /\ (~cancel_requested[r] => route_claimed[r])
    BY <1>1, <1>2, Zenon DEF WorkerStart
  <2> QED
    BY <1>1, <2>1, <2>2, <2>3, ClaimMoves, Zenon
<1>3. CASE HttpFails(r)
  BY <1>1, <1>3, Zenon DEF HttpFails, TypeSched, TypeThreads, TypeFlags
<1>4. CASE HttpResponse(r)
  BY <1>1, <1>4, ZenonT(40) DEF HttpResponse, TypeSched, TypeThreads, TypeFlags
<1>5. CASE Classify(r)
  <2>1. /\ UNCHANGED <<active_list, route_claimed, drain, cancel_requested>>
        /\ worker \in [Requests -> WorkerStates]
    BY <1>1, <1>5, Zenon DEF Classify, TypeThreads
  <2>2. /\ worker[r] = "classify"
        /\ \/ worker' = [worker EXCEPT ![r] = "backoff"]
           \/ worker' = [worker EXCEPT ![r] = "deliver"]
    BY <1>5, Zenon DEF Classify
  <2> QED
    BY <1>1, <2>1, <2>2, ClaimMoves, Zenon
<1>6. CASE Backoff(r)
  BY <1>1, <1>6, ZenonT(40) DEF Backoff, TypeSched, TypeThreads, TypeFlags
<1>7. CASE ReleaseResponse(r)
  <2>1. /\ UNCHANGED <<active_list, route_claimed, drain, cancel_requested>>
        /\ worker \in [Requests -> WorkerStates]
    BY <1>1, <1>7, Zenon DEF ReleaseResponse, TypeThreads
  <2>2. \/ worker[r] = "retry" /\ worker' = [worker EXCEPT ![r] = "requeue"]
        \/ worker[r] = "delivered" /\ worker' = [worker EXCEPT ![r] = "complete"]
    BY <1>7, Zenon DEF ReleaseResponse
  <2> QED
    BY <1>1, <2>1, <2>2, ClaimMoves, Zenon
<1>8. CASE RetryAbandoned(r)
  BY <1>1, <1>8, Zenon DEF RetryAbandoned, TypeSched, TypeThreads, TypeFlags
<1>9. CASE Deliver(r)
  BY <1>1, <1>9, ZenonT(40) DEF Deliver, TypeSched, TypeThreads, TypeFlags
<1>10. CASE WorkerFree(r)
  <2>1. PlaceOf(r)
    BY <1>1, Zenon DEF Places
  <2> QED
    BY <1>1, <1>10, <2>1, ZenonT(40) DEF WorkerFree, FreeJob, PlaceOf, Live, TypeSched, TypeThreads, TypeFlags
<1>11. CASE RequeueRetry(r)
  <2>1. drain.taken = None /\ drain'.taken = None
    <3>1. LockFree /\ drain' = Draining(Worker(r), None, FALSE)
      BY <1>11, Zenon DEF RequeueRetry
    <3> QED
      BY <3>1, EmptyHand, Zenon
  <2>2. /\ active_list' = active_list \ {r} /\ cancel_requested' = cancel_requested
        /\ route_claimed' = [route_claimed EXCEPT ![r] = FALSE]
        /\ worker' = [worker EXCEPT ![r] = "none"]
    BY <1>11, Zenon DEF RequeueRetry, FinishActive
  <2> QED
    BY <1>1, <2>1, <2>2, Zenon DEF TypeSched, TypeThreads
<1>12. CASE Complete(r)
  <2>1. drain.taken = None /\ drain'.taken = None
    BY <1>12, EmptyHand, Zenon DEF Complete
  <2>2. /\ active_list' = active_list \ {r} /\ cancel_requested' = cancel_requested
        /\ route_claimed' = [route_claimed EXCEPT ![r] = FALSE]
        /\ worker' = [worker EXCEPT ![r] = "free"]
    BY <1>12, Zenon DEF Complete, FinishActive
  <2> QED
    BY <1>1, <2>1, <2>2, Zenon DEF TypeSched, TypeThreads
<1> QED
  BY <1>2, <1>3, <1>4, <1>5, <1>6, <1>7, <1>8, <1>9, <1>10, <1>11, <1>12, ZenonT(40) DEF
     WorkerStep

LEMMA ClaimsCancel == ASSUME IndInv, NEW r \in Requests, CancelStep(r) PROVE Claims'
<1> USE NoneApart
<1>1. /\ TypeSched /\ TypeDrain /\ TypeThreads /\ TypeFlags
      /\ QueueShape /\ Places /\ Claims
  BY Zenon DEF IndInv, TypeOK
<1> USE DEF Claims, ClaimOf, sched, res, work, cancels, client
<1>2. CASE RequestCancel(r)
  BY <1>1, <1>2, Zenon DEF RequestCancel, TypeSched, TypeThreads, TypeFlags
<1>3. CASE CancelDetached(r)
  <2>1. PlaceOf(r)
    BY <1>1, Zenon DEF Places
  <2> QED
    BY <1>1, <1>3, <2>1, Zenon DEF CancelDetached, FreeJob, PlaceOf, Live, TypeSched, TypeThreads, TypeFlags
<1>4. CASE RequestCancelLocked(r)
  <2>1. /\ drain.taken = None /\ drain'.taken = None
        /\ UNCHANGED <<active_list, route_claimed, worker>>
    <3>1. /\ LockFree /\ UNCHANGED <<active_list, route_claimed, worker>>
          /\ drain' = drain \/ drain' = Draining(Canceler(r), None, TRUE)
      BY <1>4, Zenon DEF RequestCancelLocked
    <3> QED
      BY <3>1, EmptyHand, Zenon
  <2>2. \A q \in Requests : cancel_requested[q] => cancel_requested'[q]
    BY <1>1, <1>4, Zenon DEF RequestCancelLocked, TypeFlags
  <2> QED
    BY <1>1, <2>1, <2>2, Zenon
<1> QED
  BY <1>2, <1>3, <1>4, ZenonT(40) DEF CancelStep

LEMMA ClaimsDrain == ASSUME IndInv, DrainStep PROVE Claims'
<1> USE NoneApart
<1>1. /\ TypeSched /\ TypeDrain /\ TypeThreads /\ TypeFlags
      /\ QueueShape /\ Places /\ Claims
  BY Zenon DEF IndInv, TypeOK
<1> USE DEF Claims, ClaimOf, sched, res, work, cancels, client
<1>2. CASE DrainStop
  BY <1>1, <1>2, Zenon DEF DrainStop, DrainReturns, NoDrain
<1>3. ASSUME NEW p \in Priorities, NEW i \in 1 .. Len(queue[p]), TakeAt(p, i),
              drain.taken = None
       PROVE  Claims'
  <2> DEFINE r == queue[p][i]
  <2>1. r \in Requests /\ InQueue(r)
    BY <1>1, <1>3, QueueTake, Zenon
  <2>2. /\ active_list' = active_list \cup {r}
        /\ route_claimed' = [route_claimed EXCEPT ![r] = ~cancel_requested[r]]
        /\ drain'.taken = r
        /\ UNCHANGED <<worker, cancel_requested>>
    BY <1>3, Zenon DEF TakeAt, Taking
  <2>3. worker[r] = "none"
    BY <1>1, <2>1, Zenon DEF Places, PlaceOf
  <2> QED
    BY <1>1, <1>3, <2>1, <2>2, <2>3, Zenon DEF TypeSched, TypeFlags
<1>4. CASE DrainTake
  BY <1>3, <1>4, Zenon DEF DrainTake
<1>5. CASE DrainSpawn
  <2>1. drain.taken \in Requests
    BY <1>1, <1>5, Zenon DEF DrainSpawn, TypeDrain
  <2> QED
    BY <1>1, <1>5, <2>1, Zenon DEF DrainSpawn, Draining, TypeThreads
<1>6. CASE DrainSpawnFails
  <2> DEFINE r == drain.taken
  <2>1. r \in Requests /\ worker[r] = "none"
    BY <1>1, <1>6, Zenon DEF DrainSpawnFails, TypeDrain, Places, PlaceOf
  <2>2. /\ drain'.taken = None /\ UNCHANGED <<worker, cancel_requested>>
        /\ active_list' = active_list \ {r}
        /\ route_claimed' = [route_claimed EXCEPT ![r] = FALSE]
    <3>1. /\ UNCHANGED <<worker, cancel_requested>>
          /\ active_list' = active_list \ {r}
          /\ route_claimed' = [route_claimed EXCEPT ![r] = FALSE]
      BY <1>6, Zenon DEF DrainSpawnFails
    <3>2. drain' = NoDrain \/ drain' = Draining(drain.by, drain.admission, FALSE)
      BY <1>6, Zenon DEF DrainSpawnFails, DrainReturns
    <3> QED
      BY <3>1, <3>2, EmptyHand, Zenon
  <2> QED
    BY <1>1, <2>1, <2>2, Zenon DEF TypeSched
<1> QED
  BY <1>2, <1>4, <1>5, <1>6, Zenon DEF DrainStep

LEMMA ClaimsRest == ASSUME IndInv, BulkCancel \/ WaitStep \/ TeardownStep \/ Tick \/ \E w \in wakes : RetryWake(w) PROVE Claims'
<1> USE NoneApart
<1>1. /\ TypeSched /\ TypeDrain /\ TypeThreads /\ TypeFlags
      /\ QueueShape /\ Places /\ Claims
  BY Zenon DEF IndInv, TypeOK
<1> USE DEF Claims, ClaimOf, sched, res, work, cancels, client
<1>2. ASSUME NEW w \in wakes, RetryWake(w) PROVE Claims'
  <2>1. /\ drain.taken = None /\ drain'.taken = None
        /\ UNCHANGED <<active_list, route_claimed, worker, cancel_requested>>
    BY <1>2, EmptyHand, Zenon DEF RetryWake
  <2> QED
    BY <1>1, <2>1, Zenon
<1>3. CASE BulkCancel
  BY <1>1, <1>3, Zenon DEF BulkCancel, CancelActive
<1>4. CASE TeardownCancelAll
  <2>1. /\ UNCHANGED <<active_list, route_claimed, worker, drain>>
        /\ CancelActive
    BY <1>4, Zenon DEF TeardownCancelAll
  <2>2. \A q \in Requests : cancel_requested[q] => cancel_requested'[q]
    BY <1>1, <2>1, Zenon DEF CancelActive, TypeFlags
  <2> QED
    BY <1>1, <2>1, <2>2, Zenon
<1>5. CASE WaitCheck
  <2>1. /\ drain.taken = None /\ drain'.taken = None
        /\ UNCHANGED <<active_list, route_claimed, worker, cancel_requested>>
    BY <1>5, EmptyHand, Zenon DEF WaitCheck
  <2> QED
    BY <1>1, <2>1, Zenon
<1>6. ASSUME \/ WaitBegin \/ WaitElapsed \/ ClientStop \/ CloseAdmission
              \/ OperationsWait \/ RuntimeQuiesce \/ TeardownWait \/ Tick
       PROVE  Claims'
  <2>1. UNCHANGED <<active_list, route_claimed, drain, worker, cancel_requested>>
    BY <1>6, Zenon DEF WaitBegin, WaitElapsed, ClientStop, CloseAdmission,
           OperationsWait, RuntimeQuiesce, TeardownWait, Tick
  <2> QED
    BY <1>1, <2>1, Zenon
<1> QED
  BY <1>2, <1>3, <1>4, <1>5, <1>6, Zenon DEF WaitStep, TeardownStep

LEMMA ClaimsStep == IndInv /\ Next => Claims'
  BY ClaimsSubmit, ClaimsWorker, ClaimsCancel, ClaimsDrain, ClaimsRest, Zenon DEF Next

-----------------------------------------------------------------------------
(* Types; the request in the hand of the drain loop stays startable and    *)
(* the active bytes within their limit.                                    *)

(* Which steps change the pending lists, the active list and the claims. *)
SchedSteps ==
    \/ UNCHANGED <<sched, submitted>>
    \/ DrainTake \/ DrainSpawnFails \/ BulkCancel \/ TeardownCancelAll
    \/ \E r \in Requests : SubmitEnqueue(r) \/ RequeueRetry(r) \/ Complete(r)

LEMMA SchedFrame == Next => SchedSteps
  BY ZenonT(60) DEF Next, DrainStep, SubmitStep, WorkerStep, CancelStep, WaitStep,
         TeardownStep, SchedSteps, DrainStop, DrainSpawn, OperationBegin, SubmitReserve,
         SubmitRejected, SubmitNoMemory, SubmitFreeRejected, SubmitReturn,
         WorkerStart, HttpFails, HttpResponse, Classify, Backoff, ReleaseResponse,
         RetryAbandoned, Deliver, WorkerFree, CancelDetached, RetryWake,
         RequestCancel, RequestCancelLocked, WaitBegin, WaitCheck, WaitElapsed,
         ClientStop, CloseAdmission, OperationsWait, RuntimeQuiesce, TeardownWait,
         Tick

(* Which steps change the drain loop, the resource counters and the times. *)
DrainSteps ==
    \/ UNCHANGED drain
    \/ DrainStop \/ DrainTake \/ DrainSpawn \/ DrainSpawnFails \/ WaitCheck
    \/ \E w \in wakes : RetryWake(w)
    \/ \E r \in Requests : \/ SubmitEnqueue(r) \/ RequeueRetry(r) \/ Complete(r)
                           \/ RequestCancelLocked(r)

LEMMA DrainFrame == Next => DrainSteps
  BY ZenonT(60) DEF Next, DrainStep, SubmitStep, WorkerStep, CancelStep, WaitStep,
         TeardownStep, DrainSteps, OperationBegin, SubmitReserve, SubmitRejected,
         SubmitNoMemory, SubmitFreeRejected, SubmitReturn, WorkerStart, HttpFails,
         HttpResponse, Classify, Backoff, ReleaseResponse, RetryAbandoned, Deliver,
         WorkerFree, CancelDetached, RequestCancel, BulkCancel, WaitBegin,
         WaitElapsed, ClientStop, CloseAdmission, TeardownCancelAll, OperationsWait,
         RuntimeQuiesce, TeardownWait, Tick

ResSteps ==
    \/ UNCHANGED res
    \/ DrainTake \/ DrainSpawnFails
    \/ \E r \in Requests : \/ SubmitReserve(r) \/ SubmitNoMemory(r)
                           \/ SubmitFreeRejected(r) \/ Classify(r)
                           \/ ReleaseResponse(r) \/ RequeueRetry(r)
                           \/ WorkerFree(r) \/ CancelDetached(r)

LEMMA ResFrame == Next => ResSteps
  BY ZenonT(60) DEF Next, DrainStep, SubmitStep, WorkerStep, CancelStep, WaitStep,
         TeardownStep, ResSteps, DrainStop, DrainSpawn, OperationBegin,
         SubmitRejected, SubmitEnqueue, SubmitReturn, WorkerStart, HttpFails,
         HttpResponse, Backoff, RetryAbandoned, Deliver, Complete, RetryWake,
         RequestCancel, RequestCancelLocked, BulkCancel, WaitBegin, WaitCheck,
         WaitElapsed, ClientStop, CloseAdmission, TeardownCancelAll, OperationsWait,
         RuntimeQuiesce, TeardownWait, Tick

TimeSteps ==
    \/ UNCHANGED <<limits, retry_in, wait_in, retry_attempt, wakes>>
    \/ DrainStop \/ DrainSpawnFails \/ WaitCheck \/ Tick
    \/ \E w \in wakes : RetryWake(w)
    \/ \E r \in Requests : \/ SubmitFreeRejected(r) \/ HttpResponse(r) \/ Classify(r)
                           \/ Backoff(r) \/ RequeueRetry(r) \/ WorkerFree(r)
                           \/ CancelDetached(r)

LEMMA TimeFrame == Next => TimeSteps
  BY ZenonT(60) DEF Next, DrainStep, SubmitStep, WorkerStep, CancelStep, WaitStep,
         TeardownStep, TimeSteps, DrainTake, TakeAt, DrainSpawn, OperationBegin,
         SubmitReserve, SubmitRejected, SubmitNoMemory, SubmitEnqueue, SubmitReturn,
         WorkerStart, HttpFails, ReleaseResponse, RetryAbandoned, Deliver, Complete,
         RequestCancel, RequestCancelLocked, BulkCancel, WaitBegin, WaitElapsed,
         ClientStop, CloseAdmission, TeardownCancelAll, OperationsWait,
         RuntimeQuiesce, TeardownWait, work

(* The drain loop holds a request whose place stays in its list. *)
LEMMA DrainTypeStep == IndInv /\ Next => TypeDrain' /\ DrainPlace'
<1> SUFFICES ASSUME IndInv, Next PROVE TypeDrain' /\ DrainPlace'
  BY Zenon
<1> USE ConstantsAssumption
<1>1. TypeSched /\ TypeDrain /\ QueueShape /\ DrainPlace
  BY Zenon DEF IndInv, TypeOK
<1>2. ASSUME NEW t \in Threads \cup {None}, NEW a \in Requests \cup {None}, NEW g \in BOOLEAN,
             drain' = Draining(t, a, g)
      PROVE  TypeDrain' /\ DrainPlace'
  BY <1>2, Zenon DEF Draining, TypeDrain, DrainPlace
<1>3. ASSUME drain' = NoDrain PROVE TypeDrain' /\ DrainPlace'
  BY <1>3, Zenon DEF NoDrain, TypeDrain, DrainPlace
<1>4. ASSUME UNCHANGED drain PROVE TypeDrain' /\ DrainPlace'
  <2>1. CASE drain.taken = None
    BY <1>1, <1>4, <2>1, Zenon DEF TypeDrain, DrainPlace
  <2>2. CASE drain.taken # None
    <3>1. ~LockFree
      BY <2>2 DEF LockFree, NoDrain
    <3>2. drain'.taken # None
      BY <1>4, <2>2, Zenon
    <3>3. ~DrainTake
      BY <2>2, Zenon DEF DrainTake
    <3>4. ~DrainSpawnFails
      BY <3>2 DEF DrainSpawnFails, DrainReturns, Draining, NoDrain
    <3>5. queue' = queue
      BY <3>1, <3>3, <3>4, SchedFrame, Zenon
         DEF SchedSteps, sched, BulkCancel, TeardownCancelAll, SubmitEnqueue,
             RequeueRetry, Complete
    <3> QED
      BY <1>1, <1>4, <3>5, Zenon DEF TypeDrain, DrainPlace
  <2> QED
    BY <2>1, <2>2, Zenon
<1>5. ASSUME NEW p \in Priorities, NEW i \in 1 .. Len(queue[p]), TakeAt(p, i)
      PROVE  TypeDrain' /\ DrainPlace'
  <2> DEFINE r == queue[p][i]
  <2>1. r \in Requests /\ PriorityOf[r] = p /\ Len(queue'[p]) + 1 = Len(queue[p])
    BY <1>1, <1>5, QueueTake, Zenon
  <2>2. drain' = Taking(r, i)
    BY <1>5, Zenon DEF TakeAt
  <2>3. Len(queue[p]) \in Nat /\ i \in Nat
    BY <1>1 DEF TypeSched
  <2>4. DrainPlace'
    BY <2>1, <2>2, <2>3, Zenon DEF Taking, DrainPlace
  <2> QED
    BY <1>1, <2>1, <2>2, <2>3, <2>4, Zenon DEF Taking, TypeDrain
<1>6. ASSUME DrainTake PROVE TypeDrain' /\ DrainPlace'
  BY <1>5, <1>6, Zenon DEF DrainTake
<1>7. ASSUME DrainStop PROVE TypeDrain' /\ DrainPlace'
  BY <1>3, <1>7, Zenon DEF DrainStop, DrainReturns
<1>8. ASSUME DrainSpawn \/ DrainSpawnFails PROVE TypeDrain' /\ DrainPlace'
  <2>1. /\ drain.by \in Threads \cup {None} /\ drain.again \in BOOLEAN
        /\ drain.admission \in Requests \cup {None}
    BY <1>1, Zenon DEF TypeDrain
  <2>2. \/ drain' = NoDrain
        \/ drain' = Draining(drain.by, drain.admission, drain.again)
        \/ drain' = Draining(drain.by, drain.admission, FALSE)
    BY <1>8, Zenon DEF DrainSpawn, DrainSpawnFails, DrainReturns
  <2> QED
    BY <1>2, <1>3, <2>1, <2>2, Zenon
<1>9. ASSUME NEW r \in Requests,
             SubmitEnqueue(r) \/ RequeueRetry(r) \/ Complete(r) \/ RequestCancelLocked(r)
      PROVE  TypeDrain' /\ DrainPlace'
  <2>1. \/ UNCHANGED drain
        \/ drain' = Draining(Submitter(r), r, FALSE)
        \/ drain' = Draining(Worker(r), None, FALSE)
        \/ drain' = Draining(Worker(r), None, TRUE)
        \/ drain' = Draining(Canceler(r), None, TRUE)
    BY <1>9, Zenon DEF SubmitEnqueue, RequeueRetry, Complete, RequestCancelLocked
  <2>2. Submitter(r) \in Threads /\ Worker(r) \in Threads /\ Canceler(r) \in Threads
    BY DEF Submitter, Worker, Canceler, Threads
  <2> QED
    BY <1>2, <1>4, <2>1, <2>2, Zenon
<1>10. ASSUME WaitCheck \/ \E w \in wakes : RetryWake(w) PROVE TypeDrain' /\ DrainPlace'
  <2>1. \/ UNCHANGED drain
        \/ drain' = Draining(Waiter, None, FALSE)
        \/ drain' = Draining(Waker, None, FALSE)
    BY <1>10, Zenon DEF WaitCheck, RetryWake
  <2>2. Waiter \in Threads /\ Waker \in Threads
    BY DEF Threads
  <2> QED
    BY <1>2, <1>4, <2>1, <2>2, Zenon
<1> QED
  BY <1>4, <1>6, <1>7, <1>8, <1>9, <1>10, DrainFrame, Zenon DEF DrainSteps

LEMMA RouteTyped == \A r \in Requests : RouteOf[r] \in Routes
  BY ConstantsAssumption

LEMMA SlotsTyped == Concurrency \in Nat
  BY LimitsAssumption

LEMMA ChargeTyped == \A r \in Requests : ChargeOf[r] \in Nat
  BY ConstantsAssumption

(* The resource counters stay natural numbers. *)
LEMMA ResTypeStep == IndInv /\ Next => TypeRes'
<1> SUFFICES ASSUME IndInv, Next PROVE TypeRes'
  BY Zenon
<1> USE ChargeTyped
<1>1. TypeSched /\ TypeDrain /\ TypeRes /\ QueueShape
  BY Zenon DEF IndInv, TypeOK
<1>2. ASSUME UNCHANGED res PROVE TypeRes'
  BY <1>1, <1>2, Zenon DEF res, TypeRes
<1>3. ASSUME NEW r \in Requests, Activate(r) PROVE TypeRes'
  BY <1>1, <1>3, SMTT(30) DEF Activate, GuardedSub, TypeRes
<1>4. ASSUME NEW r \in Requests, Requeue(r) PROVE TypeRes'
  BY <1>1, <1>4, SMTT(30) DEF Requeue, GuardedSub, TypeRes, res
<1>5. ASSUME NEW r \in Requests, ReleaseRequest(r) PROVE TypeRes'
  BY <1>1, <1>5, SMTT(30) DEF ReleaseRequest, GuardedSub, TypeRes
<1>6. ASSUME NEW r \in Requests, ReserveQueued(r) PROVE TypeRes'
  BY <1>1, <1>6, SMTT(30) DEF ReserveQueued, TypeRes
<1>7. ASSUME NEW r \in Requests, ReleaseResponse(r) PROVE TypeRes'
  BY <1>1, <1>7, SMTT(30) DEF ReleaseResponse, GuardedSub, TypeRes
<1>8. ASSUME NEW r \in Requests, Classify(r) PROVE TypeRes'
  <2>1. PICK b \in Nat : /\ response_bytes' = [response_bytes EXCEPT ![r] = b]
                         /\ active_request_bytes' = active_request_bytes + b
    BY <1>8, ConstantsAssumption, Zenon DEF Classify
  <2>2. UNCHANGED <<queued_requests, queued_request_bytes, resource_state>>
    BY <1>8, Zenon DEF Classify
  <2> QED
    BY <1>1, <2>1, <2>2 DEF TypeRes
<1>9. ASSUME NEW p \in Priorities, NEW i \in 1 .. Len(queue[p]), TakeAt(p, i)
      PROVE  TypeRes'
  <2>1. queue[p][i] \in Requests
    BY <1>1, <1>9, QueueTake, Zenon
  <2>2. Activate(queue[p][i])
    BY <1>9, Zenon DEF TakeAt
  <2> QED
    BY <1>3, <2>1, <2>2, Zenon
<1>10. ASSUME DrainTake PROVE TypeRes'
  BY <1>9, <1>10, Zenon DEF DrainTake
<1>11. ASSUME DrainSpawnFails PROVE TypeRes'
  <2>1. drain.taken \in Requests
    BY <1>1, <1>11, Zenon DEF DrainSpawnFails, TypeDrain
  <2>2. Requeue(drain.taken) \/ UNCHANGED res
    BY <1>11, Zenon DEF DrainSpawnFails
  <2> QED
    BY <1>2, <1>4, <2>1, <2>2, Zenon
<1>12. ASSUME NEW r \in Requests, \/ SubmitNoMemory(r) \/ SubmitFreeRejected(r)
                                  \/ WorkerFree(r) \/ CancelDetached(r)
       PROVE  TypeRes'
  <2>1. ReleaseRequest(r)
    BY <1>12, Zenon DEF SubmitNoMemory, SubmitFreeRejected, WorkerFree, CancelDetached, FreeJob
  <2> QED
    BY <1>5, <2>1, Zenon
<1>13. ASSUME NEW r \in Requests, SubmitReserve(r) \/ RequeueRetry(r) PROVE TypeRes'
  <2>1. ReserveQueued(r) \/ Requeue(r)
    BY <1>13, Zenon DEF SubmitReserve, RequeueRetry
  <2> QED
    BY <1>4, <1>6, <2>1, Zenon
<1> QED
  BY <1>2, <1>7, <1>8, <1>10, <1>11, <1>12, <1>13, ResFrame, Zenon DEF ResSteps

(* Times are natural numbers and retries stay within their bound. *)
LEMMA TimeTypeStep == IndInv /\ Next => TypeTime'
<1> SUFFICES ASSUME IndInv, Next PROVE TypeTime'
  BY Zenon
<1> USE ConstantsAssumption
<1>1. TypeTime
  BY Zenon DEF IndInv, TypeOK
<1>2. ASSUME UNCHANGED <<limits, retry_in, wait_in, retry_attempt, wakes>> PROVE TypeTime'
  BY <1>1, <1>2, Zenon DEF limits, TypeTime
<1>3. \A r \in Requests : WaitMs(r) \in Nat
  <2> SUFFICES ASSUME NEW r \in Requests PROVE WaitMs(r) \in Nat
    BY Zenon
  <2>1. \A x, y \in Nat : Larger(x, y) \in Nat
    BY DEF Larger
  <2>2. 0 .. MaxWait \subseteq Nat
    OBVIOUS
  <2>3. /\ global_in \in Nat /\ reset_in[RouteOf[r]] \in Nat /\ retry_in[r] \in Nat
    BY <1>1, <2>2, Zenon DEF TypeTime
  <2> QED
    BY <2>1, <2>3, Zenon DEF WaitMs
<1>4. NextWakeMs \subseteq Nat \cup {-1}
  BY <1>3 DEF NextWakeMs, Pending
<1>5. ASSUME UNCHANGED <<limits, retry_in, retry_attempt, wakes>>
      PROVE  NextWakeMs' \subseteq Nat \cup {-1}
  <2>1. \A r \in Requests : WaitMs(r)' \in Nat
    BY <1>3, <1>5, Zenon DEF WaitMs, limits
  <2>2. Pending' \subseteq Requests
    BY Zenon DEF Pending
  <2> QED
    BY <2>1, <2>2 DEF NextWakeMs
<1>6. ASSUME DrainStop \/ DrainSpawnFails PROVE TypeTime'
  <2>1. UNCHANGED <<limits, retry_in, retry_attempt, wakes>>
    BY <1>6, Zenon DEF DrainStop, DrainSpawnFails, work
  <2>2. wait_in' = wait_in \/ wait_in' = -1 \/ wait_in' \in NextWakeMs'
    BY <1>6, Zenon DEF DrainStop, DrainSpawnFails, DrainReturns
  <2>3. wait_in' \in Nat \cup {-1}
    BY <1>1, <1>5, <2>1, <2>2, Zenon DEF TypeTime
  <2> QED
    BY <1>1, <2>1, <2>3, Zenon DEF limits, TypeTime
<1>7. ASSUME WaitCheck PROVE TypeTime'
  <2>1. UNCHANGED <<limits, retry_in, retry_attempt, wakes>>
    BY <1>7, Zenon DEF WaitCheck, work
  <2>2. wait_in' = wait_in \/ wait_in' = -1 \/ wait_in' \in NextWakeMs
    BY <1>7, Zenon DEF WaitCheck
  <2>3. wait_in' \in Nat \cup {-1}
    BY <1>1, <1>4, <2>2, Zenon DEF TypeTime
  <2> QED
    BY <1>1, <2>1, <2>3, Zenon DEF limits, TypeTime
<1>8. ASSUME Tick PROVE TypeTime'
  <2>0. /\ \A x \in Nat : Sooner(x) \in Nat
        /\ \A x \in 0 .. MaxWait : Sooner(x) \in 0 .. MaxWait
        /\ \A x \in Nat \cup {-1} : Sooner(x) \in Nat \cup {-1}
    BY SMTT(30) DEF Sooner
  <2>1. wakes' \subseteq Requests \X (0 .. MaxRetries) \X Nat
    <3>1. wakes' = {<<w[1], w[2], Sooner(w[3])>> : w \in wakes}
      BY <1>8, Zenon DEF Tick
    <3>2. wakes \subseteq Requests \X (0 .. MaxRetries) \X Nat
      BY <1>1, Zenon DEF TypeTime
    <3>3. \A w \in Requests \X (0 .. MaxRetries) \X Nat :
              w[1] \in Requests /\ w[2] \in 0 .. MaxRetries /\ w[3] \in Nat
      BY SMTT(30)
    <3> SUFFICES ASSUME NEW w \in wakes
                 PROVE  <<w[1], w[2], Sooner(w[3])>> \in Requests \X (0 .. MaxRetries) \X Nat
      BY <3>1, Zenon
    <3>4. w[1] \in Requests /\ w[2] \in 0 .. MaxRetries /\ Sooner(w[3]) \in Nat
      BY <2>0, <3>2, <3>3, Zenon
    <3> QED
      BY <3>4, Zenon
  <2>2. /\ reset_in' \in [Routes -> 0 .. MaxWait] /\ global_in' \in 0 .. MaxWait
        /\ retry_in' \in [Requests -> Nat] /\ wait_in' \in Nat \cup {-1}
    BY <1>1, <1>8, <2>0, Zenon DEF Tick, TypeTime
  <2>3. retry_attempt' = retry_attempt
    BY <1>8, Zenon DEF Tick, work
  <2> QED
    BY <1>1, <2>1, <2>2, <2>3, Zenon DEF TypeTime
<1>9. ASSUME NEW w \in wakes, RetryWake(w) PROVE TypeTime'
  BY <1>1, <1>9, Zenon DEF RetryWake, limits, work, TypeTime
<1>10. ASSUME NEW r \in Requests, \/ SubmitFreeRejected(r) \/ WorkerFree(r)
                                  \/ CancelDetached(r)
       PROVE  TypeTime'
  <2>1. FreeJob(r) /\ UNCHANGED <<limits, wakes, wait_in>>
    BY <1>10, Zenon DEF SubmitFreeRejected, WorkerFree, CancelDetached
  <2> QED
    BY <1>1, <2>1 DEF FreeJob, limits, TypeTime
<1>11. ASSUME NEW r \in Requests, HttpResponse(r) PROVE TypeTime'
  <2>1. UNCHANGED <<retry_in, wakes, wait_in, retry_attempt>>
    BY <1>11, Zenon DEF HttpResponse
  <2>2. /\ \/ reset_in' = reset_in
           \/ \E w \in 0 .. MaxWait, routes \in Related(r) : SetReset(routes, w)
        /\ global_in' \in 0 .. MaxWait
    BY <1>1, <1>11, Zenon DEF HttpResponse, TypeTime
  <2>3. reset_in' \in [Routes -> 0 .. MaxWait]
    BY <1>1, <2>2, Zenon DEF SetReset, TypeTime
  <2> QED
    BY <1>1, <2>1, <2>2, <2>3, Zenon DEF TypeTime
<1>12. ASSUME NEW r \in Requests, Classify(r) PROVE TypeTime'
  <2>1. UNCHANGED <<limits, retry_in, wakes, wait_in>>
    BY <1>12, Zenon DEF Classify
  <2>2. \/ retry_attempt' = [retry_attempt EXCEPT ![r] = retry_attempt[r]]
        \/ MayRetry(r) /\ retry_attempt' = [retry_attempt EXCEPT ![r] = retry_attempt[r] + 1]
    BY <1>12, Zenon DEF Classify
  <2>3. retry_attempt' \in [Requests -> 0 .. MaxRetries]
    BY <1>1, <2>2 DEF MayRetry, TypeTime
  <2> QED
    BY <1>1, <2>1, <2>3, Zenon DEF limits, TypeTime
<1>13. ASSUME NEW r \in Requests, Backoff(r) PROVE TypeTime'
  <2>1. Larger(1, Larger(global_in, reset_in[RouteOf[r]])) \in Nat
    BY <1>1 DEF TypeTime, Larger
  <2> QED
    BY <1>1, <1>13, <2>1, Zenon DEF Backoff, limits, TypeTime
<1>14. ASSUME NEW r \in Requests, RequeueRetry(r) PROVE TypeTime'
  <2>1. /\ UNCHANGED <<limits, retry_in, wait_in, retry_attempt>>
        /\ wakes' \subseteq wakes \cup {<<r, retry_attempt[r], retry_in[r]>>}
    BY <1>14, Zenon DEF RequeueRetry
  <2>2. <<r, retry_attempt[r], retry_in[r]>> \in Requests \X (0 .. MaxRetries) \X Nat
    BY <1>1, Zenon DEF TypeTime
  <2> QED
    BY <1>1, <2>1, <2>2, Zenon DEF limits, TypeTime
<1> QED
  BY <1>2, <1>6, <1>7, <1>8, <1>9, <1>10, <1>11, <1>12, <1>13, <1>14, TimeFrame, Zenon
     DEF TimeSteps

(* The program counters of the threads. *)
LEMMA ThreadTypeStep == IndInv /\ Next => TypeThreads'
<1> SUFFICES ASSUME IndInv, Next PROVE TypeThreads'
  BY Zenon
<1> USE ConstantsAssumption
<1>1. TypeDrain /\ TypeThreads
  BY Zenon DEF IndInv, TypeOK
<1>2. /\ Signal => waiter' \in {"out", "check", "asleep"}
      /\ \A t \in Threads : DetachPending(t) => owner' \in [Requests -> Threads \cup {None}]
  <2>1. waiter \in {"out", "check", "asleep"} /\ owner \in [Requests -> Threads \cup {None}]
    BY <1>1, Zenon DEF TypeThreads
  <2>2. Signal => waiter' \in {"out", "check", "asleep"}
    BY <2>1 DEF Signal
  <2>3. ASSUME NEW t \in Threads, DetachPending(t)
        PROVE  owner' \in [Requests -> Threads \cup {None}]
    BY <2>1, <2>3, Zenon DEF DetachPending
  <2> QED
    BY <2>2, <2>3, Zenon
<1>3. ASSUME NEW r \in Requests, SubmitStep(r) PROVE TypeThreads'
  <2>1. UNCHANGED <<worker, outcome, canceler, owner, teardown>>
    BY <1>3, Zenon DEF SubmitStep, OperationBegin, SubmitReserve, SubmitRejected,
           SubmitNoMemory, SubmitEnqueue, SubmitFreeRejected, SubmitReturn,
           work, cancels, client
  <2>2. sub' \in [Requests -> SubStates]
    <3>1. \E s \in SubStates : sub' = [sub EXCEPT ![r] = s]
      BY <1>3, Zenon DEF SubmitStep, OperationBegin, SubmitReserve, SubmitRejected,
             SubmitNoMemory, SubmitEnqueue, SubmitFreeRejected, SubmitReturn, SubStates
    <3> QED
      BY <1>1, <3>1 DEF TypeThreads
  <2>3. Signal \/ waiter' = waiter
    BY <1>3, Zenon DEF SubmitStep, OperationBegin, SubmitReserve, SubmitRejected,
           SubmitNoMemory, SubmitEnqueue, SubmitFreeRejected, SubmitReturn
  <2> QED
    BY <1>1, <1>2, <2>1, <2>2, <2>3, Zenon DEF TypeThreads
<1>4. ASSUME NEW r \in Requests, WorkerStep(r) PROVE TypeThreads'
  <2>1. UNCHANGED <<sub, canceler, teardown>>
    BY <1>4, Zenon DEF WorkerStep, WorkerStart, HttpFails, HttpResponse, Classify, Backoff,
           ReleaseResponse, RetryAbandoned, RequeueRetry, Deliver, Complete, WorkerFree,
           cancels, client
  <2>2. \E w \in WorkerStates : worker' = [worker EXCEPT ![r] = w]
    BY <1>4, Zenon DEF WorkerStep, WorkerStart, HttpFails, HttpResponse, Classify, Backoff,
           ReleaseResponse, RetryAbandoned, RequeueRetry, Deliver, Complete, WorkerFree,
           WorkerStates
  <2>3. outcome' = outcome \/ \E o \in Outcomes : outcome' = [outcome EXCEPT ![r] = o]
    <3>1. outcome[r] \in Outcomes
      BY <1>1, Zenon DEF TypeThreads
    <3> QED
      BY <1>4, <3>1, Zenon DEF WorkerStep, WorkerStart, HttpFails, HttpResponse, Classify,
             Backoff, ReleaseResponse, RetryAbandoned, RequeueRetry, Deliver, Complete,
             WorkerFree, Outcomes
  <2>4. owner' = owner \/ DetachPending(Worker(r))
    BY <1>4, Zenon DEF WorkerStep, WorkerStart, HttpFails, HttpResponse, Classify, Backoff,
           ReleaseResponse, RetryAbandoned, RequeueRetry, Deliver, Complete, WorkerFree,
           cancels
  <2>5. Signal \/ waiter' = waiter
    BY <1>4, Zenon DEF WorkerStep, WorkerStart, HttpFails, HttpResponse, Classify, Backoff,
           ReleaseResponse, RetryAbandoned, RequeueRetry, Deliver, Complete, WorkerFree
  <2>6. Worker(r) \in Threads
    BY DEF Worker, Threads
  <2> QED
    <3>1. worker' \in [Requests -> WorkerStates]
      BY <1>1, <2>2, Zenon DEF TypeThreads
    <3>2. outcome' \in [Requests -> Outcomes]
      BY <1>1, <2>3, Zenon DEF TypeThreads
    <3>3. owner' \in [Requests -> Threads \cup {None}]
      BY <1>1, <1>2, <2>4, <2>6, Zenon DEF TypeThreads
    <3>4. waiter' \in {"out", "check", "asleep"}
      BY <1>1, <1>2, <2>5, Zenon DEF TypeThreads
    <3> QED
      BY <1>1, <2>1, <3>1, <3>2, <3>3, <3>4, Zenon DEF TypeThreads
<1>5. ASSUME NEW r \in Requests, CancelStep(r) PROVE TypeThreads'
  <2>1. UNCHANGED <<sub, worker, outcome, teardown>>
    BY <1>5, Zenon DEF CancelStep, RequestCancel, RequestCancelLocked, CancelDetached, work, client
  <2>2. canceler' = canceler \/ \E c \in {"lock", "done"} : canceler' = [canceler EXCEPT ![r] = c]
    BY <1>5, Zenon DEF CancelStep, RequestCancel, RequestCancelLocked, CancelDetached
  <2>3. owner' = owner \/ owner' = [owner EXCEPT ![r] = None]
    BY <1>5, Zenon DEF CancelStep, RequestCancel, RequestCancelLocked, CancelDetached
  <2>4. Signal \/ waiter' = waiter
    BY <1>5, Zenon DEF CancelStep, RequestCancel, RequestCancelLocked, CancelDetached
  <2> QED
    BY <1>1, <1>2, <2>1, <2>2, <2>3, <2>4, Zenon DEF TypeThreads
<1>6. ASSUME DrainStep PROVE TypeThreads'
  <2>1. UNCHANGED <<outcome, canceler, owner, teardown>>
    BY <1>6, Zenon DEF DrainStep, DrainStop, DrainTake, TakeAt, DrainSpawn, DrainSpawnFails,
           work, cancels, client
  <2>2. worker' = worker \/ worker' = [worker EXCEPT ![drain.taken] = "start"]
    BY <1>6, Zenon DEF DrainStep, DrainStop, DrainTake, TakeAt, DrainSpawn, DrainSpawnFails, work
  <2>3. sub' = sub \/ sub' = [sub EXCEPT ![drain.taken] = "rejecting"]
    BY <1>6, Zenon DEF DrainStep, DrainStop, DrainTake, TakeAt, DrainSpawn, DrainSpawnFails
  <2>4. Signal \/ waiter' \in {waiter, "out", "asleep"}
    BY <1>6, Zenon DEF DrainStep, DrainStop, DrainTake, TakeAt, DrainSpawn, DrainSpawnFails,
           DrainReturns
  <2> QED
    BY <1>1, <1>2, <2>1, <2>2, <2>3, <2>4 DEF TypeThreads, SubStates, WorkerStates
<1>7. ASSUME \/ BulkCancel \/ WaitStep \/ TeardownStep \/ Tick
             \/ \E w \in wakes : RetryWake(w)
      PROVE  TypeThreads'
  <2>1. UNCHANGED <<sub, worker, outcome, canceler>>
    BY <1>7, Zenon DEF BulkCancel, WaitStep, WaitBegin, WaitCheck, WaitElapsed, TeardownStep,
           ClientStop, CloseAdmission, TeardownCancelAll, OperationsWait, RuntimeQuiesce,
           TeardownWait, Tick, RetryWake, work, cancels
  <2>2. owner' = owner \/ DetachPending(Bulk) \/ DetachPending(Destroyer)
    BY <1>7, Zenon DEF BulkCancel, WaitStep, WaitBegin, WaitCheck, WaitElapsed, TeardownStep,
           ClientStop, CloseAdmission, TeardownCancelAll, OperationsWait, RuntimeQuiesce,
           TeardownWait, Tick, RetryWake, cancels
  <2>3. teardown' = teardown \/ teardown' \in TeardownStates
    BY <1>7, Zenon DEF BulkCancel, WaitStep, WaitBegin, WaitCheck, WaitElapsed, TeardownStep,
           ClientStop, CloseAdmission, TeardownCancelAll, OperationsWait, RuntimeQuiesce,
           TeardownWait, Tick, RetryWake, client, TeardownStates
  <2>4. Signal \/ waiter' \in {waiter, "check", "out", "asleep"}
    BY <1>7, Zenon DEF BulkCancel, WaitStep, WaitBegin, WaitCheck, WaitElapsed, TeardownStep,
           ClientStop, CloseAdmission, TeardownCancelAll, OperationsWait, RuntimeQuiesce,
           TeardownWait, Tick, RetryWake
  <2>5. Bulk \in Threads /\ Destroyer \in Threads
    BY DEF Threads
  <2> QED
    BY <1>1, <1>2, <2>1, <2>2, <2>3, <2>4, <2>5, Zenon DEF TypeThreads
<1> QED
  BY <1>3, <1>4, <1>5, <1>6, <1>7, Zenon DEF Next

(* The flags and the counters of calls. *)
LEMMA FlagTypeStep == IndInv /\ Next => TypeFlags'
<1> SUFFICES ASSUME IndInv, Next PROVE TypeFlags'
  BY Zenon
<1> USE ConstantsAssumption
<1>1. TypeFlags /\ TypeSched
  BY Zenon DEF IndInv, TypeOK
<1>2. ASSUME NEW r \in Requests, SubmitStep(r) \/ WorkerStep(r) \/ CancelStep(r)
      PROVE  TypeFlags'
  <2> USE DEF SubmitStep, OperationBegin, SubmitReserve, SubmitRejected, SubmitNoMemory,
          SubmitEnqueue, SubmitFreeRejected, SubmitReturn, WorkerStep, WorkerStart,
          HttpFails, HttpResponse, Classify, Backoff, ReleaseResponse, RetryAbandoned,
          RequeueRetry, Deliver, Complete, WorkerFree, CancelStep, RequestCancel,
          RequestCancelLocked, CancelDetached, FreeJob, cancels, client
  <2>1. handle_cancel' = handle_cancel \/ handle_cancel' = [handle_cancel EXCEPT ![r] = TRUE]
    BY <1>2, Zenon
  <2>2. cancel_requested' = cancel_requested
        \/ \E b \in BOOLEAN : cancel_requested' = [cancel_requested EXCEPT ![r] = b]
    <3>1. handle_cancel[r] \in BOOLEAN
      BY <1>1, Zenon DEF TypeFlags
    <3> QED
      BY <1>2, <3>1, Zenon
  <2>3. terminal' = terminal \/ terminal' = [terminal EXCEPT ![r] = terminal[r] + 1]
    BY <1>2, Zenon
  <2>4. UNCHANGED <<stopping, admission_closed>>
    BY <1>2, Zenon
  <2>5. operations' \in {operations, operations + 1, GuardedSub(operations, 1)}
    BY <1>2, Zenon
  <2>6. \/ budget' = budget
        \/ budget.spawns > 0 /\ budget' = [budget EXCEPT !.spawns = @ - 1]
    BY <1>2, Zenon
  <2> HIDE DEF SubmitStep, WorkerStep, CancelStep
  <2>7. handle_cancel' \in [Requests -> BOOLEAN] /\ cancel_requested' \in [Requests -> BOOLEAN]
    BY <1>1, <2>1, <2>2, Zenon DEF TypeFlags
  <2>8. terminal' \in [Requests -> Nat] /\ operations' \in Nat
    BY <1>1, <2>3, <2>5 DEF TypeFlags, GuardedSub
  <2>9. budget' \in Environment
    BY <1>1, <2>6 DEF TypeFlags, Environment
  <2> QED
    BY <1>1, <2>4, <2>7, <2>8, <2>9, Zenon DEF TypeFlags
<1>3. ASSUME \/ DrainStep \/ BulkCancel \/ WaitStep \/ TeardownStep \/ Tick
             \/ \E w \in wakes : RetryWake(w)
      PROVE  TypeFlags'
  <2> USE DEF DrainStep, DrainStop, DrainTake, TakeAt, DrainSpawn, DrainSpawnFails,
          BulkCancel, WaitStep, WaitBegin, WaitCheck, WaitElapsed, TeardownStep,
          ClientStop, CloseAdmission, TeardownCancelAll, OperationsWait, RuntimeQuiesce,
          TeardownWait, Tick, RetryWake, cancels, client
  <2>1. UNCHANGED <<handle_cancel, terminal, operations>>
    BY <1>3, Zenon
  <2>2. cancel_requested' = cancel_requested \/ CancelActive
    BY <1>3, Zenon
  <2>3. stopping' \in {stopping, TRUE} /\ admission_closed' \in {admission_closed, TRUE}
    BY <1>3, Zenon
  <2>4. \/ budget' = budget
        \/ budget.spawns > 0 /\ budget' = [budget EXCEPT !.spawns = @ - 1]
        \/ budget.bulk > 0 /\ budget' = [budget EXCEPT !.bulk = @ - 1]
        \/ budget.waits > 0 /\ budget' = [budget EXCEPT !.waits = @ - 1]
    BY <1>3, ZenonT(40)
  <2> HIDE DEF DrainStep, WaitStep, TeardownStep
  <2>5. cancel_requested' \in [Requests -> BOOLEAN]
    BY <1>1, <2>2, Zenon DEF TypeFlags, CancelActive
  <2>6. budget' \in Environment
    BY <1>1, <2>4 DEF TypeFlags, Environment
  <2> QED
    BY <1>1, <2>1, <2>3, <2>5, <2>6, ZenonT(40) DEF TypeFlags
<1> QED
  BY <1>2, <1>3, Zenon DEF Next

(* The request in the hand of the drain loop stays within the limits. *)
LEMMA HandStep == IndInv /\ Next => HandOpen'
<1> SUFFICES ASSUME IndInv, Next PROVE HandOpen'
  BY Zenon
<1> USE ConstantsAssumption
<1>1. /\ TypeSched /\ TypeDrain /\ TypeTime /\ TypeFlags /\ QueueShape /\ Places
      /\ HandOpen
  BY Zenon DEF IndInv, TypeOK
<1>2. CASE drain'.taken = None
  BY <1>2, Zenon DEF HandOpen
<1>3. ASSUME NEW p \in Priorities, NEW i \in 1 .. Len(queue[p]), TakeAt(p, i)
      PROVE  HandOpen'
  <2> DEFINE r == queue[p][i]
  <2>1. r \in Requests
    BY <1>1, <1>3, QueueTake, Zenon
  <2>2. /\ drain'.taken = r /\ Eligible(r)
        /\ UNCHANGED <<limits, retry_in, cancel_requested>>
    BY <1>3, Zenon DEF TakeAt, IsNext, Taking, cancels
  <2> HIDE DEF r
  <2> QED
    BY <2>1, <2>2, Zenon DEF Eligible, HandOpen, WaitMs, limits
<1>4. CASE drain'.taken # None /\ UNCHANGED drain
  <2> DEFINE r == drain.taken
  <2>1. r \in Requests /\ drain' = drain /\ ~LockFree
    BY <1>1, <1>4 DEF TypeDrain, LockFree, NoDrain
  <2>2. worker[r] = "none" /\ owner[r] = None /\ sub[r] # "rejecting"
    BY <1>1, <2>1, Zenon DEF Places, PlaceOf, Live
  <2>3. ~DrainStop /\ ~DrainSpawnFails /\ ~WaitCheck
    BY <1>4, <2>1 DEF DrainStop, DrainSpawnFails, DrainReturns, Draining, NoDrain, WaitCheck
  <2>4. /\ \A w \in wakes : ~RetryWake(w)
        /\ \A q \in Requests : ~HttpResponse(q) /\ ~Backoff(q) /\ ~RequeueRetry(q)
    BY <2>1, Zenon DEF RetryWake, HttpResponse, Backoff, RequeueRetry
  <2>5. cancel_requested'[r] <=> cancel_requested[r]
    <3>1. CASE cancel_requested' = cancel_requested
      BY <3>1, Zenon
    <3>2. ASSUME NEW q \in Requests,
                 SubmitFreeRejected(q) \/ WorkerFree(q) \/ CancelDetached(q)
          PROVE  cancel_requested'[r] <=> cancel_requested[r]
      <4>1. q # r /\ FreeJob(q)
        BY <2>2, <3>2, ZenonT(40) DEF SubmitFreeRejected, WorkerFree, CancelDetached
      <4> QED
        BY <1>1, <2>1, <4>1, Zenon DEF FreeJob, TypeFlags
    <3>3. \/ cancel_requested' = cancel_requested
          \/ \E q \in Requests : SubmitFreeRejected(q) \/ WorkerFree(q) \/ CancelDetached(q)
      BY <2>1, ZenonT(60) DEF Next, DrainStep, DrainStop, DrainTake, TakeAt, DrainSpawn,
             DrainSpawnFails, SubmitStep, OperationBegin, SubmitReserve, SubmitRejected,
             SubmitNoMemory, SubmitEnqueue, SubmitReturn, WorkerStep, WorkerStart,
             HttpFails, HttpResponse, Classify, Backoff, ReleaseResponse, RetryAbandoned,
             RequeueRetry, Deliver, Complete, CancelStep, RequestCancel,
             RequestCancelLocked, RetryWake, BulkCancel, WaitStep, WaitBegin, WaitCheck,
             WaitElapsed, TeardownStep, ClientStop, CloseAdmission, TeardownCancelAll,
             OperationsWait, RuntimeQuiesce, TeardownWait, Tick, cancels
    <3> QED
      BY <3>1, <3>2, <3>3, Zenon
  <2>6. WaitMs(r) = 0 => WaitMs(r)' = 0
    <3>1. CASE UNCHANGED <<limits, retry_in, wait_in, retry_attempt, wakes>>
      BY <2>1, <3>1, Zenon DEF WaitMs, limits
    <3>2. CASE Tick
      <4>1. /\ global_in' = Sooner(global_in)
            /\ reset_in'[RouteOf[r]] = Sooner(reset_in[RouteOf[r]])
            /\ retry_in'[r] = Sooner(retry_in[r])
        BY <2>1, <3>2, Zenon DEF Tick
      <4>2. /\ global_in \in Nat /\ reset_in[RouteOf[r]] \in Nat /\ retry_in[r] \in Nat
        BY <1>1, <2>1 DEF TypeTime
      <4> QED
        BY <2>1, <4>1, <4>2 DEF WaitMs, Larger, Sooner
    <3>3. ASSUME NEW q \in Requests,
                 SubmitFreeRejected(q) \/ WorkerFree(q) \/ CancelDetached(q)
          PROVE  WaitMs(r) = 0 => WaitMs(r)' = 0
      <4>1. q # r /\ FreeJob(q) /\ UNCHANGED limits
        BY <2>2, <3>3, Zenon DEF SubmitFreeRejected, WorkerFree, CancelDetached
      <4>2. retry_in'[r] = retry_in[r]
        BY <1>1, <2>1, <4>1, Zenon DEF FreeJob, TypeTime
      <4> QED
        BY <2>1, <4>1, <4>2, Zenon DEF WaitMs, limits
    <3>4. ASSUME NEW q \in Requests, Classify(q) PROVE WaitMs(r) = 0 => WaitMs(r)' = 0
      BY <2>1, <3>4, Zenon DEF Classify, WaitMs, limits
    <3> QED
      BY <2>3, <2>4, <3>1, <3>2, <3>3, <3>4, TimeFrame, Zenon DEF TimeSteps
  <2> QED
    BY <1>1, <1>4, <2>1, <2>5, <2>6, Zenon DEF HandOpen
<1>5. DrainTake => HandOpen'
  BY <1>3, Zenon DEF DrainTake
<1>6. \/ drain'.taken = None \/ DrainTake \/ UNCHANGED drain
  <2>1. ASSUME NEW t, NEW a, NEW g, drain' = Draining(t, a, g) PROVE drain'.taken = None
    BY <2>1, Zenon DEF Draining
  <2>2. drain' = NoDrain => drain'.taken = None
    BY DEF NoDrain
  <2> QED
    BY <2>1, <2>2, DrainFrame, Zenon
       DEF DrainSteps, DrainStop, DrainSpawn, DrainSpawnFails, DrainReturns, WaitCheck,
           RetryWake, SubmitEnqueue, RequeueRetry, Complete, RequestCancelLocked
<1> QED
  BY <1>2, <1>4, <1>5, <1>6, Zenon

(* The active bytes stay within their limit. *)
LEMMA BytesStep == IndInv /\ Next => ActiveBytesBounded'
<1> SUFFICES ASSUME IndInv, Next PROVE ActiveBytesBounded'
  BY Zenon
<1> USE ConstantsAssumption, LimitsAssumption DEF ActiveBytesBounded
<1>1. TypeSched /\ TypeDrain /\ TypeRes /\ QueueShape /\ active_request_bytes <= MaxActiveBytes
  BY Zenon DEF IndInv, TypeOK
<1>2. active_request_bytes \in Nat /\ MaxActiveBytes \in Nat
  BY <1>1, Zenon DEF TypeRes
<1>3. ASSUME NEW b \in Nat, active_request_bytes' = GuardedSub(active_request_bytes, b)
      PROVE  ActiveBytesBounded'
  BY <1>1, <1>2, <1>3 DEF GuardedSub
<1>4. ASSUME active_request_bytes' = active_request_bytes PROVE ActiveBytesBounded'
  BY <1>1, <1>4, Zenon
<1>5. ASSUME NEW b \in Nat, b <= SizeSub(MaxActiveBytes, active_request_bytes),
             active_request_bytes' = active_request_bytes + b
      PROVE  ActiveBytesBounded'
  BY <1>1, <1>2, <1>5 DEF SizeSub
<1>6. ASSUME NEW p \in Priorities, NEW i \in 1 .. Len(queue[p]), TakeAt(p, i)
      PROVE  ActiveBytesBounded'
  <2>1. queue[p][i] \in Requests
    BY <1>1, <1>6, QueueTake, Zenon
  <2>2. CanActivate(queue[p][i]) /\ Activate(queue[p][i])
    BY <1>6, Zenon DEF TakeAt
  <2> QED
    BY <1>5, <2>1, <2>2, Zenon DEF CanActivate, Activate
<1>7. ASSUME DrainTake PROVE ActiveBytesBounded'
  BY <1>6, <1>7, Zenon DEF DrainTake
<1>8. ASSUME DrainSpawnFails PROVE ActiveBytesBounded'
  <2>1. drain.taken \in Requests
    BY <1>1, <1>8, Zenon DEF DrainSpawnFails, TypeDrain
  <2>2. \/ active_request_bytes' = active_request_bytes
        \/ active_request_bytes' = GuardedSub(active_request_bytes, ChargeOf[drain.taken])
    BY <1>8, Zenon DEF DrainSpawnFails, Requeue, res
  <2> QED
    BY <1>3, <1>4, <2>1, <2>2, Zenon
<1>9. ASSUME NEW r \in Requests,
             \/ SubmitReserve(r) \/ SubmitNoMemory(r) \/ SubmitFreeRejected(r)
             \/ RequeueRetry(r) \/ WorkerFree(r) \/ CancelDetached(r)
      PROVE  ActiveBytesBounded'
  <2>1. \/ active_request_bytes' = active_request_bytes
        \/ active_request_bytes' = GuardedSub(active_request_bytes, ChargeOf[r])
    BY <1>9, Zenon DEF SubmitReserve, ReserveQueued, SubmitNoMemory, SubmitFreeRejected,
           RequeueRetry, Requeue, WorkerFree, CancelDetached, FreeJob, ReleaseRequest, res
  <2> QED
    BY <1>3, <1>4, <2>1, Zenon
<1>10. ASSUME NEW r \in Requests, ReleaseResponse(r) PROVE ActiveBytesBounded'
  <2>1. response_bytes[r] \in Nat
    BY <1>1, Zenon DEF TypeRes
  <2> QED
    BY <1>3, <1>10, <2>1, Zenon DEF ReleaseResponse
<1>11. ASSUME NEW r \in Requests, Classify(r) PROVE ActiveBytesBounded'
  <2>1. \/ active_request_bytes' = active_request_bytes + 0
        \/ \E b \in Nat : /\ b <= SizeSub(MaxActiveBytes, active_request_bytes)
                          /\ active_request_bytes' = active_request_bytes + b
    BY <1>11, Zenon DEF Classify
  <2> QED
    BY <1>2, <1>4, <1>5, <2>1
<1> QED
  BY <1>4, <1>7, <1>8, <1>9, <1>10, <1>11, ResFrame, Zenon DEF ResSteps, res

-----------------------------------------------------------------------------
(* The active list and its count, and the inductive invariant.             *)

(* The laws of counting that the steps of the active list need; they are   *)
(* proved from the library below, where the induction uses them.           *)
CountLaws ==
    /\ IsFiniteSet({}) /\ Cardinality({}) = 0
    /\ \A S \in SUBSET Requests :
          IsFiniteSet(S) => Cardinality(S) \in Nat /\ (Cardinality(S) = 0 <=> S = {})
    /\ \A S \in SUBSET Requests, r \in Requests :
          IsFiniteSet(S) /\ r \notin S =>
              IsFiniteSet(S \cup {r}) /\ Cardinality(S \cup {r}) = Cardinality(S) + 1
    /\ \A S \in SUBSET Requests, r \in Requests :
          IsFiniteSet(S) /\ r \in S =>
              IsFiniteSet(S \ {r}) /\ Cardinality(S \ {r}) = Cardinality(S) - 1

(* A job of the active list is counted. *)
LEMMA SomeActive ==
    ASSUME CountLaws, TypeSched, ActiveFinite, active = Cardinality(active_list),
           NEW r \in active_list
    PROVE  active \in Nat \ {0} /\ active >= 1
<1>1. active_list \in SUBSET Requests /\ active_list # {} /\ IsFiniteSet(active_list)
  BY Zenon DEF TypeSched, ActiveFinite
<1>2. active \in Nat /\ active # 0
  BY <1>1, Zenon DEF CountLaws
<1> QED
  BY <1>2

(* The lists stay lists of requests, each request once and at its          *)
(* priority; the active list and the claims stay typed.                    *)
LEMMA SchedStep == CountLaws /\ IndInv /\ Next => TypeSched' /\ QueueShape'
<1> SUFFICES ASSUME CountLaws, IndInv, Next PROVE TypeSched' /\ QueueShape'
  BY Zenon
<1>1. /\ TypeSched /\ TypeDrain /\ TypeRes /\ TypeThreads /\ TypeFlags
      /\ QueueShape /\ DrainPlace /\ Places /\ Claims /\ ActiveFinite
      /\ active = Cardinality(active_list)
  BY Zenon DEF IndInv, TypeOK, ActiveCounted
<1>2. ASSUME UNCHANGED <<sched, submitted>> PROVE TypeSched' /\ QueueShape'
  BY <1>1, <1>2, QueueSame, ZenonT(40) DEF sched, TypeSched
<1>3. ASSUME NEW p \in Priorities, NEW i \in 1 .. Len(queue[p]), TakeAt(p, i)
      PROVE  TypeSched' /\ QueueShape'
  <2> DEFINE r == queue[p][i]
  <2>1. r \in Requests /\ queue' \in [Priorities -> Seq(Requests)] /\ QueueShape'
    BY <1>1, <1>3, QueueTake, ZenonT(40)
  <2>4. /\ active' = active + 1 /\ active \in Nat
    BY <1>1, <1>3, Zenon DEF TakeAt, TypeSched
  <2>5. active' \in Nat
    BY <2>4
  <2>6. RouteOf[r] \in Routes
    BY <2>1, RouteTyped, Zenon
  <2>2. /\ active_list' \subseteq Requests
        /\ active_routes' \subseteq Routes /\ submitted' \in Seq(Requests)
    BY <1>1, <1>3, <2>1, <2>6, Zenon DEF TakeAt, TypeSched
  <2>3. route_claimed' \in [Requests -> BOOLEAN]
    BY <1>1, <1>3, <2>1, Zenon DEF TakeAt, TypeSched, TypeFlags
  <2> QED
    BY <2>1, <2>2, <2>3, <2>5, Zenon DEF TypeSched
<1>4. ASSUME DrainSpawnFails PROVE TypeSched' /\ QueueShape'
  <2> DEFINE r == drain.taken
  <2>1. r \in Requests /\ ~InQueue(r) /\ r \in active_list
    BY <1>1, <1>4, Zenon DEF DrainSpawnFails, TypeDrain, Places, PlaceOf, Claims, ClaimOf
  <2>2. drain.at \in 1 .. Len(queue[PriorityOf[r]]) + 1
    BY <1>1, <2>1, NoneApart, Zenon DEF DrainPlace
  <2>3. queue' \in [Priorities -> Seq(Requests)] /\ QueueShape'
    <3>1. CASE queue' = queue
      BY <1>1, <3>1, QueueSame, ZenonT(40) DEF TypeSched
    <3>2. CASE queue' = [queue EXCEPT ![PriorityOf[r]] = Restore(@, drain.at, r)]
      BY <1>1, <2>1, <2>2, <3>2, QueueRestore, ZenonT(40)
    <3> QED
      BY <1>4, <3>1, <3>2, ZenonT(40) DEF DrainSpawnFails
  <2>4. active \in Nat \ {0}
    BY <1>1, <2>1, SomeActive, Zenon
  <2>5. /\ active' \in Nat /\ active_list' \subseteq Requests
        /\ active_routes' \subseteq Routes /\ submitted' \in Seq(Requests)
        /\ route_claimed' \in [Requests -> BOOLEAN]
    <3>1. /\ active' = active - 1 /\ active_list' = active_list \ {r}
          /\ active_routes' \subseteq active_routes
          /\ route_claimed' = [route_claimed EXCEPT ![r] = FALSE]
          /\ submitted' = submitted
      BY <1>4, Zenon DEF DrainSpawnFails
    <3>2. active' \in Nat
      BY <2>4, <3>1
    <3> QED
      BY <1>1, <3>1, <3>2, Zenon DEF TypeSched
  <2> QED
    BY <2>3, <2>5, Zenon DEF TypeSched
<1>5. ASSUME NEW r \in Requests, SubmitEnqueue(r) PROVE TypeSched' /\ QueueShape'
  <2>1. ~InQueue(r)
    BY <1>1, <1>5, Zenon DEF SubmitEnqueue, Places, PlaceOf, Live
  <2>2. queue' \in [Priorities -> Seq(Requests)] /\ QueueShape'
    BY <1>1, <1>5, <2>1, QueuePush, ZenonT(40) DEF SubmitEnqueue
  <2>3. submitted' \in Seq(Requests)
    <3>1. submitted' = Append(submitted, r) /\ submitted \in Seq(Requests)
      BY <1>1, <1>5, Zenon DEF SubmitEnqueue, TypeSched
    <3> QED
      BY <3>1
  <2> QED
    BY <1>1, <1>5, <2>2, <2>3, ZenonT(40) DEF SubmitEnqueue, TypeSched
<1>6. ASSUME NEW r \in Requests, FinishActive(r)
      PROVE  /\ active' \in Nat /\ active_list' \subseteq Requests
             /\ active_routes' \subseteq Routes
             /\ route_claimed' \in [Requests -> BOOLEAN]
  <2>1. active' = GuardedSub(active, 1) /\ active \in Nat
    BY <1>1, <1>6, Zenon DEF FinishActive, TypeSched
  <2>2. active' \in Nat
    BY <2>1 DEF GuardedSub
  <2> QED
    BY <1>1, <1>6, <2>2, Zenon DEF FinishActive, TypeSched
<1>7. ASSUME NEW r \in Requests, RequeueRetry(r) PROVE TypeSched' /\ QueueShape'
  <2>1. ~InQueue(r)
    BY <1>1, <1>7, Zenon DEF RequeueRetry, Places, PlaceOf
  <2>2. queue' \in [Priorities -> Seq(Requests)] /\ QueueShape'
    BY <1>1, <1>7, <2>1, QueuePush, Zenon DEF RequeueRetry
  <2> QED
    BY <1>1, <1>6, <1>7, <2>2, ZenonT(40) DEF RequeueRetry, TypeSched
<1>8. ASSUME NEW r \in Requests, Complete(r) PROVE TypeSched' /\ QueueShape'
  <2>1. queue' \in [Priorities -> Seq(Requests)] /\ QueueShape'
    BY <1>1, <1>8, DetachOrKeep, Zenon DEF Complete
  <2> QED
    BY <1>1, <1>6, <1>8, <2>1, Zenon DEF Complete, TypeSched
<1>9. ASSUME BulkCancel PROVE TypeSched' /\ QueueShape'
  <2>1. queue' \in [Priorities -> Seq(Requests)] /\ QueueShape'
    BY <1>1, <1>9, DetachOrKeep, Zenon DEF BulkCancel
  <2> QED
    BY <1>1, <1>9, <2>1, Zenon DEF BulkCancel, TypeSched
<1>10. ASSUME TeardownCancelAll PROVE TypeSched' /\ QueueShape'
  <2>1. queue' \in [Priorities -> Seq(Requests)] /\ QueueShape'
    BY <1>1, <1>10, DetachOrKeep, Zenon DEF TeardownCancelAll
  <2> QED
    BY <1>1, <1>10, <2>1, Zenon DEF TeardownCancelAll, TypeSched
<1>11. ASSUME DrainTake PROVE TypeSched' /\ QueueShape'
  BY <1>3, <1>11, Zenon DEF DrainTake
<1> QED
  BY <1>2, <1>4, <1>5, <1>7, <1>8, <1>9, <1>10, <1>11, SchedFrame, ZenonT(40) DEF SchedSteps

(* A route is in the table when a job of the active list has claimed it. *)
LEMMA RoutesExact ==
    ASSUME TypeSched, RouteExclusive, NEW x
    PROVE  x \in active_routes <=>
               \E q \in active_list : route_claimed[q] /\ x = RouteOf[q]
BY Zenon DEF RouteExclusive

(* A job leaves the active list and gives its claim back. *)
LEMMA Leaves ==
    ASSUME CountLaws, TypeSched, Claims, RouteExclusive, ActiveFinite, ActiveCounted,
           NEW r \in active_list,
           active' = active - 1, active_list' = active_list \ {r},
           active_routes' = IF route_claimed[r] THEN active_routes \ {RouteOf[r]}
                                                ELSE active_routes,
           route_claimed' = [route_claimed EXCEPT ![r] = FALSE], Claims'
    PROVE  RouteExclusive' /\ ActiveFinite' /\ ActiveCounted'
<1>1. r \in Requests /\ active_list \subseteq Requests /\ active \in Nat
  BY Zenon DEF TypeSched
<1>2. \A q \in Requests : route_claimed'[q] <=> route_claimed[q] /\ q # r
  BY <1>1, Zenon DEF TypeSched
<1>3. \A a, b \in active_list : route_claimed[a] /\ route_claimed[b]
                                /\ RouteOf[a] = RouteOf[b] => a = b
  BY Zenon DEF RouteExclusive
<1>4. \A a, b \in active_list' : route_claimed'[a] /\ route_claimed'[b]
                                 /\ RouteOf[a] = RouteOf[b] => a = b
  BY <1>1, <1>2, <1>3, Zenon
<1>5. \A x : x \in active_routes' <=>
                 \E q \in active_list' : route_claimed'[q] /\ x = RouteOf[q]
  <2>1. \A x : x \in active_routes <=>
                 \E q \in active_list : route_claimed[q] /\ x = RouteOf[q]
    BY RoutesExact, Zenon
  <2>2. CASE route_claimed[r]
    BY <1>1, <1>2, <1>3, <2>1, <2>2, ZenonT(40)
  <2>3. CASE ~route_claimed[r]
    BY <1>1, <1>2, <2>1, <2>3, ZenonT(40)
  <2> QED
    BY <2>2, <2>3, Zenon
<1>6. active_routes' = {RouteOf[q] : q \in {a \in active_list' : route_claimed'[a]}}
  <2> DEFINE Claimed == {RouteOf[q] : q \in {a \in active_list' : route_claimed'[a]}}
  <2>1. \A x : x \in Claimed <=>
                 \E q \in active_list' : route_claimed'[q] /\ x = RouteOf[q]
    BY Zenon
  <2> HIDE DEF Claimed
  <2>2. \A x : x \in active_routes' <=> x \in Claimed
    BY <1>5, <2>1, Zenon
  <2>3. active_routes' = Claimed
    BY <2>2, Zenon
  <2> QED
    BY <2>3 DEF Claimed
<1>7. RouteExclusive'
  BY <1>4, <1>6, Zenon DEF RouteExclusive, Claims, ClaimOf
<1>8. IsFiniteSet(active_list') /\ Cardinality(active_list') = Cardinality(active_list) - 1
  BY <1>1, Zenon DEF ActiveFinite, CountLaws
<1>9. active = Cardinality(active_list) /\ active <= Concurrency
  BY Zenon DEF ActiveCounted
<1>10. active' = Cardinality(active_list')
  BY <1>8, <1>9, Zenon
<1>11. active' <= Concurrency
  <2>1. active' = active - 1 /\ active <= Concurrency /\ active \in Nat /\ Concurrency \in Nat
    BY <1>1, <1>9, SlotsTyped, Zenon
  <2> QED
    BY <2>1
<1> QED
  BY <1>7, <1>8, <1>10, <1>11, Zenon DEF ActiveFinite, ActiveCounted

(* The claims, the active list and its count agree. *)
LEMMA ExclusiveStep ==
    CountLaws /\ IndInv /\ Next /\ Claims'
        => RouteExclusive' /\ ActiveFinite' /\ ActiveCounted'
<1> SUFFICES ASSUME CountLaws, IndInv, Next, Claims'
             PROVE  RouteExclusive' /\ ActiveFinite' /\ ActiveCounted'
  BY Zenon
<1>1. /\ TypeSched /\ TypeDrain /\ TypeFlags /\ QueueShape /\ Places /\ Claims
      /\ RouteExclusive /\ ActiveFinite /\ ActiveCounted
  BY Zenon DEF IndInv, TypeOK
<1>2. ASSUME UNCHANGED <<active_list, active, active_routes, route_claimed>>
      PROVE  RouteExclusive' /\ ActiveFinite' /\ ActiveCounted'
  BY <1>1, <1>2, Zenon DEF RouteExclusive, ActiveFinite, ActiveCounted, Claims, ClaimOf
<1>3. ASSUME NEW p \in Priorities, NEW i \in 1 .. Len(queue[p]), TakeAt(p, i),
             active < Concurrency, drain.taken = None
      PROVE  RouteExclusive' /\ ActiveFinite' /\ ActiveCounted'
  <2> DEFINE r == queue[p][i]
  <2>1. r \in Requests /\ InQueue(r)
    BY <1>1, <1>3, QueueTake, Zenon
  <2>2. /\ active' = active + 1 /\ active_list' = active_list \cup {r}
        /\ active_routes' = IF cancel_requested[r] THEN active_routes
                                             ELSE active_routes \cup {RouteOf[r]}
        /\ route_claimed' = [route_claimed EXCEPT ![r] = ~cancel_requested[r]]
        /\ Eligible(r)
    BY <1>3, Zenon DEF TakeAt, IsNext
  <2> HIDE DEF r
  <2>3. r \notin active_list /\ active_list \subseteq Requests /\ active \in Nat
    BY <1>1, <1>3, <2>1, Zenon DEF Places, PlaceOf, Claims, ClaimOf, TypeSched
  <2>4. /\ \A q \in Requests \ {r} : route_claimed'[q] = route_claimed[q]
        /\ route_claimed'[r] <=> ~cancel_requested[r]
    BY <1>1, <2>1, <2>2, Zenon DEF TypeSched, TypeFlags
  <2>5. \A x : x \in active_routes <=>
                 \E q \in active_list : route_claimed[q] /\ x = RouteOf[q]
    BY <1>1, RoutesExact, Zenon
  <2>6. \A a, b \in active_list : route_claimed[a] /\ route_claimed[b]
                                  /\ RouteOf[a] = RouteOf[b] => a = b
    BY <1>1, Zenon DEF RouteExclusive
  <2>7. ~cancel_requested[r] =>
            \A q \in active_list : ~(route_claimed[q] /\ RouteOf[r] = RouteOf[q])
    BY <2>2, <2>5, Zenon DEF Eligible
  <2>8. \A a, b \in active_list' : route_claimed'[a] /\ route_claimed'[b]
                                   /\ RouteOf[a] = RouteOf[b] => a = b
    BY <2>2, <2>3, <2>4, <2>6, <2>7, ZenonT(40)
  <2>9. \A x : x \in active_routes' <=>
                 \E q \in active_list' : route_claimed'[q] /\ x = RouteOf[q]
    <3> SUFFICES ASSUME NEW x
                 PROVE  x \in active_routes' <=>
                          \E q \in active_list' : route_claimed'[q] /\ x = RouteOf[q]
      BY Zenon
    <3>1. \A q \in active_list : route_claimed'[q] = route_claimed[q]
      BY <2>3, <2>4, Zenon
    <3>2. (\E q \in active_list' : route_claimed'[q] /\ x = RouteOf[q]) <=>
              x \in active_routes \/ (~cancel_requested[r] /\ x = RouteOf[r])
      <4>1. ASSUME NEW q \in active_list', route_claimed'[q], x = RouteOf[q]
            PROVE  x \in active_routes \/ (~cancel_requested[r] /\ x = RouteOf[r])
        <5>1. CASE q = r
          BY <4>1, <5>1, <2>4, Zenon
        <5>2. CASE q \in active_list
          BY <4>1, <5>2, <3>1, <2>5, Zenon
        <5> QED
          BY <5>1, <5>2, <2>2, Zenon
      <4>2. ASSUME x \in active_routes
            PROVE  \E q \in active_list' : route_claimed'[q] /\ x = RouteOf[q]
        BY <4>2, <3>1, <2>2, <2>5, ZenonT(40)
      <4>3. ASSUME ~cancel_requested[r], x = RouteOf[r]
            PROVE  \E q \in active_list' : route_claimed'[q] /\ x = RouteOf[q]
        BY <4>3, <2>2, <2>4, Zenon
      <4> QED
        BY <4>1, <4>2, <4>3, Zenon
    <3>3. x \in active_routes' <=>
              x \in active_routes \/ (~cancel_requested[r] /\ x = RouteOf[r])
      BY <2>2, Zenon
    <3> QED
      BY <3>2, <3>3, Zenon
  <2>10. active_routes' = {RouteOf[q] : q \in {a \in active_list' : route_claimed'[a]}}
    <3> DEFINE Claimed == {RouteOf[q] : q \in {a \in active_list' : route_claimed'[a]}}
    <3>1. \A x : x \in Claimed <=>
                   \E q \in active_list' : route_claimed'[q] /\ x = RouteOf[q]
      BY Zenon
    <3> HIDE DEF Claimed
    <3>2. \A x : x \in active_routes' <=> x \in Claimed
      BY <2>9, <3>1, Zenon
    <3>3. active_routes' = Claimed
      BY <3>2, Zenon
    <3> QED
      BY <3>3 DEF Claimed
  <2>11. RouteExclusive'
    BY <2>8, <2>10, Zenon DEF RouteExclusive, Claims, ClaimOf
  <2>12. /\ IsFiniteSet(active_list')
         /\ Cardinality(active_list') = Cardinality(active_list) + 1
    BY <1>1, <2>1, <2>2, <2>3, Zenon DEF ActiveFinite, CountLaws
  <2>13. active' = Cardinality(active_list')
    BY <1>1, <2>2, <2>12, Zenon DEF ActiveCounted
  <2>14. active' <= Concurrency
    <3>1. active' = active + 1 /\ active < Concurrency /\ active \in Nat /\ Concurrency \in Nat
      BY <1>3, <2>2, <2>3, SlotsTyped, Zenon
    <3> QED
      BY <3>1
  <2> QED
    BY <2>11, <2>12, <2>13, <2>14, Zenon DEF ActiveFinite, ActiveCounted
<1>4. ASSUME DrainSpawnFails PROVE RouteExclusive' /\ ActiveFinite' /\ ActiveCounted'
  <2>1. drain.taken \in active_list
    BY <1>1, <1>4, Zenon DEF DrainSpawnFails, TypeDrain, Claims, ClaimOf
  <2>2. /\ active' = active - 1 /\ active_list' = active_list \ {drain.taken}
        /\ active_routes' = IF route_claimed[drain.taken]
                            THEN active_routes \ {RouteOf[drain.taken]}
                            ELSE active_routes
        /\ route_claimed' = [route_claimed EXCEPT ![drain.taken] = FALSE]
    BY <1>4, Zenon DEF DrainSpawnFails
  <2> QED
    BY <1>1, <2>1, <2>2, Leaves, Zenon
<1>5. ASSUME NEW r \in active_list, FinishActive(r)
      PROVE  RouteExclusive' /\ ActiveFinite' /\ ActiveCounted'
  <2>1. active \in Nat /\ active >= 1
    BY <1>1, SomeActive, Zenon DEF ActiveCounted
  <2>2. /\ active' = active - 1 /\ active_list' = active_list \ {r}
        /\ active_routes' = IF route_claimed[r] THEN active_routes \ {RouteOf[r]}
                                                ELSE active_routes
        /\ route_claimed' = [route_claimed EXCEPT ![r] = FALSE]
    BY <1>5, <2>1, Zenon DEF FinishActive, GuardedSub
  <2> QED
    BY <1>1, <2>2, Leaves, ZenonT(40)
<1>6. ASSUME NEW r \in Requests, RequeueRetry(r) \/ Complete(r)
      PROVE  RouteExclusive' /\ ActiveFinite' /\ ActiveCounted'
  <2>1. r \in active_list /\ FinishActive(r)
    BY <1>1, <1>6, Zenon DEF RequeueRetry, Complete, Claims, ClaimOf
  <2> QED
    BY <1>5, <2>1, Zenon
<1>7. ASSUME \/ UNCHANGED <<sched, submitted>> \/ BulkCancel \/ TeardownCancelAll
             \/ \E r \in Requests : SubmitEnqueue(r)
      PROVE  RouteExclusive' /\ ActiveFinite' /\ ActiveCounted'
  <2>1. UNCHANGED <<active_list, active, active_routes, route_claimed>>
    BY <1>7, Zenon DEF sched, BulkCancel, TeardownCancelAll, SubmitEnqueue
  <2> QED
    BY <1>2, <2>1, Zenon
<1>8. ASSUME DrainTake PROVE RouteExclusive' /\ ActiveFinite' /\ ActiveCounted'
  BY <1>3, <1>8, Zenon DEF DrainTake
<1> QED
  BY <1>4, <1>6, <1>7, <1>8, SchedFrame, Zenon DEF SchedSteps

LEMMA IndInit == CountLaws /\ Init => IndInv
<1> SUFFICES ASSUME CountLaws, Init PROVE IndInv
  BY Zenon
<1> USE ConstantsAssumption
<1>1. TypeSched
  BY SMTT(30) DEF Init, TypeSched
<1>2. TypeDrain /\ DrainPlace
  BY Zenon DEF Init, TypeDrain, DrainPlace, NoDrain
<1>3. TypeRes /\ ActiveBytesBounded
  <2>1. 0 \in Nat /\ 0 \in 0 .. 2 /\ 0 <= MaxActiveBytes
    BY LimitsAssumption
  <2> QED
    BY <2>1, Zenon DEF Init, TypeRes, ActiveBytesBounded
<1>8. TypeTime
  BY SMTT(30) DEF Init, TypeTime
<1>9. TypeFlags
  BY Zenon DEF Init, TypeFlags
<1>10. HandOpen
  BY Zenon DEF Init, HandOpen, NoDrain
<1>4. TypeThreads
  BY Zenon DEF Init, TypeThreads, SubStates, WorkerStates, Outcomes, TeardownStates
<1>5. QueueShape /\ \A r \in Requests : ~InQueue(r)
  BY EmptySequence, Zenon DEF Init, QueueShape, InQueue
<1>6. Places /\ Claims
  <2> SUFFICES ASSUME NEW r \in Requests PROVE PlaceOf(r) /\ ClaimOf(r)
    BY Zenon DEF Places, Claims
  <2>1. /\ sub[r] = "new" /\ worker[r] = "none" /\ owner[r] = None /\ terminal[r] = 0
        /\ resource_state[r] = 0 /\ ~route_claimed[r] /\ r \notin active_list
    BY Zenon DEF Init
  <2>2. drain.taken # r /\ ~InQueue(r)
    BY <1>5, EmptyHand, NoneApart, Zenon DEF Init
  <2>3. ~Live(r) /\ Charged(sub[r]) = 0
    BY <2>1, Zenon DEF Live, Charged
  <2>4. PlaceOf(r)
    BY <2>1, <2>2, <2>3, Zenon DEF PlaceOf
  <2>5. ClaimOf(r)
    BY <2>1, <2>2, Zenon DEF ClaimOf
  <2> QED
    BY <2>4, <2>5, Zenon
<1>7. RouteExclusive /\ ActiveFinite /\ ActiveCounted
  <2>1. active_list = {} /\ active = 0 /\ active_routes = {}
    BY Zenon DEF Init
  <2>2. ActiveFinite /\ active = Cardinality(active_list)
    BY <2>1, Zenon DEF ActiveFinite, CountLaws
  <2>3. active <= Concurrency
    BY <2>1, SlotsTyped
  <2>4. RouteExclusive
    BY <2>1, <1>6, Zenon DEF RouteExclusive, Claims, ClaimOf
  <2> QED
    BY <2>2, <2>3, <2>4, Zenon DEF ActiveCounted
<1> QED
  BY <1>1, <1>2, <1>3, <1>4, <1>5, <1>6, <1>7, <1>8, <1>9, <1>10, ZenonT(40) DEF IndInv, TypeOK

LEMMA IndStep == CountLaws /\ IndInv /\ [Next]_vars => IndInv'
<1> SUFFICES ASSUME CountLaws, IndInv, [Next]_vars PROVE IndInv'
  BY Zenon
<1>1. CASE Next
  BY <1>1, PlacesStep, SchedStep, ClaimsStep, ExclusiveStep, DrainTypeStep, ResTypeStep,
     TimeTypeStep, ThreadTypeStep, FlagTypeStep, HandStep, BytesStep, ZenonT(40) DEF IndInv, TypeOK
<1>2. CASE UNCHANGED vars
  <2> USE <1>2 DEF IndInv, vars, sched, res, limits, work, cancels, client
  <2>1. TypeSched' /\ TypeDrain' /\ TypeRes'
    BY Zenon DEF TypeOK, TypeSched, TypeDrain, TypeRes
  <2>2. TypeTime' /\ TypeThreads' /\ TypeFlags'
    BY Zenon DEF TypeOK, TypeTime, TypeThreads, TypeFlags
  <2>3. QueueShape' /\ DrainPlace'
    BY Zenon DEF QueueShape, DrainPlace
  <2>4. Places'
    BY ZenonT(40) DEF Places, PlaceOf, InQueue, Live
  <2>5. Claims'
    BY Zenon DEF Claims, ClaimOf
  <2>6. RouteExclusive' /\ ActiveFinite' /\ ActiveCounted'
    BY Zenon DEF RouteExclusive, ActiveFinite, ActiveCounted
  <2>7. HandOpen' /\ ActiveBytesBounded'
    BY Zenon DEF HandOpen, WaitMs, ActiveBytesBounded
  <2> QED
    BY <2>1, <2>2, <2>3, <2>4, <2>5, <2>6, <2>7, ZenonT(40) DEF TypeOK
<1> QED
  BY <1>1, <1>2, Zenon

(* What the inductive invariant says of the place of a job. *)
LEMMA OnePlaceHolds == ASSUME IndInv PROVE OnePlace
<1> SUFFICES ASSUME NEW r \in Requests
    PROVE  LET places == {x \in {"list", "hand", "worker", "detached"} :
                            \/ x = "list" /\ InQueue(r)
                            \/ x = "hand" /\ drain.taken = r
                            \/ x = "worker" /\ worker[r] # "none"
                            \/ x = "detached" /\ owner[r] # None}
           IN  IF sub[r] \in {"queued", "accepted"} /\ resource_state[r] # 0
               THEN \E x \in {"list", "hand", "worker", "detached"} : places = {x}
               ELSE places = {}
  BY Zenon DEF OnePlace
<1> DEFINE places == {x \in {"list", "hand", "worker", "detached"} :
                        \/ x = "list" /\ InQueue(r)
                        \/ x = "hand" /\ drain.taken = r
                        \/ x = "worker" /\ worker[r] # "none"
                        \/ x = "detached" /\ owner[r] # None}
<1>1. PlaceOf(r)
  BY Zenon DEF IndInv, Places
<1>2. CASE Live(r) /\ resource_state[r] # 0
  <2>1. CASE InQueue(r)
    <3>1. places = {"list"}
      BY <1>1, <2>1, Zenon DEF PlaceOf
    <3> QED
      BY <1>2, <3>1, Zenon DEF Live
  <2>2. CASE drain.taken = r
    <3>1. places = {"hand"}
      BY <1>1, <2>2, Zenon DEF PlaceOf
    <3> QED
      BY <1>2, <3>1, Zenon DEF Live
  <2>3. CASE worker[r] # "none"
    <3>1. places = {"worker"}
      BY <1>1, <2>3, Zenon DEF PlaceOf
    <3> QED
      BY <1>2, <3>1, Zenon DEF Live
  <2>4. CASE owner[r] # None
    <3>1. places = {"detached"}
      BY <1>1, <2>4, Zenon DEF PlaceOf
    <3> QED
      BY <1>2, <3>1, Zenon DEF Live
  <2> QED
    BY <1>1, <1>2, <2>1, <2>2, <2>3, <2>4, ZenonT(40) DEF PlaceOf
<1>3. CASE ~(Live(r) /\ resource_state[r] # 0)
  <2>1. places = {}
    <3>2. 1 # 0 /\ 2 # 0
      OBVIOUS
    <3>1. ~InQueue(r) /\ drain.taken # r /\ worker[r] = "none" /\ owner[r] = None
      BY <1>1, <1>3, <3>2, Zenon DEF PlaceOf
    <3> QED
      BY <3>1, Zenon
  <2> QED
    BY <1>3, <2>1, Zenon DEF Live
<1> QED
  BY <1>2, <1>3, Zenon

LEMMA OneTerminalHolds == IndInv => ExactlyOneTerminal
<1> SUFFICES ASSUME IndInv, NEW r \in Requests
             PROVE  /\ terminal[r] <= 1
                    /\ sub[r] \notin {"queued", "accepted"} => terminal[r] = 0
                    /\ sub[r] \in {"queued", "accepted"} /\ resource_state[r] = 0
                       => terminal[r] = 1
  BY Zenon DEF ExactlyOneTerminal
<1>1. PlaceOf(r)
  BY Zenon DEF IndInv, Places
<1>2. terminal[r] = 0 \/ terminal[r] = 1
  BY <1>1, Zenon DEF PlaceOf
<1>4. 0 <= 1 /\ 1 <= 1
  OBVIOUS
<1>3. terminal[r] <= 1
  BY <1>2, <1>4, Zenon
<1> QED
  BY <1>1, <1>3, Zenon DEF PlaceOf, Live

LEMMA StartsWithin ==
    IndInv /\ [Next]_vars =>
        [\A r \in Requests :
           worker[r] = "none" /\ worker'[r] = "start" /\ ~cancel_requested[r]
           => WaitMs(r) = 0]_vars
<1> SUFFICES ASSUME IndInv, Next, NEW r \in Requests,
                    worker[r] = "none", worker'[r] = "start", ~cancel_requested[r]
             PROVE  WaitMs(r) = 0
  BY Zenon
<1>1. TypeThreads /\ TypeDrain /\ HandOpen
  BY ZenonT(40) DEF IndInv, TypeOK
<1>2. DrainSpawn
  <2>1. ASSUME NEW q \in Requests, WorkerStep(q) PROVE FALSE
    <3>1. \E w \in WorkerStates \ {"start"} : worker' = [worker EXCEPT ![q] = w]
      BY <2>1, Zenon DEF WorkerStep, WorkerStart, HttpFails, HttpResponse, Classify, Backoff,
             ReleaseResponse, RetryAbandoned, RequeueRetry, Deliver, Complete,
             WorkerFree, WorkerStates
    <3> QED
      BY <1>1, <3>1, Zenon DEF TypeThreads
  <2>2. worker' # worker
    BY Zenon
  <2> QED
    BY <2>1, <2>2, ZenonT(40) DEF Next, DrainStep, DrainStop, DrainTake, TakeAt, DrainSpawnFails,
           SubmitStep, OperationBegin, SubmitReserve, SubmitRejected, SubmitNoMemory,
           SubmitEnqueue, SubmitFreeRejected, SubmitReturn, CancelStep, RequestCancel,
           RequestCancelLocked, CancelDetached, RetryWake, BulkCancel, WaitStep,
           WaitBegin, WaitCheck, WaitElapsed, TeardownStep, ClientStop, CloseAdmission,
           TeardownCancelAll, OperationsWait, RuntimeQuiesce, TeardownWait, Tick, work
<1>3. drain.taken = r /\ drain.taken # None
  BY <1>1, <1>2, Zenon DEF DrainSpawn, TypeThreads
<1> QED
  BY <1>1, <1>3, Zenon DEF HandOpen

-----------------------------------------------------------------------------
(* The second invariant: the counters of requests and bytes.               *)

OthersSame(v, w, r) == \A q \in Requests : q # r => w[q] = v[q]

(* How a change of one request's size changes the number of bytes; proved  *)
(* from the library below.                                                 *)
BytesLaw ==
    \A v, w \in [Requests -> Nat] : \A r \in Requests :
        IsFiniteSet(Bytes(v)) /\ OthersSame(v, w, r) =>
            /\ IsFiniteSet(Bytes(w))
            /\ Cardinality(Bytes(v)) \in Nat /\ Cardinality(Bytes(w)) \in Nat
            /\ Cardinality(Bytes(w)) + v[r] = Cardinality(Bytes(v)) + w[r]

(* A counter of bytes follows the size of a request: the guard of a        *)
(* decrement always holds.                                                 *)
Follows(c, a, b) == IF b >= a THEN c + (b - a) ELSE GuardedSub(c, a - b)

LEMMA SizeChanges ==
    ASSUME BytesLaw, NEW v \in [Requests -> Nat], NEW w \in [Requests -> Nat],
           NEW r \in Requests, IsFiniteSet(Bytes(v)), OthersSame(v, w, r)
    PROVE  /\ IsFiniteSet(Bytes(w))
           /\ Cardinality(Bytes(w)) = Follows(Cardinality(Bytes(v)), v[r], w[r])
<1>1. /\ IsFiniteSet(Bytes(w))
      /\ Cardinality(Bytes(v)) \in Nat /\ Cardinality(Bytes(w)) \in Nat
      /\ Cardinality(Bytes(w)) + v[r] = Cardinality(Bytes(v)) + w[r]
  BY Zenon DEF BytesLaw
<1>2. v[r] \in Nat /\ w[r] \in Nat
  BY Zenon
<1>3. \A c, d, a, b \in Nat : d + a = c + b => d = Follows(c, a, b)
  BY DEF Follows, GuardedSub
<1> QED BY <1>1, <1>2, <1>3, ZenonT(40)

(* The sizes, when one job changes its state or its captured body. *)
LEMMA SizesAt ==
    ASSUME TypeRes, NEW r \in Requests, NEW s \in 0 .. 2, NEW b \in Nat,
           resource_state' = [resource_state EXCEPT ![r] = s],
           response_bytes' = [response_bytes EXCEPT ![r] = b]
    PROVE  /\ QueuedSize \in [Requests -> Nat] /\ QueuedSize' \in [Requests -> Nat]
           /\ ActiveSize \in [Requests -> Nat] /\ ActiveSize' \in [Requests -> Nat]
           /\ OthersSame(QueuedSize, QueuedSize', r)
           /\ OthersSame(ActiveSize, ActiveSize', r)
           /\ QueuedSize[r] = IF resource_state[r] = 1 THEN ChargeOf[r] ELSE 0
           /\ QueuedSize'[r] = IF s = 1 THEN ChargeOf[r] ELSE 0
           /\ ActiveSize[r] = IF resource_state[r] = 2 THEN ChargeOf[r] + response_bytes[r]
                                                       ELSE response_bytes[r]
           /\ ActiveSize'[r] = IF s = 2 THEN ChargeOf[r] + b ELSE b
           /\ Queued' = IF s = 1 THEN Queued \cup {r} ELSE Queued \ {r}
<1>1. /\ resource_state'[r] = s /\ response_bytes'[r] = b
      /\ \A q \in Requests : q # r => /\ resource_state'[q] = resource_state[q]
                                      /\ response_bytes'[q] = response_bytes[q]
  BY Zenon DEF TypeRes
<1>2. \A q \in Requests : response_bytes[q] \in Nat /\ response_bytes'[q] \in Nat
  BY <1>1, Zenon DEF TypeRes
<1>3. \A q \in Requests : ChargeOf[q] \in Nat
  BY ChargeTyped, Zenon
<1>4. \A q \in Requests : /\ ChargeOf[q] + response_bytes[q] \in Nat
                          /\ ChargeOf[q] + response_bytes'[q] \in Nat
  BY <1>2, <1>3
<1>5. 0 \in Nat
  OBVIOUS
<1>6. QueuedSize \in [Requests -> Nat] /\ QueuedSize' \in [Requests -> Nat]
  BY <1>3, <1>5, Zenon DEF QueuedSize
<1>7. ActiveSize \in [Requests -> Nat] /\ ActiveSize' \in [Requests -> Nat]
  BY <1>2, <1>4, Zenon DEF ActiveSize
<1>0. /\ \A q \in Requests :
            QueuedSize[q] = IF resource_state[q] = 1 THEN ChargeOf[q] ELSE 0
      /\ \A q \in Requests :
            QueuedSize'[q] = IF resource_state'[q] = 1 THEN ChargeOf[q] ELSE 0
      /\ \A q \in Requests :
            ActiveSize[q] = IF resource_state[q] = 2 THEN ChargeOf[q] + response_bytes[q]
                                                     ELSE response_bytes[q]
      /\ \A q \in Requests :
            ActiveSize'[q] = IF resource_state'[q] = 2 THEN ChargeOf[q] + response_bytes'[q]
                                                       ELSE response_bytes'[q]
  BY Zenon DEF QueuedSize, ActiveSize
<1>8. OthersSame(QueuedSize, QueuedSize', r) /\ OthersSame(ActiveSize, ActiveSize', r)
  <2> SUFFICES ASSUME NEW q \in Requests, q # r
               PROVE  QueuedSize'[q] = QueuedSize[q] /\ ActiveSize'[q] = ActiveSize[q]
    BY Zenon DEF OthersSame
  <2>1. resource_state'[q] = resource_state[q] /\ response_bytes'[q] = response_bytes[q]
    BY <1>1, Zenon
  <2> QED BY <1>0, <2>1, SMTT(20)
<1>9. /\ QueuedSize[r] = IF resource_state[r] = 1 THEN ChargeOf[r] ELSE 0
      /\ QueuedSize'[r] = IF s = 1 THEN ChargeOf[r] ELSE 0
  BY <1>0, <1>1, SMTT(20)
<1>10. /\ ActiveSize[r] = IF resource_state[r] = 2 THEN ChargeOf[r] + response_bytes[r]
                                                   ELSE response_bytes[r]
       /\ ActiveSize'[r] = IF s = 2 THEN ChargeOf[r] + b ELSE b
  BY <1>0, <1>1, SMTT(20)
<1>11. Queued' = IF s = 1 THEN Queued \cup {r} ELSE Queued \ {r}
  <2>1. \A q : q \in Queued' <=> q \in Requests /\ resource_state'[q] = 1
    BY Zenon DEF Queued
  <2>2. \A q : q \in Queued <=> q \in Requests /\ resource_state[q] = 1
    BY Zenon DEF Queued
  <2>3. CASE s = 1
    <3>1. \A q : q \in Queued' <=> q \in Queued \cup {r}
      BY <1>1, <2>1, <2>2, <2>3, Zenon
    <3> QED BY <2>3, <3>1, Zenon
  <2>4. CASE s # 1
    <3>1. \A q : q \in Queued' <=> q \in Queued \ {r}
      BY <1>1, <2>1, <2>2, <2>4, Zenon
    <3> QED BY <2>4, <3>1, Zenon
  <2> QED BY <2>3, <2>4, Zenon
<1> QED BY <1>6, <1>7, <1>8, <1>9, <1>10, <1>11, Zenon

(* What one critical section of resource_lock does to the three counters,  *)
(* when job r goes to state s and its captured body to b bytes.            *)
Recounted(r, s, b) ==
    /\ resource_state' = [resource_state EXCEPT ![r] = s]
    /\ response_bytes' = [response_bytes EXCEPT ![r] = b]
    /\ queued_requests' = Follows(queued_requests, IF resource_state[r] = 1 THEN 1 ELSE 0,
                                  IF s = 1 THEN 1 ELSE 0)
    /\ queued_request_bytes' =
          Follows(queued_request_bytes, IF resource_state[r] = 1 THEN ChargeOf[r] ELSE 0,
                  IF s = 1 THEN ChargeOf[r] ELSE 0)
    /\ active_request_bytes' =
          Follows(active_request_bytes,
                  IF resource_state[r] = 2 THEN ChargeOf[r] + response_bytes[r]
                                           ELSE response_bytes[r],
                  IF s = 2 THEN ChargeOf[r] + b ELSE b)

LEMMA RecountedExact ==
    ASSUME CountLaws, BytesLaw, TypeRes, AccountingExact, UnitsFinite,
           NEW r \in Requests, NEW s \in 0 .. 2, NEW b \in Nat, Recounted(r, s, b)
    PROVE  AccountingExact' /\ UnitsFinite'
<1>1. /\ resource_state' = [resource_state EXCEPT ![r] = s]
      /\ response_bytes' = [response_bytes EXCEPT ![r] = b]
  BY Zenon DEF Recounted
<1>2. /\ QueuedSize \in [Requests -> Nat] /\ QueuedSize' \in [Requests -> Nat]
      /\ ActiveSize \in [Requests -> Nat] /\ ActiveSize' \in [Requests -> Nat]
      /\ OthersSame(QueuedSize, QueuedSize', r)
      /\ OthersSame(ActiveSize, ActiveSize', r)
      /\ QueuedSize[r] = IF resource_state[r] = 1 THEN ChargeOf[r] ELSE 0
      /\ QueuedSize'[r] = IF s = 1 THEN ChargeOf[r] ELSE 0
      /\ ActiveSize[r] = IF resource_state[r] = 2 THEN ChargeOf[r] + response_bytes[r]
                                                  ELSE response_bytes[r]
      /\ ActiveSize'[r] = IF s = 2 THEN ChargeOf[r] + b ELSE b
      /\ Queued' = IF s = 1 THEN Queued \cup {r} ELSE Queued \ {r}
  BY <1>1, SizesAt, Zenon
<1>3. /\ queued_requests = Cardinality(Queued) /\ IsFiniteSet(Queued)
      /\ queued_request_bytes = Cardinality(Bytes(QueuedSize)) /\ IsFiniteSet(Bytes(QueuedSize))
      /\ active_request_bytes = Cardinality(Bytes(ActiveSize)) /\ IsFiniteSet(Bytes(ActiveSize))
  BY Zenon DEF AccountingExact, UnitsFinite
<1>4. IsFiniteSet(Bytes(QueuedSize')) /\ queued_request_bytes' = Cardinality(Bytes(QueuedSize'))
  <2>1. PICK w \in [Requests -> Nat] : w = QueuedSize'
    BY <1>2, Zenon
  <2>2. IsFiniteSet(Bytes(w)) /\
        Cardinality(Bytes(w)) = Follows(Cardinality(Bytes(QueuedSize)), QueuedSize[r], w[r])
    BY <1>2, <1>3, <2>1, SizeChanges, Zenon
  <2> QED BY <1>2, <1>3, <2>1, <2>2, Zenon DEF Recounted
<1>5. IsFiniteSet(Bytes(ActiveSize')) /\ active_request_bytes' = Cardinality(Bytes(ActiveSize'))
  <2>1. PICK w \in [Requests -> Nat] : w = ActiveSize'
    BY <1>2, Zenon
  <2>2. IsFiniteSet(Bytes(w)) /\
        Cardinality(Bytes(w)) = Follows(Cardinality(Bytes(ActiveSize)), ActiveSize[r], w[r])
    BY <1>2, <1>3, <2>1, SizeChanges, Zenon
  <2> QED BY <1>2, <1>3, <2>1, <2>2, Zenon DEF Recounted
<1>6. IsFiniteSet(Queued') /\ queued_requests' = Cardinality(Queued')
  <2>0. Queued \in SUBSET Requests /\ (r \in Queued <=> resource_state[r] = 1)
    BY Zenon DEF Queued
  <2>1. Cardinality(Queued) \in Nat /\ (Cardinality(Queued) = 0 <=> Queued = {})
    BY <1>3, <2>0, Zenon DEF CountLaws
  <2>2. \A c \in Nat : /\ Follows(c, 0, 0) = c /\ Follows(c, 1, 1) = c
                       /\ Follows(c, 0, 1) = c + 1 /\ (c # 0 => Follows(c, 1, 0) = c - 1)
    BY DEF Follows, GuardedSub
  <2>3. CASE s = 1 /\ resource_state[r] = 1
    <3>1. Queued' = Queued
      BY <1>2, <2>0, <2>3, Zenon
    <3>2. queued_requests' = Follows(queued_requests, 1, 1)
      BY <2>3, Zenon DEF Recounted
    <3> QED BY <1>3, <2>1, <2>2, <3>1, <3>2, Zenon
  <2>4. CASE s = 1 /\ resource_state[r] # 1
    <3>1. Queued' = Queued \cup {r} /\ r \notin Queued
      BY <1>2, <2>0, <2>4, Zenon
    <3>2. queued_requests' = Follows(queued_requests, 0, 1)
      BY <2>4, Zenon DEF Recounted
    <3>3. IsFiniteSet(Queued \cup {r}) /\ Cardinality(Queued \cup {r}) = Cardinality(Queued) + 1
      BY <1>3, <2>0, <3>1, Zenon DEF CountLaws
    <3> QED BY <1>3, <2>1, <2>2, <3>1, <3>2, <3>3, Zenon
  <2>5. CASE s # 1 /\ resource_state[r] = 1
    <3>1. Queued' = Queued \ {r} /\ r \in Queued
      BY <1>2, <2>0, <2>5, Zenon
    <3>2. queued_requests' = Follows(queued_requests, 1, 0) /\ Cardinality(Queued) # 0
      BY <2>1, <2>5, <3>1, Zenon DEF Recounted
    <3>3. IsFiniteSet(Queued \ {r}) /\ Cardinality(Queued \ {r}) = Cardinality(Queued) - 1
      BY <1>3, <2>0, <3>1, Zenon DEF CountLaws
    <3> QED BY <1>3, <2>1, <2>2, <3>1, <3>2, <3>3, Zenon
  <2>6. CASE s # 1 /\ resource_state[r] # 1
    <3>1. Queued' = Queued
      BY <1>2, <2>0, <2>6, Zenon
    <3>2. queued_requests' = Follows(queued_requests, 0, 0)
      BY <2>6, Zenon DEF Recounted
    <3> QED BY <1>3, <2>1, <2>2, <3>1, <3>2, Zenon
  <2> QED BY <2>3, <2>4, <2>5, <2>6, Zenon
<1> QED BY <1>4, <1>5, <1>6, Zenon DEF AccountingExact, UnitsFinite

(* What the sections of resource_lock do to the counters. *)
LEMMA Recounts ==
    ASSUME TypeRes, NEW r \in Requests
    PROVE  /\ ReserveQueued(r) /\ resource_state[r] = 0 => Recounted(r, 1, response_bytes[r])
           /\ Activate(r) /\ resource_state[r] = 1 => Recounted(r, 2, response_bytes[r])
           /\ Requeue(r) /\ resource_state[r] = 2 => Recounted(r, 1, response_bytes[r])
           /\ ReleaseRequest(r) => Recounted(r, 0, response_bytes[r])
           /\ ReleaseResponse(r) => Recounted(r, resource_state[r], 0)
<1>1. /\ queued_requests \in Nat /\ queued_request_bytes \in Nat /\ active_request_bytes \in Nat
      /\ resource_state[r] \in 0 .. 2 /\ response_bytes[r] \in Nat /\ ChargeOf[r] \in Nat
  BY ChargeTyped, Zenon DEF TypeRes
<1>2. /\ resource_state = [resource_state EXCEPT ![r] = resource_state[r]]
      /\ response_bytes = [response_bytes EXCEPT ![r] = response_bytes[r]]
  BY DEF TypeRes
<1>3. \A c, n, m \in Nat : /\ Follows(c, n, n) = c /\ Follows(c, 0, n) = c + n
                           /\ Follows(c, n, 0) = GuardedSub(c, n)
                           /\ Follows(c, m, n + m) = c + n
                           /\ Follows(c, n + m, m) = GuardedSub(c, n)
                           /\ Follows(c, n + m, n) = GuardedSub(c, m)
  BY DEF Follows, GuardedSub
<1>4. ASSUME ReserveQueued(r), resource_state[r] = 0 PROVE Recounted(r, 1, response_bytes[r])
  BY <1>1, <1>2, <1>3, <1>4, SMTT(30) DEF ReserveQueued, Recounted
<1>5. ASSUME Activate(r), resource_state[r] = 1 PROVE Recounted(r, 2, response_bytes[r])
  BY <1>1, <1>2, <1>3, <1>5, SMTT(30) DEF Activate, Recounted
<1>6. ASSUME Requeue(r), resource_state[r] = 2 PROVE Recounted(r, 1, response_bytes[r])
  BY <1>1, <1>2, <1>3, <1>6, SMTT(30) DEF Requeue, Recounted
<1>7. ASSUME ReleaseRequest(r) PROVE Recounted(r, 0, response_bytes[r])
  BY <1>1, <1>2, <1>3, <1>7, SMTT(30) DEF ReleaseRequest, Recounted
<1>8. ASSUME ReleaseResponse(r) PROVE Recounted(r, resource_state[r], 0)
  BY <1>1, <1>2, <1>3, <1>8, SMTT(30) DEF ReleaseResponse, Recounted
<1> QED BY <1>4, <1>5, <1>6, <1>7, <1>8, Zenon

(* The counters of requests and bytes stay exact. *)
LEMMA AccountingStep ==
    ASSUME CountLaws, BytesLaw, IndInv, AccountingExact, UnitsFinite, ResponseHeld, Next
    PROVE  AccountingExact' /\ UnitsFinite'
<1>1. TypeSched /\ TypeDrain /\ TypeRes /\ TypeThreads /\ QueueShape /\ Places
  BY Zenon DEF IndInv, TypeOK
<1>2. ASSUME UNCHANGED res PROVE AccountingExact' /\ UnitsFinite'
  <2>1. /\ UNCHANGED <<queued_requests, queued_request_bytes, active_request_bytes>>
        /\ resource_state' = resource_state /\ response_bytes' = response_bytes
    BY <1>2, Zenon DEF res
  <2>2. Queued' = Queued /\ QueuedSize' = QueuedSize /\ ActiveSize' = ActiveSize
    BY <2>1, Zenon DEF Queued, QueuedSize, ActiveSize
  <2> QED BY <2>1, <2>2, Zenon DEF AccountingExact, UnitsFinite
<1>3. \A r \in Requests : resource_state[r] \in 0 .. 2 /\ response_bytes[r] \in Nat
  BY <1>1, Zenon DEF TypeRes
<1>4. 0 \in 0 .. 2 /\ 1 \in 0 .. 2 /\ 2 \in 0 .. 2 /\ 0 \in Nat
  OBVIOUS
<1>5. ASSUME NEW r \in Requests,
             \/ ReserveQueued(r) /\ resource_state[r] = 0
             \/ Activate(r) /\ resource_state[r] = 1
             \/ Requeue(r) /\ resource_state[r] = 2
             \/ ReleaseRequest(r) \/ ReleaseResponse(r)
      PROVE  AccountingExact' /\ UnitsFinite'
  <2>1. \E s \in 0 .. 2, b \in Nat : Recounted(r, s, b)
    BY <1>1, <1>3, <1>4, <1>5, Recounts, Zenon
  <2> QED BY <1>1, <2>1, RecountedExact, Zenon
<1>6. ASSUME NEW r \in Requests, Requeue(r) PROVE AccountingExact' /\ UnitsFinite'
  <2>1. resource_state[r] = 2 \/ UNCHANGED res
    BY <1>6, Zenon DEF Requeue
  <2> QED BY <1>2, <1>5, <1>6, <2>1, Zenon
<1>7. ASSUME DrainTake PROVE AccountingExact' /\ UnitsFinite'
  <2>1. PICK p \in Priorities : \E i \in 1 .. Len(queue[p]) : TakeAt(p, i)
    BY <1>7, Zenon DEF DrainTake
  <2>2. PICK i \in 1 .. Len(queue[p]) : TakeAt(p, i)
    BY <2>1, Zenon
  <2>3. queue[p][i] \in Requests
    BY <1>1, <2>2, QueueTake, Zenon
  <2>4. Activate(queue[p][i]) /\ resource_state[queue[p][i]] = 1
    BY <2>2, Zenon DEF TakeAt, CanActivate
  <2> QED BY <1>5, <2>3, <2>4, Zenon
<1>8. ASSUME DrainSpawnFails PROVE AccountingExact' /\ UnitsFinite'
  <2>1. drain.taken \in Requests
    BY <1>1, <1>8, Zenon DEF DrainSpawnFails, TypeDrain
  <2>2. Requeue(drain.taken) \/ UNCHANGED res
    BY <1>8, Zenon DEF DrainSpawnFails
  <2> QED BY <1>2, <1>6, <2>1, <2>2, Zenon
<1>9. ASSUME NEW r \in Requests, \/ SubmitNoMemory(r) \/ SubmitFreeRejected(r)
                                 \/ WorkerFree(r) \/ CancelDetached(r)
      PROVE  AccountingExact' /\ UnitsFinite'
  <2>1. ReleaseRequest(r)
    BY <1>9, Zenon DEF SubmitNoMemory, SubmitFreeRejected, WorkerFree, CancelDetached, FreeJob
  <2> QED BY <1>5, <2>1, Zenon
<1>10. ASSUME NEW r \in Requests, SubmitReserve(r) PROVE AccountingExact' /\ UnitsFinite'
  <2>1. ReserveQueued(r) /\ sub[r] = "begun"
    BY <1>10, Zenon DEF SubmitReserve
  <2>2. ~Live(r) /\ Charged(sub[r]) = 0
    BY <2>1 DEF Live, Charged
  <2>3. resource_state[r] = 0
    BY <1>1, <2>2, Zenon DEF Places, PlaceOf
  <2> QED BY <1>5, <2>1, <2>3, Zenon
<1>11. ASSUME NEW r \in Requests, RequeueRetry(r) PROVE AccountingExact' /\ UnitsFinite'
  BY <1>6, <1>11, Zenon DEF RequeueRetry
<1>12. ASSUME NEW r \in Requests, Classify(r) PROVE AccountingExact' /\ UnitsFinite'
  <2>1. PICK b \in Nat : /\ response_bytes' = [response_bytes EXCEPT ![r] = b]
                         /\ active_request_bytes' = active_request_bytes + b
    BY <1>12, ConstantsAssumption, Zenon DEF Classify
  <2>2. /\ UNCHANGED <<queued_requests, queued_request_bytes, resource_state>>
        /\ worker[r] = "classify"
    BY <1>12, Zenon DEF Classify
  <2>3. response_bytes[r] = 0
    BY <2>2 DEF ResponseHeld
  <2>4. /\ queued_requests \in Nat /\ queued_request_bytes \in Nat
        /\ active_request_bytes \in Nat /\ ChargeOf[r] \in Nat /\ resource_state[r] \in 0 .. 2
        /\ resource_state = [resource_state EXCEPT ![r] = resource_state[r]]
    BY <1>1, ChargeTyped DEF TypeRes
  <2>5. \A c, n, m \in Nat : Follows(c, n, n) = c /\ Follows(c, n, n + m) = c + m
                             /\ Follows(c, n + 0, n + m) = c + m
    BY DEF Follows
  <2>6. Recounted(r, resource_state[r], b)
    BY <2>1, <2>2, <2>3, <2>4, <2>5, SMTT(30) DEF Recounted
  <2> QED BY <1>1, <1>3, <2>6, RecountedExact, Zenon
<1>13. ASSUME NEW r \in Requests, ReleaseResponse(r) PROVE AccountingExact' /\ UnitsFinite'
  BY <1>5, <1>13, Zenon
<1> QED
  BY <1>2, <1>7, <1>8, <1>9, <1>10, <1>11, <1>12, <1>13, ResFrame, Zenon DEF ResSteps

-----------------------------------------------------------------------------
(* The second invariant: workers, retries and the order of the lists.      *)

(* Which steps change a worker, its captured body or the retries. *)
WorkSteps ==
    \/ UNCHANGED <<worker, response_bytes, retry_attempt>>
    \/ DrainSpawn
    \/ \E r \in Requests : WorkerStep(r) \/ SubmitFreeRejected(r) \/ CancelDetached(r)

LEMMA WorkFrame == Next => WorkSteps
  BY ZenonT(60) DEF Next, DrainStep, SubmitStep, CancelStep, WaitStep,
         TeardownStep, WorkSteps, DrainStop, DrainTake, TakeAt, Activate,
         DrainSpawnFails, Requeue, OperationBegin,
         SubmitReserve, ReserveQueued, SubmitRejected, SubmitNoMemory, ReleaseRequest,
         SubmitEnqueue, SubmitReturn, RetryWake,
         RequestCancel, RequestCancelLocked, BulkCancel, WaitBegin, WaitCheck,
         WaitElapsed, ClientStop, CloseAdmission, TeardownCancelAll, OperationsWait,
         RuntimeQuiesce, TeardownWait, Tick, res, work

(* Which steps change a submission, the history or the operations. *)
SubSteps ==
    \/ UNCHANGED <<sub, submitted, operations>>
    \/ DrainSpawnFails
    \/ \E r \in Requests : SubmitStep(r)

LEMMA SubFrame == Next => SubSteps
<1> SUFFICES ASSUME Next PROVE SubSteps
  BY Zenon
<1>1. ASSUME DrainStep PROVE SubSteps
  BY <1>1, Zenon DEF DrainStep, SubSteps, DrainStop, DrainTake, TakeAt, DrainSpawn, client
<1>2. ASSUME NEW r \in Requests, WorkerStep(r) PROVE SubSteps
  BY <1>2, ZenonT(30) DEF WorkerStep, SubSteps, WorkerStart, HttpFails, HttpResponse, Classify,
         Backoff, ReleaseResponse, RetryAbandoned, RequeueRetry, Deliver, Complete,
         WorkerFree, client
<1>3. ASSUME NEW r \in Requests, CancelStep(r) PROVE SubSteps
  BY <1>3, Zenon DEF CancelStep, SubSteps, CancelDetached, RequestCancel, RequestCancelLocked, client
<1>4. ASSUME BulkCancel \/ WaitStep \/ TeardownStep \/ Tick \/ \E w \in wakes : RetryWake(w)
      PROVE  SubSteps
  BY <1>4, ZenonT(30) DEF SubSteps, WaitStep, TeardownStep, RetryWake, BulkCancel, WaitBegin,
         WaitCheck, WaitElapsed, ClientStop, CloseAdmission, TeardownCancelAll, OperationsWait,
         RuntimeQuiesce, TeardownWait, Tick, client
<1>5. ASSUME NEW r \in Requests, SubmitStep(r) PROVE SubSteps
  BY <1>5, Zenon DEF SubSteps
<1> QED BY <1>1, <1>2, <1>3, <1>4, <1>5, Zenon DEF Next

(* What a step of a worker does to it, its captured body and its retries. *)
WorkerSet(r, w, b, n) ==
    /\ worker' = [worker EXCEPT ![r] = w]
    /\ response_bytes' = [response_bytes EXCEPT ![r] = b]
    /\ retry_attempt' = [retry_attempt EXCEPT ![r] = n]

LEMMA WorkerSets ==
    ASSUME TypeRes, TypeTime, TypeThreads, NEW r \in Requests, ResponseHeld, Recorded,
           WorkerStep(r)
    PROVE  \E w \in WorkerStates, b \in Nat, n \in Nat :
              /\ WorkerSet(r, w, b, n)
              /\ b # 0 => w \in {"backoff", "retry", "deliver", "delivered"}
              /\ w \in {"backoff", "retry", "requeue"} => n # 0
              /\ worker[r] # "none"
<1>1. /\ response_bytes[r] \in Nat /\ retry_attempt[r] \in Nat
      /\ response_bytes = [response_bytes EXCEPT ![r] = response_bytes[r]]
      /\ retry_attempt = [retry_attempt EXCEPT ![r] = retry_attempt[r]]
  BY ConstantsAssumption DEF TypeRes, TypeTime
<1>2. ASSUME NEW w \in WorkerStates, worker' = [worker EXCEPT ![r] = w], worker[r] # "none",
             UNCHANGED <<response_bytes, retry_attempt>>,
             response_bytes[r] # 0 => w \in {"backoff", "retry", "deliver", "delivered"},
             w \in {"backoff", "retry", "requeue"} => worker[r] \in {"backoff", "retry", "requeue"}
      PROVE  \E x \in WorkerStates, b \in Nat, n \in Nat :
                /\ WorkerSet(r, x, b, n)
                /\ b # 0 => x \in {"backoff", "retry", "deliver", "delivered"}
                /\ x \in {"backoff", "retry", "requeue"} => n # 0
                  /\ worker[r] # "none"
  <2>1. WorkerSet(r, w, response_bytes[r], retry_attempt[r])
    BY <1>1, <1>2, Zenon DEF WorkerSet
  <2>2. w \in {"backoff", "retry", "requeue"} => retry_attempt[r] # 0
    BY <1>2, Zenon DEF Recorded, Fresh
  <2> QED BY <1>1, <1>2, <2>1, <2>2, Zenon
<1>3. response_bytes[r] # 0 => worker[r] \in {"backoff", "retry", "deliver", "delivered"}
  BY Zenon DEF ResponseHeld
<1>4. {"http", "classify", "backoff", "retry", "requeue", "deliver", "delivered",
       "complete", "free", "none"} \subseteq WorkerStates
  BY SMTT(20) DEF WorkerStates
<1>5. CASE WorkerStart(r)
  <2>1. /\ worker[r] = "start" /\ UNCHANGED <<response_bytes, retry_attempt>>
        /\ worker' = [worker EXCEPT ![r] = "deliver"] \/ worker' = [worker EXCEPT ![r] = "http"]
    BY <1>5, Zenon DEF WorkerStart, res
  <2>2. response_bytes[r] = 0 /\ worker[r] # "none"
    BY <1>3, <2>1, SMTT(20)
  <2> QED BY <1>2, <1>4, <2>1, <2>2
<1>6. CASE HttpFails(r) \/ HttpResponse(r)
  <2>1. /\ worker[r] = "http" /\ UNCHANGED <<response_bytes, retry_attempt>>
        /\ worker' = [worker EXCEPT ![r] = "deliver"] \/ worker' = [worker EXCEPT ![r] = "classify"]
    BY <1>6, Zenon DEF HttpFails, HttpResponse, res
  <2>2. response_bytes[r] = 0 /\ worker[r] # "none"
    BY <1>3, <2>1
  <2> QED BY <1>2, <1>4, <2>1, <2>2
<1>7. CASE Classify(r)
  <2>1. PICK b \in Nat, again \in BOOLEAN :
            /\ response_bytes' = [response_bytes EXCEPT ![r] = b]
            /\ worker' = [worker EXCEPT ![r] = IF again THEN "backoff" ELSE "deliver"]
            /\ retry_attempt' = [retry_attempt EXCEPT ![r] = IF again THEN @ + 1 ELSE @]
    BY <1>7, ConstantsAssumption, Zenon DEF Classify
  <2>2. worker[r] = "classify"
    BY <1>7, Zenon DEF Classify
  <2> DEFINE w == IF again THEN "backoff" ELSE "deliver"
             n == IF again THEN retry_attempt[r] + 1 ELSE retry_attempt[r]
  <2>3. WorkerSet(r, w, b, n)
    BY <2>1, Zenon DEF WorkerSet
  <2>4. n \in Nat /\ (again => n # 0)
    BY <1>1
  <2>5. w \in WorkerStates /\ (w \in {"backoff", "retry", "requeue"} => again)
        /\ w \in {"backoff", "retry", "deliver", "delivered"} /\ worker[r] # "none"
    BY <2>2 DEF WorkerStates
  <2> HIDE DEF w, n
  <2> QED BY <2>3, <2>4, <2>5, Zenon
<1>8. CASE Backoff(r)
  <2>1. /\ worker[r] = "backoff" /\ UNCHANGED <<response_bytes, retry_attempt>>
        /\ worker' = [worker EXCEPT ![r] = "retry"]
    BY <1>8, Zenon DEF Backoff, res
  <2> QED BY <1>2, <1>4, <2>1, Zenon
<1>9. CASE ReleaseResponse(r)
  <2>1. /\ \/ worker[r] = "retry" /\ worker' = [worker EXCEPT ![r] = "requeue"]
           \/ worker[r] = "delivered" /\ worker' = [worker EXCEPT ![r] = "complete"]
        /\ response_bytes' = [response_bytes EXCEPT ![r] = 0] /\ UNCHANGED retry_attempt
    BY <1>9, Zenon DEF ReleaseResponse
  <2>2. \/ WorkerSet(r, "requeue", 0, retry_attempt[r]) /\ worker[r] = "retry"
        \/ WorkerSet(r, "complete", 0, retry_attempt[r]) /\ worker[r] = "delivered"
    BY <1>1, <2>1, Zenon DEF WorkerSet
  <2>3. worker[r] = "retry" => retry_attempt[r] # 0
    BY Zenon DEF Recorded, Fresh
  <2> QED BY <1>1, <1>4, <2>2, <2>3, SMTT(20)
<1>10. CASE RetryAbandoned(r) \/ RequeueRetry(r)
  <2>1. /\ worker[r] = "requeue" /\ UNCHANGED <<response_bytes, retry_attempt>>
        /\ worker' = [worker EXCEPT ![r] = "deliver"] \/ worker' = [worker EXCEPT ![r] = "none"]
    BY <1>10, Zenon DEF RetryAbandoned, RequeueRetry, Requeue, res
  <2>2. response_bytes[r] = 0 /\ worker[r] # "none"
    BY <1>3, <2>1
  <2> QED BY <1>2, <1>4, <2>1, <2>2
<1>11. CASE Deliver(r)
  <2>1. /\ worker[r] = "deliver" /\ UNCHANGED <<response_bytes, retry_attempt>>
        /\ worker' = [worker EXCEPT ![r] = "delivered"]
    BY <1>11, Zenon DEF Deliver, res
  <2> QED BY <1>2, <1>4, <2>1, Zenon
<1>12. CASE Complete(r)
  <2>1. /\ worker[r] = "complete" /\ UNCHANGED <<response_bytes, retry_attempt>>
        /\ worker' = [worker EXCEPT ![r] = "free"]
    BY <1>12, Zenon DEF Complete, res
  <2>2. response_bytes[r] = 0 /\ worker[r] # "none"
    BY <1>3, <2>1
  <2> QED BY <1>2, <1>4, <2>1, <2>2, Zenon
<1>13. CASE WorkerFree(r)
  <2>1. /\ worker[r] = "free" /\ UNCHANGED response_bytes
        /\ worker' = [worker EXCEPT ![r] = "none"]
        /\ retry_attempt' = [retry_attempt EXCEPT ![r] = 0]
    BY <1>13, Zenon DEF WorkerFree, FreeJob, ReleaseRequest
  <2>2. response_bytes[r] = 0 /\ worker[r] # "none"
    BY <1>3, <2>1
  <2>3. WorkerSet(r, "none", 0, 0)
    BY <1>1, <2>1, <2>2, Zenon DEF WorkerSet
  <2> QED BY <1>4, <2>2, <2>3, SMTT(20)
<1> QED BY <1>5, <1>6, <1>7, <1>8, <1>9, <1>10, <1>11, <1>12, <1>13, Zenon DEF WorkerStep

(* A job that is pending or in the hand of the drain loop keeps its        *)
(* retries: they change in its worker, and when it is freed.               *)
FreshKept ==
    \A q \in Requests : InQueue(q) \/ drain.taken = q => (Fresh(q)' <=> Fresh(q))

LEMMA WorkStep ==
    ASSUME IndInv, ResponseHeld, Recorded, Next
    PROVE  /\ ResponseHeld' /\ FreshKept
           /\ \A r \in Requests : worker'[r] \in {"backoff", "retry", "requeue"} => ~Fresh(r)'
<1> DEFINE Held == \A r \in Requests : worker'[r] \in {"backoff", "retry", "requeue"} => ~Fresh(r)'
           Good == ResponseHeld' /\ FreshKept /\ Held
<1>1. TypeDrain /\ TypeRes /\ TypeTime /\ TypeThreads /\ Places
  BY Zenon DEF IndInv, TypeOK
<1>2. ASSUME UNCHANGED <<worker, response_bytes, retry_attempt>> PROVE Good
  BY <1>2, Zenon DEF ResponseHeld, FreshKept, Fresh, Recorded
<1>3. ASSUME NEW r \in Requests, NEW w \in WorkerStates, NEW b \in Nat, NEW n \in Nat,
             WorkerSet(r, w, b, n),
             b # 0 => w \in {"backoff", "retry", "deliver", "delivered"},
             w \in {"backoff", "retry", "requeue"} => n # 0,
             n # retry_attempt[r] => ~InQueue(r) /\ drain.taken # r
      PROVE  Good
  <2>1. /\ worker'[r] = w /\ response_bytes'[r] = b /\ retry_attempt'[r] = n
        /\ \A q \in Requests : q # r => /\ worker'[q] = worker[q]
                                        /\ response_bytes'[q] = response_bytes[q]
                                        /\ retry_attempt'[q] = retry_attempt[q]
    BY <1>1, <1>3, Zenon DEF WorkerSet, TypeRes, TypeTime, TypeThreads
  <2>2. \A q \in Requests : response_bytes'[q] # 0 =>
                                worker'[q] \in {"backoff", "retry", "deliver", "delivered"}
    BY <1>3, <2>1, Zenon DEF ResponseHeld
  <2>3. Held
    BY <1>3, <2>1, Zenon DEF Recorded, Fresh
  <2>4. FreshKept
    BY <1>3, <2>1, Zenon DEF FreshKept, Fresh
  <2> QED BY <2>2, <2>3, <2>4, Zenon DEF ResponseHeld
<1>4. ASSUME DrainSpawn PROVE Good
  <2>1. drain.taken \in Requests
    BY <1>1, <1>4, Zenon DEF DrainSpawn, TypeDrain
  <2>2. PICK r \in Requests : r = drain.taken
    BY <2>1, Zenon
  <2>3. /\ worker' = [worker EXCEPT ![r] = "start"] /\ UNCHANGED <<response_bytes, retry_attempt>>
    BY <1>4, <2>2, Zenon DEF DrainSpawn, res
  <2>4. worker[r] = "none"
    BY <1>1, <2>2, Zenon DEF Places, PlaceOf
  <2>5. response_bytes[r] = 0 /\ response_bytes[r] \in Nat /\ retry_attempt[r] \in Nat
        /\ "start" \in WorkerStates
    BY <1>1, <2>4, ConstantsAssumption DEF ResponseHeld, TypeRes, TypeTime, WorkerStates
  <2>6. WorkerSet(r, "start", response_bytes[r], retry_attempt[r])
    BY <1>1, <2>3 DEF WorkerSet, TypeRes, TypeTime
  <2>7. "start" \notin {"backoff", "retry", "requeue"}
    OBVIOUS
  <2> QED BY <1>3, <2>5, <2>6, <2>7, Zenon
<1>5. ASSUME NEW r \in Requests, WorkerStep(r) PROVE Good
  <2>1. PICK w \in WorkerStates, b \in Nat, n \in Nat :
              /\ WorkerSet(r, w, b, n)
              /\ b # 0 => w \in {"backoff", "retry", "deliver", "delivered"}
              /\ w \in {"backoff", "retry", "requeue"} => n # 0
              /\ worker[r] # "none"
    BY <1>1, <1>5, WorkerSets, Zenon
  <2>2. ~InQueue(r) /\ drain.taken # r
    BY <1>1, <2>1, AtWork, Zenon DEF Places
  <2> QED BY <1>3, <2>1, <2>2, Zenon
<1>6. ASSUME NEW r \in Requests, SubmitFreeRejected(r) \/ CancelDetached(r) PROVE Good
  <2>1. /\ retry_attempt' = [retry_attempt EXCEPT ![r] = 0]
        /\ UNCHANGED <<worker, response_bytes>>
    BY <1>6, Zenon DEF SubmitFreeRejected, CancelDetached, FreeJob, ReleaseRequest
  <2>2. sub[r] = "rejecting" \/ owner[r] # None
    BY <1>6, Zenon DEF SubmitFreeRejected, CancelDetached
  <2>3. sub[r] = "rejecting" => ~Live(r)
    BY DEF Live
  <2>4. worker[r] = "none" /\ ~InQueue(r) /\ drain.taken # r
    BY <1>1, <2>2, <2>3, Unlisted, Zenon DEF Places, PlaceOf
  <2>5. response_bytes[r] = 0 /\ response_bytes[r] \in Nat /\ "none" \in WorkerStates
        /\ 0 \in Nat /\ "none" \notin {"backoff", "retry", "requeue"}
    BY <1>1, <2>4 DEF ResponseHeld, TypeRes, WorkerStates
  <2>6. WorkerSet(r, "none", response_bytes[r], 0)
    BY <1>1, <2>1, <2>4 DEF WorkerSet, TypeRes, TypeThreads
  <2> QED BY <1>3, <2>4, <2>5, <2>6, Zenon
<1> QED BY <1>2, <1>4, <1>5, <1>6, WorkFrame, Zenon DEF WorkSteps

(* The history only grows, and every queued job is in it. *)
LEMMA AppendElements ==
    ASSUME NEW S, NEW s \in Seq(S), NEW e \in S
    PROVE  /\ Append(s, e) \in Seq(S) /\ Len(Append(s, e)) = Len(s) + 1 /\ Len(s) \in Nat
           /\ Append(s, e)[Len(s) + 1] = e
           /\ \A j \in 1 .. Len(s) : Append(s, e)[j] = s[j]
           /\ Elements(Append(s, e)) = Elements(s) \cup {e}
<1>1. /\ Append(s, e) \in Seq(S) /\ Len(Append(s, e)) = Len(s) + 1 /\ Len(s) \in Nat
      /\ Append(s, e)[Len(s) + 1] = e
      /\ \A j \in 1 .. Len(s) : Append(s, e)[j] = s[j]
  OBVIOUS
<1>2. DOMAIN s = 1 .. Len(s) /\ DOMAIN Append(s, e) = 1 .. Len(s) + 1
  OBVIOUS
<1>3. \A j \in 1 .. Len(s) + 1 : j \in 1 .. Len(s) \/ j = Len(s) + 1
  BY <1>1
<1>4. Len(s) + 1 \in 1 .. Len(s) + 1 /\ \A j \in 1 .. Len(s) : j \in 1 .. Len(s) + 1
  BY <1>1
<1>5. \A x : x \in Elements(Append(s, e)) <=> x \in Elements(s) \cup {e}
  BY <1>1, <1>2, <1>3, <1>4, Zenon DEF Elements
<1> QED BY <1>1, <1>5, Zenon

LEMMA RecordedStep ==
    ASSUME IndInv, Recorded, Next
    PROVE  /\ \A r \in Requests : Live(r)' => r \in Elements(submitted)'
           /\ submitted' = submitted \/ \E r \in Requests : submitted' = Append(submitted, r)
<1>1. /\ sub \in [Requests -> SubStates] /\ submitted \in Seq(Requests)
      /\ \A r \in Requests : Live(r) => r \in Elements(submitted)
  BY Zenon DEF IndInv, TypeOK, TypeThreads, TypeSched, Recorded
<1>2. ASSUME submitted' = submitted, \A q \in Requests : Live(q)' => Live(q)
      PROVE  \A r \in Requests : Live(r)' => r \in Elements(submitted)'
  BY <1>1, <1>2, Zenon
<1>3. ASSUME sub' = sub, submitted' = submitted
      PROVE  submitted' = submitted /\ \A q \in Requests : Live(q)' => Live(q)
  BY <1>3, Zenon DEF Live
<1>4. ASSUME NEW r, NEW s, sub' = [sub EXCEPT ![r] = s], r \in Requests => Live(r) \/ s \notin {"queued", "accepted"}
      PROVE  \A q \in Requests : Live(q)' => Live(q)
  BY <1>1, <1>4, Zenon DEF Live
<1>5. ASSUME DrainSpawnFails
      PROVE  submitted' = submitted /\ \A q \in Requests : Live(q)' => Live(q)
  <2>1. submitted' = submitted /\ (sub' = sub \/ sub' = [sub EXCEPT ![drain.taken] = "rejecting"])
    BY <1>5, Zenon DEF DrainSpawnFails
  <2>2. "rejecting" \notin {"queued", "accepted"}
    OBVIOUS
  <2> QED BY <1>3, <1>4, <2>1, <2>2, Zenon
<1>6. ASSUME NEW r \in Requests, SubmitStep(r), ~SubmitEnqueue(r)
      PROVE  submitted' = submitted /\ \A q \in Requests : Live(q)' => Live(q)
  <2>1. /\ submitted' = submitted
        /\ \/ \E s \in {"refused", "begun", "reserved", "refusing"} : sub' = [sub EXCEPT ![r] = s]
           \/ sub[r] = "queued" /\ sub' = [sub EXCEPT ![r] = "accepted"]
    BY <1>6, Zenon DEF SubmitStep, OperationBegin, SubmitReserve, SubmitRejected, SubmitNoMemory,
                SubmitFreeRejected, SubmitReturn
  <2>2. \A s \in {"refused", "begun", "reserved", "refusing"} : s \notin {"queued", "accepted"}
    OBVIOUS
  <2>3. sub[r] = "queued" => Live(r)
    BY Zenon DEF Live
  <2> QED BY <1>4, <2>1, <2>2, <2>3, Zenon
<1>7. ASSUME NEW r \in Requests, SubmitEnqueue(r)
      PROVE  /\ submitted' = Append(submitted, r)
             /\ \A q \in Requests : Live(q)' => q \in Elements(submitted)'
  <2>1. submitted' = Append(submitted, r) /\ sub' = [sub EXCEPT ![r] = "queued"]
    BY <1>7, Zenon DEF SubmitEnqueue
  <2>2. Elements(submitted)' = Elements(submitted) \cup {r}
    <3>1. Elements(Append(submitted, r)) = Elements(submitted) \cup {r}
      BY <1>1, AppendElements
    <3> QED BY <2>1, <3>1, Zenon
  <2>3. \A q \in Requests : Live(q)' => Live(q) \/ q = r
    BY <1>1, <2>1, Zenon DEF Live
  <2> QED BY <1>1, <2>1, <2>2, <2>3, Zenon
<1> QED BY <1>2, <1>3, <1>5, <1>6, <1>7, SubFrame, Zenon DEF SubSteps

(* A list whose elements are pairwise in a relation, and a place of it     *)
(* where an element fits.                                                  *)
Chain(s, B) == \A i, j \in 1 .. Len(s) : i < j => <<s[i], s[j]>> \in B

Fits(s, i, e, B) ==
    \A j \in 1 .. Len(s) : IF j < i THEN <<s[j], e>> \in B ELSE <<e, s[j]>> \in B

LEMMA ChainWithout ==
    ASSUME NEW S, NEW s \in Seq(S), NEW i \in 1 .. Len(s), NEW B, Chain(s, B)
    PROVE  Chain(Without(s, i), B) /\ Fits(Without(s, i), i, s[i], B)
<1> DEFINE t == Without(s, i)
<1>1. /\ Len(t) = Len(s) - 1 /\ Len(s) \in Nat
      /\ \A j \in 1 .. Len(s) - 1 : t[j] = IF j < i THEN s[j] ELSE s[j + 1]
  BY WithoutElements, SMTT(20)
<1> HIDE DEF t
<1>2. ASSUME NEW j \in 1 .. Len(t), NEW k \in 1 .. Len(t), j < k PROVE <<t[j], t[k]>> \in B
  BY <1>1, <1>2, SMTT(20) DEF Chain
<1>3. ASSUME NEW j \in 1 .. Len(t)
      PROVE  IF j < i THEN <<t[j], s[i]>> \in B ELSE <<s[i], t[j]>> \in B
  <2>1. \A m, n \in 1 .. Len(s) : m < n => <<s[m], s[n]>> \in B
    BY Zenon DEF Chain
  <2>2. j \in 1 .. Len(s) - 1 /\ j \in 1 .. Len(s) /\ j + 1 \in 1 .. Len(s) /\ j \in Nat /\ i \in Nat
    BY <1>1, <1>3
  <2>3. t[j] = IF j < i THEN s[j] ELSE s[j + 1]
    BY <1>1, <2>2, Zenon
  <2>4. CASE j < i
    BY <2>1, <2>2, <2>3, <2>4, Zenon
  <2>5. CASE ~(j < i)
    <3>1. i < j + 1
      BY <2>2, <2>5, SMTT(20)
    <3> QED BY <2>1, <2>2, <2>3, <2>5, <3>1, Zenon
  <2> QED BY <2>4, <2>5, Zenon
<1> QED BY <1>2, <1>3, Zenon DEF Chain, Fits, t

LEMMA ChainWithAt ==
    ASSUME NEW S, NEW s \in Seq(S), NEW i \in 1 .. Len(s) + 1, NEW e \in S, NEW B,
           Chain(s, B), Fits(s, i, e, B)
    PROVE  Chain(WithAt(s, i, e), B)
<1> DEFINE t == WithAt(s, i, e)
<1>1. /\ Len(t) = Len(s) + 1 /\ Len(s) \in Nat
      /\ \A j \in 1 .. Len(s) + 1 :
            t[j] = IF j < i THEN s[j] ELSE IF j = i THEN e ELSE s[j - 1]
  BY WithAtElements, SMTT(20)
<1> HIDE DEF t
<1>2. ASSUME NEW j \in 1 .. Len(t), NEW k \in 1 .. Len(t), j < k PROVE <<t[j], t[k]>> \in B
  <2>1. CASE k < i
    BY <1>1, <1>2, <2>1, SMTT(20) DEF Chain
  <2>2. CASE k = i
    <3>1. j \in 1 .. Len(s) /\ j < i /\ t[j] = s[j] /\ t[k] = e
      BY <1>1, <1>2, <2>2, SMTT(20)
    <3> QED BY <3>1, Zenon DEF Fits
  <2>3. CASE k > i /\ j < i
    BY <1>1, <1>2, <2>3, SMTT(20) DEF Chain
  <2>4. CASE k > i /\ j = i
    <3>1. k - 1 \in 1 .. Len(s) /\ ~(k - 1 < i) /\ t[j] = e /\ t[k] = s[k - 1]
      BY <1>1, <1>2, <2>4, SMTT(20)
    <3> QED BY <3>1, Zenon DEF Fits
  <2>5. CASE k > i /\ j > i
    BY <1>1, <1>2, <2>5, SMTT(20) DEF Chain
  <2> QED BY <2>1, <2>2, <2>3, <2>4, <2>5
<1> QED BY <1>2, Zenon DEF Chain, t

LEMMA ChainAppend ==
    ASSUME NEW S, NEW s \in Seq(S), NEW e \in S, NEW B,
           Chain(s, B), \A x \in Elements(s) : <<x, e>> \in B
    PROVE  Chain(Append(s, e), B)
<1> DEFINE t == Append(s, e)
<1>1. /\ Len(t) = Len(s) + 1 /\ Len(s) \in Nat /\ t[Len(s) + 1] = e
      /\ \A j \in 1 .. Len(s) : t[j] = s[j]
  BY AppendElements
<1> HIDE DEF t
<1>2. \A j \in 1 .. Len(s) : s[j] \in Elements(s)
  BY DEF Elements
<1>3. ASSUME NEW j \in 1 .. Len(t), NEW k \in 1 .. Len(t), j < k PROVE <<t[j], t[k]>> \in B
  <2>1. CASE k = Len(s) + 1
    BY <1>1, <1>2, <1>3, <2>1, SMTT(20)
  <2>2. CASE k # Len(s) + 1
    BY <1>1, <1>3, <2>2, SMTT(20) DEF Chain
  <2> QED BY <2>1, <2>2
<1> QED BY <1>3, Zenon DEF Chain, t

LEMMA ChainGrows ==
    ASSUME NEW S, NEW s \in Seq(S), NEW B, NEW C,
           \A x, y \in Elements(s) : <<x, y>> \in B => <<x, y>> \in C
    PROVE  /\ Chain(s, B) => Chain(s, C)
           /\ \A i, e : (\A x \in Elements(s) : (<<x, e>> \in B => <<x, e>> \in C)
                                             /\ (<<e, x>> \in B => <<e, x>> \in C))
                        => (Fits(s, i, e, B) => Fits(s, i, e, C))
<1>1. \A j \in 1 .. Len(s) : s[j] \in Elements(s)
  BY DEF Elements
<1> QED BY <1>1, Zenon DEF Chain, Fits

(* The jobs that may follow each other in a list. *)
InOrder ==
    {x \in Requests \X Requests : Fresh(x[1]) /\ Fresh(x[2]) => Before(x[1], x[2])}

LEMMA InOrderIs ==
    ASSUME NEW a \in Requests, NEW b \in Requests
    PROVE  /\ <<a, b>> \in InOrder <=> (Fresh(a) /\ Fresh(b) => Before(a, b))
           /\ <<a, b>> \in InOrder' <=> (Fresh(a)' /\ Fresh(b)' => Before(a, b)')
  BY DEF InOrder

LEMMA OrderedIs ==
    /\ TypeSched => (QueueOrdered <=> \A p \in Priorities : Chain(queue[p], InOrder))
    /\ TypeSched' => (QueueOrdered' <=> \A p \in Priorities : Chain(queue'[p], InOrder'))
    /\ TypeSched => (HandOrdered <=> \A r \in Requests : drain.taken = r =>
                        Fits(queue[PriorityOf[r]], drain.at, r, InOrder))
    /\ TypeSched' => (HandOrdered' <=> \A r \in Requests : drain'.taken = r =>
                        Fits(queue'[PriorityOf[r]], drain'.at, r, InOrder'))
<1>1. /\ TypeSched => \A p \in Priorities : \A j \in 1 .. Len(queue[p]) : queue[p][j] \in Requests
      /\ TypeSched' => \A p \in Priorities : \A j \in 1 .. Len(queue'[p]) : queue'[p][j] \in Requests
  BY DEF TypeSched
<1>2. TypeSched => (QueueOrdered <=> \A p \in Priorities : Chain(queue[p], InOrder))
  BY <1>1, InOrderIs, ZenonT(30) DEF QueueOrdered, Chain
<1>3. TypeSched' => (QueueOrdered' <=> \A p \in Priorities : Chain(queue'[p], InOrder'))
  BY <1>1, InOrderIs, ZenonT(30) DEF QueueOrdered, Chain
<1>4. \A r \in Requests : PriorityOf[r] \in Priorities
  BY PriorityTyped, Zenon
<1>5. TypeSched => (HandOrdered <=> \A r \in Requests : drain.taken = r =>
                        Fits(queue[PriorityOf[r]], drain.at, r, InOrder))
  BY <1>1, <1>4, InOrderIs, ZenonT(30) DEF HandOrdered, Fits
<1>6. TypeSched' => (HandOrdered' <=> \A r \in Requests : drain'.taken = r =>
                        Fits(queue'[PriorityOf[r]], drain'.at, r, InOrder'))
  BY <1>1, <1>4, InOrderIs, ZenonT(30) DEF HandOrdered, Fits
<1> QED BY <1>2, <1>3, <1>5, <1>6, Zenon

(* The hand of the drain loop is filled by a take, and its list does not   *)
(* change until it is emptied.                                             *)
LEMMA HandMoves ==
    ASSUME IndInv, Next
    PROVE  DrainTake \/ drain'.taken = None \/ (drain' = drain /\ queue' = queue)
<1>1. DrainTake \/ drain' = drain \/ drain'.taken = None
  <2>1. DrainTake \/ drain' = drain \/ drain' = NoDrain \/ \E t, a, g : drain' = Draining(t, a, g)
    BY DrainFrame, ZenonT(30)
       DEF DrainSteps, DrainStop, DrainSpawn, DrainSpawnFails, DrainReturns, WaitCheck,
           RetryWake, SubmitEnqueue, RequeueRetry, Complete, RequestCancelLocked
  <2>2. (drain' = NoDrain \/ \E t, a, g : drain' = Draining(t, a, g)) => drain'.taken = None
    BY DEF NoDrain, Draining
  <2> QED BY <2>1, <2>2, Zenon
<1>2. ASSUME drain' = drain, drain.taken # None PROVE queue' = queue
  <2>1. ~LockFree /\ drain'.taken # None
    BY <1>2, EmptyHand, Zenon
  <2>2. ~DrainTake
    BY <1>2, Zenon DEF DrainTake
  <2>3. ~DrainSpawnFails
    BY <2>1, SMTT(20) DEF DrainSpawnFails, DrainReturns, Draining, NoDrain
  <2> QED
    BY <2>1, <2>2, <2>3, SchedFrame, Zenon
       DEF SchedSteps, sched, BulkCancel, TeardownCancelAll, SubmitEnqueue,
           RequeueRetry, Complete
<1> QED BY <1>1, <1>2, Zenon

(* Jobs in a list or in the hand that were in order still are. *)
LEMMA OrderKept ==
    ASSUME TypeSched, FreshKept,
           submitted' = submitted \/ \E r \in Requests : submitted' = Append(submitted, r),
           NEW a \in Requests, NEW b \in Requests,
           InQueue(a) \/ drain.taken = a, InQueue(b) \/ drain.taken = b,
           <<a, b>> \in InOrder
    PROVE  <<a, b>> \in InOrder'
<1>1. /\ Len(submitted) \in Nat /\ Len(submitted') \in Nat /\ Len(submitted) <= Len(submitted')
      /\ \A m \in 1 .. Len(submitted) : submitted'[m] = submitted[m]
  BY DEF TypeSched
<1>2. \A m \in 1 .. Len(submitted) : m \in 1 .. Len(submitted')
  BY <1>1
<1>3. Before(a, b) => Before(a, b)'
  BY <1>1, <1>2, Zenon DEF Before
<1>4. (Fresh(a)' <=> Fresh(a)) /\ (Fresh(b)' <=> Fresh(b))
  BY Zenon DEF FreshKept
<1> QED BY <1>3, <1>4, InOrderIs, Zenon

(* The jobs of the history come before the one that is appended to it. *)
LEMMA AppendedLast ==
    ASSUME NEW r \in Requests, submitted \in Seq(Requests), submitted' = Append(submitted, r),
           NEW a \in Elements(submitted)
    PROVE  Before(a, r)'
<1>1. /\ Len(submitted') = Len(submitted) + 1 /\ Len(submitted) \in Nat
      /\ submitted'[Len(submitted) + 1] = r
      /\ \A j \in 1 .. Len(submitted) : submitted'[j] = submitted[j]
  BY AppendElements, SMTT(20)
<1>2. PICK m \in 1 .. Len(submitted) : submitted[m] = a
  BY DEF Elements
<1>3. /\ m \in 1 .. Len(submitted') /\ Len(submitted) + 1 \in 1 .. Len(submitted')
      /\ m < Len(submitted) + 1 /\ submitted'[m] = a
  BY <1>1, <1>2
<1> QED BY <1>1, <1>3, Zenon DEF Before

(* The lists and the hand stay in order. *)
LEMMA OrderStep ==
    ASSUME IndInv, TypeSched', QueueOrdered, HandOrdered, ResponseHeld, Recorded, Next
    PROVE  QueueOrdered' /\ HandOrdered'
<1>1. TypeSched /\ TypeDrain /\ QueueShape /\ DrainPlace /\ Places
  BY Zenon DEF IndInv, TypeOK
<1>2. /\ FreshKept
      /\ submitted' = submitted \/ \E r \in Requests : submitted' = Append(submitted, r)
  BY WorkStep, RecordedStep, Zenon
<1>3. /\ \A p \in Priorities : queue[p] \in Seq(Requests)
      /\ \A r \in Requests : PriorityOf[r] \in Priorities
      /\ \A p \in Priorities : \A q \in Elements(queue[p]) : q \in Requests /\ InQueue(q)
  <2>1. /\ \A p \in Priorities : queue[p] \in Seq(Requests)
        /\ \A r \in Requests : PriorityOf[r] \in Priorities
    BY <1>1, PriorityTyped, Zenon DEF TypeSched
  <2>2. \A s \in Seq(Requests) : \A q \in Elements(s) : q \in Requests
    BY DEF Elements
  <2>3. \A p \in Priorities : \A q \in Elements(queue[p]) : PriorityOf[q] = p
    BY <1>1, Zenon DEF QueueShape
  <2> QED BY <2>1, <2>2, <2>3, Zenon DEF InQueue
<1>4. ASSUME NEW p \in Priorities PROVE Chain(queue[p], InOrder')
  <2>1. Chain(queue[p], InOrder)
    BY <1>1, OrderedIs, Zenon
  <2>2. \A x, y \in Elements(queue[p]) : <<x, y>> \in InOrder => <<x, y>> \in InOrder'
    BY <1>1, <1>2, <1>3, OrderKept, Zenon
  <2> QED BY <1>3, <2>1, <2>2, ChainGrows, Zenon
<1>5. ASSUME NEW r \in Requests, drain.taken = r
      PROVE  Fits(queue[PriorityOf[r]], drain.at, r, InOrder')
  <2>1. Fits(queue[PriorityOf[r]], drain.at, r, InOrder)
    BY <1>1, <1>5, OrderedIs, Zenon
  <2>2. \A x, y \in Elements(queue[PriorityOf[r]]) : <<x, y>> \in InOrder => <<x, y>> \in InOrder'
    BY <1>1, <1>2, <1>3, OrderKept, Zenon
  <2>3. \A x \in Elements(queue[PriorityOf[r]]) :
            /\ <<x, r>> \in InOrder => <<x, r>> \in InOrder'
            /\ <<r, x>> \in InOrder => <<r, x>> \in InOrder'
    BY <1>1, <1>2, <1>3, <1>5, OrderKept, Zenon
  <2> QED BY <1>3, <2>1, <2>2, <2>3, ChainGrows, Zenon
<1>6. ASSUME queue' = queue PROVE QueueOrdered'
  BY <1>4, <1>6, OrderedIs, Zenon
<1>7. ASSUME NEW r \in Requests, NEW s \in Seq(Requests),
             queue' = [queue EXCEPT ![PriorityOf[r]] = s], Chain(s, InOrder')
      PROVE  QueueOrdered'
  <2>1. \A p \in Priorities : queue'[p] = queue[p] \/ queue'[p] = s
    BY <1>1, <1>3, <1>7, Zenon DEF TypeSched
  <2>2. \A p \in Priorities : Chain(queue'[p], InOrder')
    BY <1>4, <1>7, <2>1, Zenon
  <2> QED BY <2>2, OrderedIs, Zenon
<1>8. ASSUME NEW p \in Priorities, NEW i \in 1 .. Len(queue[p]), TakeAt(p, i)
      PROVE  QueueOrdered' /\ HandOrdered'
  <2>1. /\ queue[p][i] \in Requests /\ PriorityOf[queue[p][i]] = p
    BY <1>1, <1>8, QueueTake, Zenon
  <2>2. PICK r \in Requests : r = queue[p][i]
    BY <2>1, Zenon
  <2>3. /\ queue' = [queue EXCEPT ![p] = Without(queue[p], i)] /\ drain' = Taking(r, i)
    BY <1>8, <2>2, Zenon DEF TakeAt, Unlink
  <2>4. /\ Chain(Without(queue[p], i), InOrder')
        /\ Fits(Without(queue[p], i), i, queue[p][i], InOrder')
    BY <1>3, <1>4, ChainWithout, Zenon
  <2>5. Without(queue[p], i) \in Seq(Requests)
    BY <1>3, WithoutElements, Zenon
  <2>6. QueueOrdered'
    BY <1>7, <2>1, <2>2, <2>3, <2>4, <2>5, Zenon
  <2>7. queue'[p] = Without(queue[p], i)
    BY <1>1, <2>3, Zenon DEF TypeSched
  <2>8. drain'.taken = r /\ drain'.at = i
    BY <2>3, Zenon DEF Taking
  <2>9. \A q \in Requests : drain'.taken = q => Fits(queue'[PriorityOf[q]], drain'.at, q, InOrder')
    BY <2>1, <2>2, <2>4, <2>7, <2>8, Zenon
  <2> QED BY <2>6, <2>9, OrderedIs, Zenon
<1>9. ASSUME DrainTake PROVE QueueOrdered' /\ HandOrdered'
  BY <1>8, <1>9, Zenon DEF DrainTake
<1>10. ASSUME ~DrainTake PROVE HandOrdered'
  <2>1. drain'.taken = None \/ (drain' = drain /\ queue' = queue)
    BY <1>10, HandMoves, Zenon
  <2>2. \A q \in Requests : drain'.taken = q => Fits(queue'[PriorityOf[q]], drain'.at, q, InOrder')
    BY <1>5, <2>1, NoneApart, Zenon
  <2> QED BY <2>2, OrderedIs, Zenon
<1>11. ASSUME DrainSpawnFails PROVE QueueOrdered'
  <2>1. drain.taken \in Requests
    BY <1>1, <1>11, Zenon DEF DrainSpawnFails, TypeDrain
  <2>2. PICK r \in Requests : r = drain.taken
    BY <2>1, Zenon
  <2>3. queue' = queue \/ queue' = [queue EXCEPT ![PriorityOf[r]] = WithAt(@, drain.at, r)]
    BY <1>11, <2>2, Zenon DEF DrainSpawnFails, Restore
  <2>4. drain.at \in 1 .. Len(queue[PriorityOf[r]]) + 1 /\ r # None
    BY <1>1, <2>2, NoneApart, Zenon DEF DrainPlace
  <2>5. /\ Chain(WithAt(queue[PriorityOf[r]], drain.at, r), InOrder')
    BY <1>3, <1>4, <1>5, <2>2, <2>4, ChainWithAt, Zenon
  <2>6. WithAt(queue[PriorityOf[r]], drain.at, r) \in Seq(Requests)
    BY <1>3, <2>4, WithAtElements, Zenon
  <2> QED BY <1>6, <1>7, <2>3, <2>5, <2>6, Zenon
<1>12. ASSUME queue' = [p \in Priorities |-> << >>] PROVE QueueOrdered'
  <2>1. Chain(<< >>, InOrder')
    BY DEF Chain
  <2>2. \A p \in Priorities : Chain(queue'[p], InOrder')
    BY <1>12, <2>1, Zenon
  <2> QED BY <2>2, OrderedIs, Zenon
<1>13. ASSUME NEW r \in Requests, queue' = PushTail(queue, r),
              \A x \in Elements(queue[PriorityOf[r]]) : <<x, r>> \in InOrder'
       PROVE  QueueOrdered'
  <2>1. queue' = [queue EXCEPT ![PriorityOf[r]] = Append(queue[PriorityOf[r]], r)]
    BY <1>13, Zenon DEF PushTail
  <2>2. Chain(Append(queue[PriorityOf[r]], r), InOrder')
    BY <1>3, <1>4, <1>13, ChainAppend, Zenon
  <2>3. Append(queue[PriorityOf[r]], r) \in Seq(Requests)
    BY <1>3, AppendElements, Zenon
  <2> QED BY <1>7, <2>1, <2>2, <2>3, Zenon
<1>14. ASSUME NEW r \in Requests, SubmitEnqueue(r) PROVE QueueOrdered'
  <2>1. queue' = PushTail(queue, r) /\ submitted' = Append(submitted, r)
    BY <1>14, Zenon DEF SubmitEnqueue
  <2>2. \A x \in Elements(queue[PriorityOf[r]]) : x \in Elements(submitted)
    BY <1>1, <1>3, Zenon DEF Places, PlaceOf, Recorded
  <2>3. \A x \in Elements(queue[PriorityOf[r]]) : Before(x, r)'
    BY <1>1, <2>1, <2>2, AppendedLast, Zenon DEF TypeSched
  <2>4. \A x \in Elements(queue[PriorityOf[r]]) : <<x, r>> \in InOrder'
    BY <1>3, <2>3, InOrderIs, Zenon
  <2> QED BY <1>13, <2>1, <2>4, Zenon
<1>15. ASSUME NEW r \in Requests, RequeueRetry(r) PROVE QueueOrdered'
  <2>1. queue' = PushTail(queue, r) /\ worker[r] = "requeue" /\ retry_attempt' = retry_attempt
    BY <1>15, Zenon DEF RequeueRetry
  <2>2. ~Fresh(r)'
    BY <2>1, Zenon DEF Recorded, Fresh
  <2>3. \A x \in Elements(queue[PriorityOf[r]]) : <<x, r>> \in InOrder'
    BY <1>3, <2>2, InOrderIs, Zenon
  <2> QED BY <1>13, <2>1, <2>3, Zenon
<1>16. ASSUME NEW r \in Requests, Complete(r) PROVE QueueOrdered'
  BY <1>6, <1>12, <1>16, Zenon DEF Complete, DetachPending
<1>17. ASSUME BulkCancel \/ TeardownCancelAll PROVE QueueOrdered'
  BY <1>6, <1>12, <1>17, Zenon DEF BulkCancel, TeardownCancelAll, DetachPending
<1>18. ASSUME ~DrainTake PROVE QueueOrdered'
  BY <1>6, <1>11, <1>14, <1>15, <1>16, <1>17, <1>18, SchedFrame, Zenon DEF SchedSteps, sched
<1> QED BY <1>9, <1>10, <1>18, Zenon

-----------------------------------------------------------------------------
(* The second invariant: operations in flight and the phases of the        *)
(* teardown.                                                               *)

(* The submission a drain loop runs for has not returned. *)
LEMMA AdmissionStep ==
    ASSUME IndInv, AdmissionQueued, Next
    PROVE  AdmissionQueued'
<1>1. TypeDrain /\ TypeThreads
  BY Zenon DEF IndInv, TypeOK
<1>2. /\ \A t, a, g : drain' = Draining(t, a, g) => drain'.admission = a /\ drain'.again = g
      /\ drain' = NoDrain => drain'.admission = None
      /\ LockFree => drain.admission = None
  BY SMTT(20) DEF Draining, NoDrain, LockFree
<1>3. ASSUME drain'.admission = None PROVE AdmissionQueued'
  BY <1>3, NoneApart, Zenon DEF AdmissionQueued
<1>4. ASSUME drain'.admission = drain.admission, drain'.again = drain.again \/ ~drain'.again,
             \A q \in Requests : drain.admission = q => sub'[q] = sub[q]
      PROVE  AdmissionQueued'
  BY <1>4, Zenon DEF AdmissionQueued
<1>5. ASSUME NEW r \in Requests, SubmitEnqueue(r) PROVE AdmissionQueued'
  <2>1. drain' = Draining(Submitter(r), r, FALSE) /\ sub' = [sub EXCEPT ![r] = "queued"]
    BY <1>5, Zenon DEF SubmitEnqueue
  <2>2. drain'.admission = r /\ ~drain'.again /\ sub'[r] = "queued"
    BY <1>1, <1>2, <2>1, Zenon DEF TypeThreads
  <2> QED BY <2>2, Zenon DEF AdmissionQueued
<1>6. ASSUME NEW r \in Requests, SubmitStep(r), ~SubmitEnqueue(r) PROVE AdmissionQueued'
  <2>1. drain' = drain /\ (\E s : sub' = [sub EXCEPT ![r] = s]) /\ (sub[r] # "queued" \/ LockFree)
    BY <1>6, Zenon DEF SubmitStep, OperationBegin, SubmitReserve, SubmitRejected, SubmitNoMemory,
                SubmitFreeRejected, SubmitReturn
  <2>2. \A q \in Requests : drain.admission = q => sub[q] = "queued" /\ ~LockFree
    BY <1>2, NoneApart, Zenon DEF AdmissionQueued
  <2>3. \A q \in Requests : drain.admission = q => sub'[q] = sub[q]
    BY <1>1, <2>1, <2>2, Zenon DEF TypeThreads
  <2> QED BY <1>4, <2>1, <2>3, Zenon
<1>7. ASSUME DrainSpawnFails PROVE AdmissionQueued'
  <2>1. drain' = NoDrain \/ (drain.again /\ drain' = Draining(drain.by, drain.admission, FALSE))
    BY <1>7, Zenon DEF DrainSpawnFails, DrainReturns
  <2>2. drain.again => \A q \in Requests : drain.admission # q
    BY Zenon DEF AdmissionQueued
  <2>3. \A q \in Requests : drain'.admission # q
    BY <1>2, <2>1, <2>2, NoneApart, Zenon
  <2> QED BY <2>3, Zenon DEF AdmissionQueued
<1>8. ASSUME UNCHANGED sub PROVE AdmissionQueued'
  <2>1. ASSUME NEW p \in Priorities, NEW i \in 1 .. Len(queue[p]), TakeAt(p, i)
        PROVE  drain'.admission = drain.admission /\ drain'.again = drain.again
    BY <2>1, Zenon DEF TakeAt, Taking
  <2>2. DrainTake => drain'.admission = drain.admission /\ drain'.again = drain.again
    BY <2>1, Zenon DEF DrainTake
  <2>3. DrainSpawn => drain'.admission = drain.admission /\ drain'.again = drain.again
    BY <1>2, Zenon DEF DrainSpawn
  <2>4. ASSUME NEW r \in Requests, RequeueRetry(r) \/ Complete(r) \/ RequestCancelLocked(r)
        PROVE  drain' = drain \/ drain'.admission = None
    <3>1. drain' = drain \/ \E t, g : drain' = Draining(t, None, g)
      BY <2>4, Zenon DEF RequeueRetry, Complete, RequestCancelLocked
    <3> QED BY <1>2, <3>1, Zenon
  <2>5. DrainStop \/ WaitCheck \/ (\E w \in wakes : RetryWake(w))
        => drain' = drain \/ drain'.admission = None
    BY <1>2, Zenon DEF DrainStop, DrainReturns, WaitCheck, RetryWake
  <2>6. ASSUME drain'.admission = drain.admission, drain'.again = drain.again PROVE AdmissionQueued'
    BY <1>4, <1>8, <2>6, Zenon
  <2> QED
    BY <1>3, <1>5, <1>7, <2>2, <2>3, <2>4, <2>5, <2>6, DrainFrame, ZenonT(40) DEF DrainSteps
<1> QED BY <1>5, <1>6, <1>7, <1>8, SubFrame, Zenon DEF SubSteps

(* A submission is in flight from dcc_rest_operation_begin, which a closed *)
(* admission refuses, to dcc_rest_operation_end.                           *)
FlightSame == InFlight' = InFlight /\ operations' = operations

FlightBegins(r) ==
    /\ ~admission_closed /\ r \notin InFlight /\ InFlight' = InFlight \cup {r}
    /\ operations' = operations + 1

FlightEnds(r) ==
    /\ r \in InFlight /\ InFlight' = InFlight \ {r}
    /\ operations' = GuardedSub(operations, 1)

LEMMA FlightMoves ==
    ASSUME IndInv, AdmissionQueued, Next
    PROVE  FlightSame \/ \E r \in Requests : FlightBegins(r) \/ FlightEnds(r)
<1> DEFINE flying == {"begun", "reserved", "queued", "rejecting", "refusing"}
<1>1. sub \in [Requests -> SubStates] /\ TypeDrain
  BY Zenon DEF IndInv, TypeOK, TypeThreads
<1>2. /\ \A q : q \in InFlight <=> q \in Requests /\ sub[q] \in flying
      /\ \A q : q \in InFlight' <=> q \in Requests /\ sub'[q] \in flying
  BY Zenon DEF InFlight
<1>3. /\ {"begun", "reserved", "queued", "rejecting", "refusing"} \subseteq flying
      /\ "new" \notin flying /\ "refused" \notin flying /\ "accepted" \notin flying
  OBVIOUS
<1> HIDE DEF flying
<1>4. ASSUME sub' = sub, operations' = operations PROVE FlightSame
  <2>1. \A q : q \in InFlight' <=> q \in InFlight
    BY <1>2, <1>4, Zenon
  <2> QED BY <1>4, <2>1, Zenon DEF FlightSame
<1>5. ASSUME NEW r \in Requests, NEW s, sub' = [sub EXCEPT ![r] = s],
             sub[r] \in flying <=> s \in flying, operations' = operations
      PROVE  FlightSame
  <2>1. \A q \in Requests : sub'[q] \in flying <=> sub[q] \in flying
    BY <1>1, <1>5, Zenon
  <2>2. \A q : q \in InFlight' <=> q \in InFlight
    BY <1>2, <2>1, Zenon
  <2> QED BY <1>5, <2>2, Zenon DEF FlightSame
<1>6. ASSUME NEW r \in Requests, OperationBegin(r) PROVE FlightSame \/ FlightBegins(r)
  <2>1. sub[r] = "new" /\ \/ sub' = [sub EXCEPT ![r] = "refused"] /\ operations' = operations
                          \/ /\ sub' = [sub EXCEPT ![r] = "begun"] /\ ~admission_closed
                             /\ operations' = operations + 1
    BY <1>6, Zenon DEF OperationBegin
  <2>2. CASE sub' = [sub EXCEPT ![r] = "refused"] /\ operations' = operations
    BY <1>3, <1>5, <2>1, <2>2, Zenon
  <2>3. CASE /\ sub' = [sub EXCEPT ![r] = "begun"] /\ ~admission_closed
             /\ operations' = operations + 1
    <3>1. sub'[r] = "begun" /\ \A q \in Requests : q # r => sub'[q] = sub[q]
      BY <1>1, <2>3, Zenon
    <3>2. r \notin InFlight
      BY <1>2, <1>3, <2>1, Zenon
    <3>3. \A q : q \in InFlight' <=> q \in InFlight \cup {r}
      BY <1>2, <1>3, <3>1, Zenon
    <3> QED BY <2>3, <3>2, <3>3, Zenon DEF FlightBegins
  <2> QED BY <2>1, <2>2, <2>3, Zenon
<1>7. ASSUME NEW r \in Requests, SubmitReturn(r) PROVE FlightEnds(r)
  <2>1. /\ \/ sub[r] = "queued" /\ sub' = [sub EXCEPT ![r] = "accepted"]
           \/ sub[r] = "refusing" /\ sub' = [sub EXCEPT ![r] = "refused"]
        /\ operations' = GuardedSub(operations, 1)
    BY <1>7, Zenon DEF SubmitReturn
  <2>2. /\ sub[r] \in flying /\ sub'[r] \notin flying
        /\ \A q \in Requests : q # r => sub'[q] = sub[q]
    BY <1>1, <1>3, <2>1, Zenon
  <2>3. \A q : q \in InFlight' <=> q \in InFlight \ {r}
    BY <1>2, <2>2, Zenon
  <2> QED BY <1>2, <2>1, <2>2, <2>3, Zenon DEF FlightEnds
<1>8. ASSUME NEW r \in Requests, SubmitStep(r), ~OperationBegin(r), ~SubmitReturn(r)
      PROVE  FlightSame
  <2>1. /\ operations' = operations
        /\ \/ sub[r] = "begun" /\ sub' = [sub EXCEPT ![r] = "reserved"]
           \/ sub[r] = "begun" /\ sub' = [sub EXCEPT ![r] = "refusing"]
           \/ sub[r] = "reserved" /\ sub' = [sub EXCEPT ![r] = "refusing"]
           \/ sub[r] = "reserved" /\ sub' = [sub EXCEPT ![r] = "queued"]
           \/ sub[r] = "rejecting" /\ sub' = [sub EXCEPT ![r] = "refusing"]
    BY <1>8, Zenon DEF SubmitStep, SubmitReserve, SubmitRejected, SubmitNoMemory, SubmitEnqueue,
                SubmitFreeRejected, client
  <2> QED BY <1>3, <1>5, <2>1, Zenon
<1>9. ASSUME DrainSpawnFails PROVE FlightSame
  <2>1. /\ operations' = operations
        /\ sub' = sub \/ /\ drain.taken = drain.admission
                         /\ sub' = [sub EXCEPT ![drain.taken] = "rejecting"]
    BY <1>9, Zenon DEF DrainSpawnFails, client
  <2>2. drain.taken \in Requests
    BY <1>1, <1>9, Zenon DEF DrainSpawnFails, TypeDrain
  <2>3. drain.taken = drain.admission => sub[drain.taken] = "queued"
    BY <2>2, Zenon DEF AdmissionQueued
  <2> QED BY <1>3, <1>4, <1>5, <2>1, <2>2, <2>3, Zenon
<1> QED BY <1>4, <1>6, <1>7, <1>8, <1>9, SubFrame, Zenon DEF SubSteps

(* The operations are counted. *)
LEMMA OperationsStep ==
    ASSUME CountLaws, IndInv, AdmissionQueued, OperationsExact, Next
    PROVE  OperationsExact'
<1>1. InFlight \in SUBSET Requests /\ IsFiniteSet(InFlight) /\ operations = Cardinality(InFlight)
  BY Zenon DEF InFlight, OperationsExact
<1>2. CASE FlightSame
  BY <1>1, <1>2, Zenon DEF FlightSame, OperationsExact
<1>3. ASSUME NEW r \in Requests, FlightBegins(r) PROVE OperationsExact'
  <2>1. IsFiniteSet(InFlight \cup {r}) /\ Cardinality(InFlight \cup {r}) = Cardinality(InFlight) + 1
    BY <1>1, <1>3, Zenon DEF CountLaws, FlightBegins
  <2> QED BY <1>1, <1>3, <2>1, Zenon DEF FlightBegins, OperationsExact
<1>4. ASSUME NEW r \in Requests, FlightEnds(r) PROVE OperationsExact'
  <2>1. IsFiniteSet(InFlight \ {r}) /\ Cardinality(InFlight \ {r}) = Cardinality(InFlight) - 1
    BY <1>1, <1>4, Zenon DEF CountLaws, FlightEnds
  <2>2. Cardinality(InFlight) \in Nat /\ (Cardinality(InFlight) = 0 <=> InFlight = {})
    BY <1>1, Zenon DEF CountLaws
  <2>3. Cardinality(InFlight) # 0
    BY <1>4, <2>2, Zenon DEF FlightEnds
  <2>4. \A c \in Nat : c # 0 => GuardedSub(c, 1) = c - 1
    BY DEF GuardedSub
  <2>5. GuardedSub(operations, 1) = Cardinality(InFlight) - 1
    BY <1>1, <2>2, <2>3, <2>4, Zenon
  <2> QED BY <1>4, <2>1, <2>5, Zenon DEF FlightEnds, OperationsExact
<1> QED BY <1>2, <1>3, <1>4, FlightMoves, Zenon

(* Which steps change the workers or the owners of detached jobs. *)
OwnerSteps ==
    \/ UNCHANGED <<owner, worker>>
    \/ DrainSpawn \/ BulkCancel \/ TeardownCancelAll
    \/ \E r \in Requests : WorkerStep(r) \/ CancelDetached(r)

LEMMA OwnerFrame == Next => OwnerSteps
<1> SUFFICES ASSUME Next PROVE OwnerSteps
  BY Zenon
<1>1. ASSUME DrainStep PROVE OwnerSteps
  BY <1>1, Zenon DEF DrainStep, OwnerSteps, DrainStop, DrainTake, TakeAt, DrainSpawnFails,
                     cancels, work
<1>2. ASSUME NEW r \in Requests, SubmitStep(r) \/ WorkerStep(r) \/ CancelStep(r) PROVE OwnerSteps
  BY <1>2, ZenonT(30) DEF OwnerSteps, SubmitStep, CancelStep, OperationBegin, SubmitReserve,
         SubmitRejected, SubmitNoMemory, SubmitEnqueue, SubmitFreeRejected, SubmitReturn,
         RequestCancel, RequestCancelLocked, cancels, work
<1>3. ASSUME BulkCancel \/ WaitStep \/ TeardownStep \/ Tick \/ \E w \in wakes : RetryWake(w)
      PROVE  OwnerSteps
  BY <1>3, ZenonT(30) DEF OwnerSteps, WaitStep, TeardownStep, RetryWake, WaitBegin,
         WaitCheck, WaitElapsed, ClientStop, CloseAdmission, OperationsWait,
         RuntimeQuiesce, TeardownWait, Tick, cancels, work
<1> QED BY <1>1, <1>2, <1>3, Zenon DEF Next

(* What the steps of a worker do to the owners. *)
LEMMA WorkerOwners ==
    ASSUME TypeThreads, NEW r \in Requests, WorkerStep(r)
    PROVE  /\ worker[r] # "none" /\ \A q \in Requests : q # r => worker'[q] = worker[q]
           /\ \/ owner' = owner /\ worker[r] # "free"
              \/ owner' = owner /\ \A q \in Requests : owner[q] # Worker(r)
              \/ /\ worker[r] # "free" /\ worker'[r] = "free"
                 /\ \A q \in Requests : owner'[q] \in {owner[q], Worker(r)}
<1>1. worker \in [Requests -> WorkerStates]
  BY Zenon DEF TypeThreads
<1>2. ASSUME NEW w, worker' = [worker EXCEPT ![r] = w]
      PROVE  worker'[r] = w /\ \A q \in Requests : q # r => worker'[q] = worker[q]
  BY <1>1, <1>2, Zenon
<1>3. CASE WorkerFree(r)
  <2>1. /\ worker[r] = "free" /\ owner' = owner /\ worker' = [worker EXCEPT ![r] = "none"]
        /\ \A q \in Requests : owner[q] # Worker(r)
    BY <1>3, Zenon DEF WorkerFree
  <2> QED BY <1>2, <2>1
<1>4. CASE Complete(r)
  <2>1. /\ worker[r] = "complete" /\ worker' = [worker EXCEPT ![r] = "free"]
        /\ owner' = owner \/ owner' = [q \in Requests |-> IF InQueue(q) THEN Worker(r) ELSE owner[q]]
    BY <1>4, Zenon DEF Complete, DetachPending
  <2>2. \A q \in Requests : owner'[q] \in {owner[q], Worker(r)}
    BY <2>1, Zenon
  <2>3. worker[r] # "none" /\ worker[r] # "free"
    BY <2>1, Zenon
  <2> QED BY <1>2, <2>1, <2>2, <2>3, Zenon
<1>5. CASE WorkerStep(r) /\ ~WorkerFree(r) /\ ~Complete(r)
  <2>1. /\ owner' = owner /\ \E w : worker' = [worker EXCEPT ![r] = w]
        /\ worker[r] \in {"start", "http", "classify", "backoff", "retry", "delivered",
                          "requeue", "deliver"}
    BY <1>5, ZenonT(30) DEF WorkerStep, WorkerStart, HttpFails, HttpResponse, Classify, Backoff,
           ReleaseResponse, RetryAbandoned, RequeueRetry, Deliver, cancels
  <2>2. worker[r] # "none" /\ worker[r] # "free"
    BY <2>1
  <2> QED BY <1>2, <2>1, <2>2, Zenon
<1> QED BY <1>3, <1>4, <1>5, Zenon

(* A detached job is held by a bulk cancellation, by the teardown or by a  *)
(* worker that has not freed its own job.                                  *)
LEMMA OwnerStep ==
    ASSUME IndInv, OwnerKinds, Next
    PROVE  OwnerKinds'
<1>1. TypeThreads /\ TypeDrain /\ Places
  BY Zenon DEF IndInv, TypeOK
<1>2. ASSUME \A q \in Requests : owner'[q] \in {owner[q], None, Bulk, Destroyer},
             \A q \in Requests : worker[q] = "free" => worker'[q] = "free"
      PROVE  OwnerKinds'
  <2> SUFFICES ASSUME NEW q \in Requests
               PROVE  \/ owner'[q] \in {None, Bulk, Destroyer}
                      \/ \E x \in Requests : owner'[q] = Worker(x) /\ worker'[x] = "free"
    BY Zenon DEF OwnerKinds
  <2>1. CASE owner'[q] = owner[q]
    BY <1>2, <2>1, Zenon DEF OwnerKinds
  <2>2. CASE owner'[q] \in {None, Bulk, Destroyer}
    BY <2>2, Zenon
  <2> QED BY <1>2, <2>1, <2>2, Zenon
<1>3. ASSUME DrainSpawn PROVE OwnerKinds'
  <2>1. /\ drain.taken \in Requests /\ owner' = owner
        /\ worker' = [worker EXCEPT ![drain.taken] = "start"]
    BY <1>1, <1>3, ZenonT(40) DEF DrainSpawn, TypeDrain, cancels
  <2>2. worker[drain.taken] # "free"
    BY <1>1, <2>1, Zenon DEF Places, PlaceOf
  <2>3. \A q \in Requests : worker[q] = "free" => worker'[q] = "free"
    BY <1>1, <2>1, <2>2, Zenon DEF TypeThreads
  <2> QED BY <1>2, <2>1, <2>3, Zenon
<1>4. ASSUME BulkCancel \/ TeardownCancelAll PROVE OwnerKinds'
  <2>1. /\ worker' = worker
        /\ \/ owner' = owner \/ owner' = [r \in Requests |-> IF InQueue(r) THEN Bulk ELSE owner[r]]
           \/ owner' = [r \in Requests |-> IF InQueue(r) THEN Destroyer ELSE owner[r]]
    BY <1>4, Zenon DEF BulkCancel, TeardownCancelAll, DetachPending, work
  <2>2. \A q \in Requests : owner'[q] \in {owner[q], None, Bulk, Destroyer}
    BY <2>1, Zenon
  <2> QED BY <1>2, <2>1, <2>2, Zenon
<1>5. ASSUME NEW r \in Requests, CancelDetached(r) PROVE OwnerKinds'
  <2>1. worker' = worker /\ owner' = [owner EXCEPT ![r] = None]
    BY <1>5, Zenon DEF CancelDetached
  <2>2. \A q \in Requests : owner'[q] \in {owner[q], None, Bulk, Destroyer}
    BY <1>1, <2>1, Zenon DEF TypeThreads
  <2> QED BY <1>2, <2>1, <2>2, Zenon
<1>6. ASSUME NEW r \in Requests, WorkerStep(r) PROVE OwnerKinds'
  <2> SUFFICES ASSUME NEW q \in Requests
               PROVE  \/ owner'[q] \in {None, Bulk, Destroyer}
                      \/ \E x \in Requests : owner'[q] = Worker(x) /\ worker'[x] = "free"
    BY Zenon DEF OwnerKinds
  <2>1. /\ \A x \in Requests : x # r => worker'[x] = worker[x]
        /\ \/ owner' = owner /\ worker[r] # "free"
           \/ owner' = owner /\ \A x \in Requests : owner[x] # Worker(r)
           \/ /\ worker[r] # "free" /\ worker'[r] = "free"
              /\ \A x \in Requests : owner'[x] \in {owner[x], Worker(r)}
    BY <1>1, <1>6, WorkerOwners, Zenon
  <2>2. \/ owner[q] \in {None, Bulk, Destroyer}
        \/ \E x \in Requests : owner[q] = Worker(x) /\ worker[x] = "free"
    BY Zenon DEF OwnerKinds
  <2>3. CASE owner'[q] = owner[q] /\ (worker[r] # "free" \/ owner[q] # Worker(r))
    BY <2>1, <2>2, <2>3, Zenon
  <2>4. CASE owner'[q] = Worker(r) /\ worker'[r] = "free"
    BY <2>4, Zenon
  <2> QED BY <2>1, <2>3, <2>4, Zenon
<1>7. ASSUME owner' = owner, worker' = worker PROVE OwnerKinds'
  BY <1>2, <1>7, Zenon
<1> QED BY <1>3, <1>4, <1>5, <1>6, <1>7, OwnerFrame, Zenon DEF OwnerSteps

(* Which steps change the phase of the teardown. *)
LEMMA PhaseFrame ==
    Next => UNCHANGED <<teardown, stopping, admission_closed>> \/ TeardownStep
<1> SUFFICES ASSUME Next, ~TeardownStep PROVE UNCHANGED <<teardown, stopping, admission_closed>>
  BY Zenon
<1>1. ASSUME DrainStep PROVE UNCHANGED <<teardown, stopping, admission_closed>>
  BY <1>1, Zenon DEF DrainStep, DrainStop, DrainTake, TakeAt, DrainSpawn, DrainSpawnFails, client
<1>2. ASSUME NEW r \in Requests, SubmitStep(r) \/ CancelStep(r)
      PROVE  UNCHANGED <<teardown, stopping, admission_closed>>
  BY <1>2, ZenonT(30) DEF SubmitStep, CancelStep, OperationBegin, SubmitReserve,
         SubmitRejected, SubmitNoMemory, SubmitEnqueue, SubmitFreeRejected, SubmitReturn,
         RequestCancel, RequestCancelLocked, CancelDetached, client
<1>3. ASSUME NEW r \in Requests, WorkerStep(r)
      PROVE  UNCHANGED <<teardown, stopping, admission_closed>>
  BY <1>3, ZenonT(30) DEF WorkerStep, WorkerStart, HttpFails, HttpResponse, Classify,
         Backoff, ReleaseResponse, RetryAbandoned, RequeueRetry, Deliver, Complete,
         WorkerFree, client
<1>4. ASSUME BulkCancel \/ WaitStep \/ Tick \/ \E w \in wakes : RetryWake(w)
      PROVE  UNCHANGED <<teardown, stopping, admission_closed>>
  BY <1>4, ZenonT(30) DEF WaitStep, RetryWake, WaitBegin, BulkCancel,
         WaitCheck, WaitElapsed, Tick, client
<1> QED BY <1>1, <1>2, <1>3, <1>4, Zenon DEF Next

(* Once the client is stopped and no submission is in flight, empty lists  *)
(* stay empty.                                                             *)
LEMMA StaysEmpty ==
    ASSUME IndInv, Next, stopping, InFlight = {}, drain.taken = None,
           \A q \in Requests : ~InQueue(q)
    PROVE  drain'.taken = None /\ \A q \in Requests : ~InQueue(q)'
<1>1. ~DrainTake /\ ~DrainSpawnFails /\ \A r \in Requests : ~RequeueRetry(r)
  BY Zenon DEF DrainTake, DrainSpawnFails, RequeueRetry
<1>2. \A r \in Requests : ~SubmitEnqueue(r)
  <2>1. \A r \in Requests : sub[r] # "reserved"
    BY Zenon DEF InFlight
  <2> QED BY <2>1, Zenon DEF SubmitEnqueue
<1>3. drain'.taken = None
  BY <1>1, HandMoves, Zenon
<1>4. queue' = queue \/ queue' = [p \in Priorities |-> << >>]
  BY <1>1, <1>2, SchedFrame, Zenon
     DEF SchedSteps, sched, Complete, BulkCancel, TeardownCancelAll, DetachPending
<1> QED BY <1>3, <1>4, QueueSame, QueueDetach, Zenon

(* Once the tasks have returned, none comes back, and the teardown holds   *)
(* no list.                                                                *)
LEMMA StaysQuiet ==
    ASSUME IndInv, Next, ~TeardownCancelAll, drain.taken = None,
           \A q \in Requests : worker[q] = "none" /\ owner[q] # Destroyer
    PROVE  \A q \in Requests : worker'[q] = "none" /\ owner'[q] # Destroyer
<1>1. TypeThreads
  BY Zenon DEF IndInv, TypeOK
<1>2. ~DrainSpawn /\ \A r \in Requests : ~WorkerStep(r)
  BY <1>1, WorkerOwners, Zenon DEF DrainSpawn
<1>3. Bulk # Destroyer /\ None # Destroyer
  <2>1. Bulk # Destroyer
    BY DEF Bulk, Destroyer
  <2> QED BY <2>1, ThreadNames, Zenon
<1>4. CASE UNCHANGED <<owner, worker>>
  BY <1>4, Zenon
<1>5. CASE BulkCancel
  <2>1. /\ worker' = worker
        /\ owner' = owner \/ owner' = [r \in Requests |-> IF InQueue(r) THEN Bulk ELSE owner[r]]
    BY <1>5, Zenon DEF BulkCancel, DetachPending, work
  <2> QED BY <1>3, <2>1, Zenon
<1>6. ASSUME NEW r \in Requests, CancelDetached(r)
      PROVE  \A q \in Requests : worker'[q] = "none" /\ owner'[q] # Destroyer
  <2>1. worker' = worker /\ owner' = [owner EXCEPT ![r] = None]
    BY <1>6, Zenon DEF CancelDetached
  <2> QED BY <1>1, <1>3, <2>1, Zenon DEF TypeThreads
<1> QED BY <1>2, <1>4, <1>5, <1>6, OwnerFrame, Zenon DEF OwnerSteps

(* What each phase of the teardown has achieved lasts. *)
LEMMA PhaseStep ==
    ASSUME CountLaws, IndInv, AdmissionQueued, OperationsExact, Phases, Next
    PROVE  Phases'
<1> DEFINE Empty == drain.taken = None /\ \A r \in Requests : ~InQueue(r)
           Quiet == \A r \in Requests : worker[r] = "none" /\ owner[r] # Destroyer
           Late == {"drained", "canceled again", "quiet", "quiesced"}
           Later == {"canceled again", "quiet", "quiesced"}
           Last == {"quiet", "quiesced"}
<1>1. /\ teardown # "up" => admission_closed
      /\ teardown \notin {"up", "closed"} => stopping
      /\ teardown \in Late => InFlight = {}
      /\ teardown \in Later => Empty
      /\ teardown \in Last => Quiet
  BY Zenon DEF Phases
<1>2. ASSUME teardown' # "up" => admission_closed',
             teardown' \notin {"up", "closed"} => stopping',
             teardown' \in Late => InFlight' = {},
             teardown' \in Later => Empty',
             teardown' \in Last => Quiet'
      PROVE  Phases'
  BY <1>2, Zenon DEF Phases
<1>3. /\ \A t : t \in Last => t \in Later /\ \A u : u \in Later => u \in Late
      /\ \A t \in Late : t # "up" /\ t \notin {"up", "closed"} /\ t # "stopped"
      /\ "up" \notin Late /\ "closed" \notin Late /\ "stopped" \notin Late
      /\ "canceled" \notin Late /\ "drained" \notin Later /\ "canceled again" \notin Last
      /\ "drained" \in Late /\ "canceled again" \in Later /\ "quiet" \in Last
  BY Zenon
<1>4. admission_closed /\ InFlight = {} => InFlight' = {}
  BY FlightMoves, Zenon DEF FlightSame, FlightBegins, FlightEnds
<1>5. stopping /\ InFlight = {} /\ Empty => Empty'
  BY StaysEmpty, Zenon
<1>6. drain.taken = None /\ Quiet /\ ~TeardownCancelAll => Quiet'
  BY StaysQuiet, Zenon
<1> HIDE DEF Late, Later, Last
<1>7. CASE UNCHANGED <<teardown, stopping, admission_closed>>
  <2>1. teardown' = teardown /\ stopping' = stopping /\ admission_closed' = admission_closed
    BY <1>7, Zenon
  <2>2. teardown' \in Late => InFlight' = {}
    BY <1>1, <1>3, <1>4, <2>1, Zenon
  <2>3. teardown' \in Later => Empty'
    BY <1>1, <1>3, <1>5, <2>1, Zenon
  <2>4. ASSUME teardown' \in Last PROVE ~TeardownCancelAll
    <3>1. TeardownCancelAll => teardown' # teardown
      BY Zenon DEF TeardownCancelAll
    <3> QED BY <2>1, <3>1, Zenon
  <2>5. teardown' \in Last => Quiet'
    BY <1>1, <1>3, <1>6, <2>1, <2>4, Zenon
  <2> HIDE DEF Empty, Quiet
  <2> QED BY <1>1, <1>2, <2>1, <2>2, <2>3, <2>5, Zenon
<1>8. CASE ClientStop
  <2>1. /\ \/ teardown = "up" /\ teardown' = "up"
           \/ teardown = "closed" /\ teardown' = "stopped"
        /\ stopping' = TRUE /\ admission_closed' = admission_closed
    BY <1>8, Zenon DEF ClientStop
  <2>2. teardown' \notin Late /\ teardown' \notin Later /\ teardown' \notin Last
    BY <1>3, <2>1, Zenon
  <2>3. teardown' # "up" => admission_closed'
    BY <1>1, <2>1, Zenon
  <2> HIDE DEF Empty, Quiet
  <2> QED BY <1>2, <2>1, <2>2, <2>3, Zenon
<1>9. CASE CloseAdmission
  <2>1. teardown' = "closed" /\ admission_closed' = TRUE
    BY <1>9, Zenon DEF CloseAdmission
  <2>2. teardown' \notin Late /\ teardown' \notin Later /\ teardown' \notin Last
    BY <1>3, <2>1, Zenon
  <2> HIDE DEF Empty, Quiet
  <2> QED BY <1>2, <2>1, <2>2, Zenon
<1>10. CASE TeardownCancelAll
  <2>1. /\ \/ teardown = "stopped" /\ teardown' = "canceled"
           \/ teardown = "drained" /\ teardown' = "canceled again"
        /\ stopping' = stopping /\ admission_closed' = admission_closed /\ sub' = sub
        /\ LockFree /\ drain' = drain /\ queue' = [p \in Priorities |-> << >>]
    BY <1>10, Zenon DEF TeardownCancelAll, DetachPending
  <2>2. Empty'
    BY <2>1, EmptyHand, QueueDetach, Zenon
  <2>3. admission_closed' /\ stopping'
    BY <1>1, <2>1, Zenon
  <2>4. teardown' \in Late => teardown \in Late
    BY <1>3, <2>1, Zenon
  <2>5. teardown' \in Late => InFlight' = {}
    BY <1>1, <2>3, <2>1, <2>4, <1>4, Zenon
  <2>6. teardown' \notin Last
    BY <1>3, <2>1, Zenon
  <2> HIDE DEF Empty, Quiet
  <2> QED BY <1>2, <2>2, <2>3, <2>5, <2>6, Zenon
<1>11. CASE OperationsWait
  <2>1. /\ teardown = "canceled" /\ teardown' = "drained" /\ operations = 0
        /\ stopping' = stopping /\ admission_closed' = admission_closed
    BY <1>11, Zenon DEF OperationsWait
  <2>2. InFlight \in SUBSET Requests /\ IsFiniteSet(InFlight) /\ operations = Cardinality(InFlight)
    BY Zenon DEF InFlight, OperationsExact
  <2>3. InFlight = {}
    BY <2>1, <2>2, Zenon DEF CountLaws
  <2>4. admission_closed /\ stopping
    BY <1>1, <2>1, Zenon
  <2>5. teardown' \notin Later /\ teardown' \notin Last
    BY <1>3, <2>1, Zenon
  <2> HIDE DEF Empty, Quiet
  <2> QED BY <1>2, <1>4, <2>1, <2>3, <2>4, <2>5, Zenon
<1>12. CASE RuntimeQuiesce
  <2>1. /\ teardown = "canceled again" /\ teardown' = "quiet" /\ Quiet
        /\ stopping' = stopping /\ admission_closed' = admission_closed
    BY <1>12, Zenon DEF RuntimeQuiesce
  <2>2. admission_closed /\ stopping /\ InFlight = {} /\ Empty
    BY <1>1, <1>3, <2>1, Zenon
  <2>3. ~TeardownCancelAll
    BY <2>1, Zenon DEF TeardownCancelAll
  <2>4. Quiet'
    BY <1>6, <2>1, <2>2, <2>3, Zenon
  <2> HIDE DEF Empty, Quiet
  <2> QED BY <1>2, <1>4, <1>5, <2>1, <2>2, <2>4, Zenon
<1>13. CASE TeardownWait
  <2>1. /\ teardown = "quiet" /\ teardown' = "quiesced"
        /\ stopping' = stopping /\ admission_closed' = admission_closed
    BY <1>13, Zenon DEF TeardownWait
  <2>2. admission_closed /\ stopping /\ InFlight = {} /\ Empty /\ Quiet
    BY <1>1, <1>3, <2>1, Zenon
  <2>3. ~TeardownCancelAll
    BY <2>1, Zenon DEF TeardownCancelAll
  <2>4. Quiet'
    BY <1>6, <2>2, <2>3, Zenon
  <2> HIDE DEF Empty, Quiet
  <2> QED BY <1>2, <1>4, <1>5, <2>1, <2>2, <2>4, Zenon
<1> QED
  BY <1>7, <1>8, <1>9, <1>10, <1>11, <1>12, <1>13, PhaseFrame, Zenon DEF TeardownStep

LEMMA BytesMember ==
    ASSUME NEW v, NEW x
    PROVE  x \in Bytes(v) <=> \E q \in Requests : x \in {q} \X (1 .. v[q])
  BY Zenon DEF Bytes

(* No byte at all. *)
LEMMA NoBytes ==
    ASSUME CountLaws, NEW v, \A r \in Requests : v[r] = 0
    PROVE  IsFiniteSet(Bytes(v)) /\ Cardinality(Bytes(v)) = 0
<1>1. 1 .. 0 = {}
  OBVIOUS
<1>2. Bytes(v) = {}
  BY <1>1, BytesMember, SMTT(20)
<1> QED BY <1>2, Zenon DEF CountLaws

LEMMA SecondInit == CountLaws /\ Init => IndInv2
<1> SUFFICES ASSUME CountLaws, Init PROVE IndInv2
  BY Zenon
<1>1. \A r \in Requests : /\ resource_state[r] = 0 /\ response_bytes[r] = 0 /\ sub[r] = "new"
                          /\ worker[r] = "none" /\ owner[r] = None
  BY Zenon DEF Init
<1>2. /\ queued_requests = 0 /\ queued_request_bytes = 0 /\ active_request_bytes = 0
      /\ operations = 0 /\ teardown = "up" /\ drain.taken = None /\ drain.admission = None
  BY DEF Init, NoDrain
<1>3. /\ \A r \in Requests : QueuedSize[r] = 0
      /\ \A r \in Requests : ActiveSize[r] = 0
  BY <1>1 DEF QueuedSize, ActiveSize
<1>4. Queued = {}
  BY <1>1 DEF Queued
<1>5. AccountingExact /\ UnitsFinite
  BY <1>2, <1>3, <1>4, NoBytes, Zenon DEF AccountingExact, UnitsFinite, CountLaws
<1>6. ResponseHeld /\ Recorded
  <2>1. \A r \in Requests : ~Live(r) /\ worker[r] \notin {"backoff", "retry", "requeue"}
    BY <1>1 DEF Live
  <2> QED BY <1>1, <2>1, Zenon DEF ResponseHeld, Recorded
<1>7. QueueOrdered
  BY DEF Init, QueueOrdered
<1>8. HandOrdered /\ AdmissionQueued
  BY <1>2, NoneApart, Zenon DEF HandOrdered, AdmissionQueued
<1>9. OperationsExact
  <2>1. InFlight = {}
    BY <1>1 DEF InFlight
  <2> QED BY <1>2, <2>1, Zenon DEF OperationsExact, CountLaws
<1>10. OwnerKinds
  BY <1>1, Zenon DEF OwnerKinds
<1>11. Phases
  BY <1>2, Zenon DEF Phases
<1> QED
  BY <1>5, <1>6, <1>7, <1>8, <1>9, <1>10, <1>11, Zenon DEF IndInv2

LEMMA SecondStep ==
    CountLaws /\ BytesLaw /\ IndInv /\ IndInv2 /\ [Next]_vars => IndInv2'
<1> SUFFICES ASSUME CountLaws, BytesLaw, IndInv, IndInv2, [Next]_vars PROVE IndInv2'
  BY Zenon
<1>1. /\ AccountingExact /\ UnitsFinite /\ ResponseHeld /\ QueueOrdered /\ HandOrdered
      /\ Recorded /\ OperationsExact /\ AdmissionQueued /\ OwnerKinds /\ Phases
  BY Zenon DEF IndInv2
<1>2. CASE Next
  <2>1. AccountingExact' /\ UnitsFinite'
    BY <1>1, <1>2, AccountingStep, Zenon
  <2>2. /\ ResponseHeld'
        /\ \A r \in Requests : worker'[r] \in {"backoff", "retry", "requeue"} => ~Fresh(r)'
    BY <1>1, <1>2, WorkStep, Zenon
  <2>3. \A r \in Requests : Live(r)' => r \in Elements(submitted)'
    BY <1>1, <1>2, RecordedStep, Zenon
  <2>4. Recorded'
    BY <2>2, <2>3, Zenon DEF Recorded
  <2>5. TypeSched'
    BY <1>2, SchedStep, Zenon
  <2>6. QueueOrdered' /\ HandOrdered'
    BY <1>1, <1>2, <2>5, OrderStep, Zenon
  <2>7. AdmissionQueued' /\ OwnerKinds'
    BY <1>1, <1>2, AdmissionStep, OwnerStep, Zenon
  <2>8. OperationsExact' /\ Phases'
    BY <1>1, <1>2, OperationsStep, PhaseStep, Zenon
  <2> QED BY <2>1, <2>2, <2>4, <2>6, <2>7, <2>8, Zenon DEF IndInv2
<1>3. CASE UNCHANGED vars
  <2>1. /\ UNCHANGED <<queued_requests, queued_request_bytes, active_request_bytes>>
        /\ UNCHANGED <<resource_state, response_bytes, queue, drain, retry_attempt, submitted>>
        /\ UNCHANGED <<sub, worker, owner, teardown, stopping, admission_closed, operations>>
    BY <1>3, Zenon DEF vars, sched, res, limits, work, cancels, client
  <2>2. AccountingExact' /\ UnitsFinite'
    BY <1>1, <2>1, Zenon DEF AccountingExact, UnitsFinite, Queued, QueuedSize, ActiveSize
  <2>3. ResponseHeld' /\ Recorded'
    BY <1>1, <2>1, Zenon DEF ResponseHeld, Recorded, Live, Fresh
  <2>4. (\A a, b : Before(a, b)' <=> Before(a, b)) /\ \A a : Fresh(a)' <=> Fresh(a)
    BY <2>1, Zenon DEF Fresh, Before
  <2>5. QueueOrdered' /\ HandOrdered'
    BY <1>1, <2>1, <2>4, ZenonT(30) DEF QueueOrdered, HandOrdered
  <2>6. OperationsExact' /\ AdmissionQueued' /\ OwnerKinds'
    BY <1>1, <2>1, Zenon DEF OperationsExact, InFlight, AdmissionQueued, OwnerKinds
  <2>7. Phases'
    BY <1>1, <2>1, Zenon DEF Phases, InFlight, InQueue
  <2> QED BY <2>2, <2>3, <2>5, <2>6, <2>7, Zenon DEF IndInv2
<1> QED BY <1>2, <1>3, Zenon

(* What the two invariants say of a quiesced client. *)
LEMMA TeardownCleanHolds == CountLaws /\ IndInv /\ IndInv2 => TeardownClean
<1> SUFFICES ASSUME CountLaws, IndInv, IndInv2, teardown = "quiesced",
                    \A r \in Requests : owner[r] # Bulk
             PROVE  /\ \A r \in Requests : resource_state[r] = 0 /\ worker[r] = "none"
                    /\ \A r \in Requests : sub[r] = "accepted" => terminal[r] = 1
                    /\ queued_request_bytes = 0 /\ active_request_bytes = 0
                    /\ operations = 0
  BY Zenon DEF TeardownClean
<1>1. /\ InFlight = {} /\ drain.taken = None
      /\ \A r \in Requests : ~InQueue(r) /\ worker[r] = "none" /\ owner[r] # Destroyer
  BY Zenon DEF IndInv2, Phases
<1>2. ASSUME NEW r \in Requests PROVE owner[r] = None
  <2>1. \A q \in Requests : worker[q] # "free"
    BY <1>1, Zenon
  <2> QED BY <1>1, <1>2, <2>1, Zenon DEF IndInv2, OwnerKinds
<1>3. ASSUME NEW r \in Requests
      PROVE  resource_state[r] = 0 /\ (sub[r] = "accepted" => terminal[r] = 1)
  <2>1. PlaceOf(r) /\ sub[r] \in SubStates
    BY Zenon DEF IndInv, Places, TypeOK, TypeThreads
  <2>2. Live(r) => resource_state[r] = 0 /\ terminal[r] = 1
    BY <1>1, <1>2, <2>1, NoneApart, Zenon DEF PlaceOf
  <2>3. sub[r] = "accepted" => Live(r)
    BY Zenon DEF Live
  <2>4. sub[r] \notin {"begun", "reserved", "queued", "rejecting", "refusing"}
    BY <1>1, Zenon DEF InFlight
  <2>5. Charged(sub[r]) = 0
    BY <2>4, Zenon DEF Charged
  <2>6. ~Live(r) => resource_state[r] = 0
    BY <2>1, <2>5, Zenon DEF PlaceOf
  <2> QED BY <2>2, <2>3, <2>6, Zenon
<1>4. \A r \in Requests : response_bytes[r] = 0
  <2>1. \A r \in Requests : worker[r] \notin {"backoff", "retry", "deliver", "delivered"}
    BY <1>1
  <2> QED BY <2>1, Zenon DEF IndInv2, ResponseHeld
<1>5. /\ \A r \in Requests : QueuedSize[r] = 0
      /\ \A r \in Requests : ActiveSize[r] = 0
  BY <1>3, <1>4 DEF QueuedSize, ActiveSize
<1>6. queued_request_bytes = 0 /\ active_request_bytes = 0
  BY <1>5, NoBytes, Zenon DEF IndInv2, AccountingExact
<1>7. operations = 0
  BY <1>1, Zenon DEF IndInv2, OperationsExact, CountLaws
<1> QED BY <1>1, <1>3, <1>6, <1>7, Zenon

-----------------------------------------------------------------------------
(* From here on the library of finite sets is used.                        *)
INSTANCE FiniteSetTheorems

LEMMA CountLawsHold == CountLaws
<1>1. IsFiniteSet({}) /\ Cardinality({}) = 0
  BY FS_EmptySet, Zenon
<1>2. \A S \in SUBSET Requests :
        IsFiniteSet(S) => Cardinality(S) \in Nat /\ (Cardinality(S) = 0 <=> S = {})
  BY FS_CardinalityType, FS_EmptySet, ZenonT(40)
<1>3. \A S \in SUBSET Requests, r \in Requests :
        IsFiniteSet(S) /\ r \notin S =>
            IsFiniteSet(S \cup {r}) /\ Cardinality(S \cup {r}) = Cardinality(S) + 1
  BY FS_AddElement, ZenonT(40)
<1>4. \A S \in SUBSET Requests, r \in Requests :
        IsFiniteSet(S) /\ r \in S =>
            IsFiniteSet(S \ {r}) /\ Cardinality(S \ {r}) = Cardinality(S) - 1
  BY FS_RemoveElement, ZenonT(40)
<1> QED
  BY <1>1, <1>2, <1>3, <1>4, Zenon DEF CountLaws

OtherBytes(v, r) == Bytes(v) \ ({r} \X (1 .. v[r]))

(* The bytes of one request. *)
LEMMA ColumnCount ==
    ASSUME NEW r, NEW n \in Nat
    PROVE  IsFiniteSet({r} \X (1 .. n)) /\ Cardinality({r} \X (1 .. n)) = n
<1>1. IsFiniteSet({r}) /\ Cardinality({r}) = 1
  BY FS_Singleton, Zenon
<1>2. IsFiniteSet(1 .. n) /\ Cardinality(1 .. n) = n
  BY FS_Interval
<1>3. /\ IsFiniteSet({r} \X (1 .. n))
      /\ Cardinality({r} \X (1 .. n)) = Cardinality({r}) * Cardinality(1 .. n)
  BY <1>1, <1>2, FS_Product, Zenon
<1> QED BY <1>1, <1>2, <1>3

(* The bytes of the others, and those of one request. *)
LEMMA BytesSplit ==
    ASSUME NEW v \in [Requests -> Nat], NEW w \in [Requests -> Nat], NEW r \in Requests,
           IsFiniteSet(Bytes(v)), OthersSame(v, w, r)
    PROVE  /\ IsFiniteSet(OtherBytes(v, r)) /\ IsFiniteSet(Bytes(w))
           /\ Cardinality(Bytes(w)) = Cardinality(OtherBytes(v, r)) + w[r]
<1> USE DEF OthersSame
<1> DEFINE Own == {r} \X (1 .. w[r])
<1>0. PICK Others : Others = OtherBytes(v, r)
  BY Zenon
<1>a. Others = Bytes(v) \ ({r} \X (1 .. v[r]))
  BY <1>0, Zenon DEF OtherBytes
<1>1. IsFiniteSet(Others)
  BY <1>a, FS_Difference, Zenon
<1>2. w[r] \in Nat /\ IsFiniteSet(Own) /\ Cardinality(Own) = w[r]
  BY ColumnCount, Zenon
<1>3. \A q, s : \A m, n, x : x \in {q} \X (1 .. m) /\ x \in {s} \X (1 .. n) => q = s
  OBVIOUS
<1>4. Bytes(w) = Others \cup Own
  <2>1. ASSUME NEW x \in Bytes(w) PROVE x \in Others \cup Own
    <3>1. PICK q \in Requests : x \in {q} \X (1 .. w[q])
      BY <2>1, BytesMember, Zenon
    <3>2. CASE q = r
      BY <3>1, <3>2, Zenon
    <3>3. CASE q # r
      <4>1. x \in {q} \X (1 .. v[q])
        BY <3>1, <3>3, Zenon
      <4>2. x \in Bytes(v)
        BY <4>1, BytesMember, Zenon
      <4>3. x \notin {r} \X (1 .. v[r])
        BY <1>3, <3>3, <4>1, Zenon
      <4> QED BY <1>a, <4>2, <4>3, Zenon
    <3> QED BY <3>2, <3>3, Zenon
  <2>2. ASSUME NEW x \in Others PROVE x \in Bytes(w)
    <3>1. PICK q \in Requests : x \in {q} \X (1 .. v[q])
      BY <1>a, <2>2, BytesMember, Zenon
    <3>2. q # r
      BY <1>a, <2>2, <3>1, Zenon
    <3>3. x \in {q} \X (1 .. w[q])
      BY <3>1, <3>2, Zenon
    <3> QED BY <3>3, BytesMember, Zenon
  <2>3. ASSUME NEW x \in Own PROVE x \in Bytes(w)
    BY <2>3, BytesMember, Zenon
  <2> QED BY <2>1, <2>2, <2>3, Zenon
<1>5. Others \cap Own = {}
  <2> SUFFICES ASSUME NEW x \in Others, x \in Own PROVE FALSE
    BY Zenon
  <2>1. PICK q \in Requests : x \in {q} \X (1 .. v[q])
    BY <1>a, BytesMember, Zenon
  <2>2. q = r
    BY <1>3, <2>1, Zenon
  <2> QED BY <1>a, <2>1, <2>2, Zenon
<1> HIDE DEF Own
<1>6. /\ IsFiniteSet(Others \cup Own)
      /\ Cardinality(Others \cup Own)
           = Cardinality(Others) + Cardinality(Own) - Cardinality(Others \cap Own)
  BY <1>1, <1>2, FS_Union, Zenon
<1>7. Cardinality(Others \cap Own) = 0 /\ Cardinality(Others) \in Nat
  BY <1>1, <1>5, FS_EmptySet, FS_CardinalityType, ZenonT(30)
<1> QED BY <1>0, <1>1, <1>2, <1>4, <1>6, <1>7, SMTT(20)

LEMMA BytesLawHolds == BytesLaw
<1> SUFFICES ASSUME NEW v \in [Requests -> Nat], NEW w \in [Requests -> Nat],
                    NEW r \in Requests, IsFiniteSet(Bytes(v)), OthersSame(v, w, r)
             PROVE  /\ IsFiniteSet(Bytes(w))
                    /\ Cardinality(Bytes(v)) \in Nat /\ Cardinality(Bytes(w)) \in Nat
                    /\ Cardinality(Bytes(w)) + v[r] = Cardinality(Bytes(v)) + w[r]
  BY Zenon DEF BytesLaw
<1>1. OthersSame(v, v, r)
  BY Zenon DEF OthersSame
<1>2. /\ IsFiniteSet(OtherBytes(v, r)) /\ IsFiniteSet(Bytes(w))
      /\ Cardinality(Bytes(w)) = Cardinality(OtherBytes(v, r)) + w[r]
  BY <1>1, BytesSplit, Zenon
<1>3. Cardinality(Bytes(v)) = Cardinality(OtherBytes(v, r)) + v[r]
  BY <1>1, BytesSplit, Zenon
<1>4. Cardinality(OtherBytes(v, r)) \in Nat /\ v[r] \in Nat /\ w[r] \in Nat
  BY <1>2, FS_CardinalityType, Zenon
<1> QED BY <1>2, <1>3, <1>4, SMTT(20)

LEMMA IndInvariant == Spec => []IndInv
  BY CountLawsHold, IndInit, IndStep, PTL DEF Spec

LEMMA SecondInvariant == Spec => []IndInv2
  BY CountLawsHold, BytesLawHolds, IndInvariant, SecondInit, SecondStep, PTL DEF Spec

(* The fields of the client and of its requests keep their types and the   *)
(* retries of a request stay within DCC_REST_MAX_RATE_LIMIT_RETRIES,       *)
(* through every interleaving of submissions, workers, cancellations,      *)
(* waits and the teardown.                                                 *)
THEOREM TypeCorrect == Spec => []TypeOK
<1>1. IndInv => TypeOK
  BY Zenon DEF IndInv
<1> QED
  BY <1>1, IndInvariant, PTL

(* At most one request of a route is on the wire, and the table of active  *)
(* routes is exact, for any number of requests, routes and workers.        *)
THEOREM RoutesAreExclusive == Spec => []RouteExclusive
<1>1. IndInv => RouteExclusive
  BY Zenon DEF IndInv
<1> QED
  BY <1>1, IndInvariant, PTL

(* rest_async_active is the length of the active list and never passes the *)
(* concurrency of the client.                                              *)
THEOREM ActiveIsCounted == Spec => []ActiveCounted
<1>1. IndInv => ActiveCounted
  BY Zenon DEF IndInv
<1> QED
  BY <1>1, IndInvariant, PTL

(* Every queued job is in exactly one of: a pending list, the hand of the  *)
(* drain loop, a worker, a detached list; a freed or rejected one in none. *)
THEOREM JobsAreInOnePlace == Spec => []OnePlace
<1>1. IndInv => OnePlace
  BY OnePlaceHolds, Zenon
<1> QED
  BY <1>1, IndInvariant, PTL

(* A request is finalized at most once, exactly once by the time its job   *)
(* is freed, and never when its submission was rejected.                   *)
THEOREM OneTerminal == Spec => []ExactlyOneTerminal
<1>1. IndInv => ExactlyOneTerminal
  BY OneTerminalHolds, Zenon
<1> QED
  BY <1>1, IndInvariant, PTL

(* The table of active routes has room for every worker the drain loop may *)
(* start: a canceled job takes a slot and no route, so that there are at   *)
(* most as many claimed routes as active jobs.                             *)
THEOREM RouteTableIsLargeEnough == Spec => []RouteTableFits
<1>1. ASSUME IndInv PROVE RouteTableFits
  <2> DEFINE claimed == {q \in active_list : route_claimed[q]}
  <2>1. /\ IsFiniteSet(active_list) /\ active = Cardinality(active_list)
        /\ active_routes = {RouteOf[r] : r \in claimed}
    BY <1>1, Zenon DEF IndInv, ActiveFinite, ActiveCounted, RouteExclusive
  <2>2. IsFiniteSet(claimed) /\ Cardinality(claimed) <= Cardinality(active_list)
    BY <2>1, FS_Subset, Zenon
  <2> DEFINE f == [r \in claimed |-> RouteOf[r]]
  <2>3. active_routes = {f[r] : r \in claimed}
    BY <2>1, Zenon
  <2>4. f \in Surjection(claimed, active_routes)
    BY <2>3, Zenon DEF Surjection
  <2> HIDE DEF claimed, f
  <2>5. IsFiniteSet(active_routes) /\ Cardinality(active_routes) <= Cardinality(claimed)
    BY <2>2, <2>4, FS_Surjection, Zenon
  <2>6. Cardinality(active_routes) \in Nat /\ Cardinality(claimed) \in Nat /\ active \in Nat
    BY <2>1, <2>2, <2>5, FS_CardinalityType, ZenonT(40)
  <2> QED
    BY <2>1, <2>2, <2>5, <2>6, LimitsAssumption, SMTT(30) DEF RouteTableFits
<1> QED
  BY <1>1, IndInvariant, PTL

(* Active jobs and captured responses never exceed rest_max_active_bytes:  *)
(* every reservation is checked under resource_lock against what is left.  *)
THEOREM ActiveBytesStayBounded == Spec => []ActiveBytesBounded
<1>1. IndInv => ActiveBytesBounded
  BY Zenon DEF IndInv
<1> QED
  BY <1>1, IndInvariant, PTL

(* The worker slots, the table of active routes and the active bytes stay  *)
(* within their limits, for every value of the limits.                     *)
THEOREM CapacityIsKept == Spec => []WithinCapacity
<1>1. ActiveCounted /\ RouteTableFits /\ ActiveBytesBounded => WithinCapacity
  BY DEF WithinCapacity
<1> QED
  BY <1>1, ActiveIsCounted, RouteTableIsLargeEnough, ActiveBytesStayBounded, PTL

(* A request that is not canceled starts only when its bucket, the global  *)
(* limit and its own retry time are open.                                  *)
THEOREM StartsAreWithinLimits == Spec => StartsWithinLimits
<1>1. IndInv /\ [Next]_vars =>
        [\A r \in Requests :
           worker[r] = "none" /\ worker'[r] = "start" /\ ~cancel_requested[r]
           => WaitMs(r) = 0]_vars
  BY StartsWithin, Zenon
<1> QED
  BY <1>1, IndInvariant, PTL DEF Spec, StartsWithinLimits

(* The counters of the runtime statistics are exact for any number of      *)
(* requests, of any sizes: queued_requests and queued_request_bytes are    *)
(* what the jobs in state 1 are charged, active_request_bytes what those   *)
(* in state 2 and the captured bodies are.  No guarded decrement of        *)
(* dcc_rest_resource_* is ever skipped.                                    *)
THEOREM AccountingIsExact == Spec => []AccountingExact
<1>1. IndInv2 => AccountingExact
  BY Zenon DEF IndInv2
<1> QED
  BY <1>1, SecondInvariant, PTL

(* Jobs that were not retried keep their order of submission in every      *)
(* pending list, through the take and the restore of the drain loop.       *)
THEOREM QueuesStayOrdered == Spec => []QueueOrdered
<1>1. IndInv2 => QueueOrdered
  BY Zenon DEF IndInv2
<1> QED
  BY <1>1, SecondInvariant, PTL

(* dcc_client_prepare_destroy leaves no job, no charge and no operation    *)
(* when it has quiesced the client, and every accepted request has its     *)
(* terminal result.                                                        *)
THEOREM TeardownIsClean == Spec => []TeardownClean
<1>1. IndInv /\ IndInv2 => TeardownClean
  BY CountLawsHold, TeardownCleanHolds, Zenon
<1> QED
  BY <1>1, IndInvariant, SecondInvariant, PTL

=============================================================================
