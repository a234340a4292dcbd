----------------------- MODULE InteractionQueueProof ------------------------
(***************************************************************************)
(* The theorems about the interaction queue, for any number of actions,    *)
(* any costs and any limits: its invariants, and that it implements        *)
(* OrderedResponses.  First what the steps do: each part of the inductive  *)
(* invariant is kept, and each step is one of OrderedResponses or leaves   *)
(* it alone.  Then the laws of counts and sums those steps rest on.        *)
(***************************************************************************)
EXTENDS InteractionQueue, TLAPS

View(a) == [state |-> act[a].state, original |-> act[a].original]
Start == [state |-> "READY", original |-> FALSE]

(* The first listed action; one past the accepted ones when none is. *)
First == accepted - Len(list) + 1

Listed(a) == First <= a /\ a <= accepted

(* The list links the accepted actions from First on, in order. *)
ListShape ==
    /\ Len(list) <= accepted
    /\ \A i \in 1 .. Len(list) : list[i] = accepted - Len(list) + i

(* The n-th terminal result is that of the n-th action. *)
TermShape ==
    /\ Len(terminals) <= accepted
    /\ \A i \in 1 .. Len(terminals) : terminals[i] = i

(* The stage of an action follows from its place. *)
StageOf(a) ==
    /\ stage[a] = "unused" <=> accepted < a
    /\ stage[a] \in {"delivered", "hook", "done", "finalized"} <=> a <= Len(terminals)
    /\ status[a] # None <=> a <= Len(terminals)
    /\ stage[a] \in {"submitted", "delivered"} <=> Listed(a) /\ a = First
    /\ stage[a] = "queued" <=> Listed(a) /\ a # First

StageShape == \A a \in Actions : StageOf(a)

(* The dependents the post-hook of a still has to answer. *)
Owed(a, b) == accepted - Len(hook[a].deps) < b /\ b <= accepted

CascadeOf(a) ==
    /\ active /\ list = <<>> /\ failed
    /\ Len(hook[a].deps) <= accepted
    /\ \A i \in 1 .. Len(hook[a].deps) :
         hook[a].deps[i] = accepted - Len(hook[a].deps) + i
    /\ \A b \in Actions :
         /\ stage[b] \in {"dependent", "finalized"} <=> Owed(a, b)
         /\ stage[b] = "finalized" => b = accepted - Len(hook[a].deps) + 1
    /\ hook[a].answer \in {"STATE", "CANCELED", "REJECTED"}

(* An active queue without a list has exactly one post-hook that answers   *)
(* dependents, and they are the last accepted actions.                     *)
CascadeShape ==
    /\ ~active => list = <<>>
    /\ \A a \in Actions : Cascading(a) => CascadeOf(a)
    /\ \A a, b \in Actions : Cascading(a) /\ Cascading(b) => a = b
    /\ \A a \in Actions : hook[a].deps # <<>> => Cascading(a)
    /\ active /\ list = <<>> => \E a \in Actions : Cascading(a)
    /\ \A b \in Actions : stage[b] \in {"dependent", "finalized"} =>
                             \E a \in Actions : Cascading(a)

(* failed is set with the first result that is not OK, or by the refusal   *)
(* of a successor; until the post-hook runs the failed action is listed.   *)
FailShape ==
    /\ ~failed => \A a \in Actions : a <= Len(terminals) => status[a] = "OK"
    /\ failed /\ list # <<>> => stage[First] = "delivered" /\ status[First] # "OK"

Shapes == ListShape /\ TermShape /\ StageShape /\ CascadeShape /\ FailShape

(* The projection is what the last accepted action makes of the flow, the  *)
(* commitment what the last answered one made of it.                       *)
FlowShape ==
    /\ initial_admitted <=> accepted >= 1
    /\ \A a \in Actions : a <= accepted =>
          /\ act[a].initial <=> a = 1
          /\ act[a].state # "READY"
          /\ act[a].initial => act[a].queued = "QUEUED"
    /\ ~failed => projected = IF accepted = 0 THEN Start ELSE View(accepted)
    /\ ~failed => committed = IF terminals = <<>> THEN Start ELSE View(Len(terminals))

OwnerShape ==
    /\ owner_destroyed <=> handler = "gone"
    /\ handler = "starting" => timer = "none"

IndInv ==
    /\ TypeOK /\ Shapes /\ FlowShape /\ OwnerShape /\ ReferencesExact /\ BytesExact

(* f[n] is the sum of the first n weights. *)
PartialSums(f, w, m) ==
    f = [n \in 0 .. m |-> IF n = 0 THEN 0 ELSE f[n - 1] + w[n]]

(* What the counters need to know of finite sets ... *)
CountLaws ==
    \A S \in SUBSET Actions :
      /\ Cardinality(S) \in Nat
      /\ Cardinality(S) = 0 <=> S = {}
      /\ \A a \in Actions : a \notin S => Cardinality(S \cup {a}) = Cardinality(S) + 1
      /\ \A a \in S : Cardinality(S \ {a}) = Cardinality(S) - 1

(* ... and of sums: they exist, a change of one weight changes them by the *)
(* difference, and those of no weight are zero.                            *)
SumLaws ==
    /\ \A w \in [1 .. MaxAccepted -> Nat] : \E f : PartialSums(f, w, MaxAccepted)
    /\ \A a \in 1 .. MaxAccepted : \A w, v \in [1 .. MaxAccepted -> Nat] :
         (\A n \in 1 .. MaxAccepted : n # a => v[n] = w[n]) =>
            \A f, g : PartialSums(f, w, MaxAccepted) /\ PartialSums(g, v, MaxAccepted) =>
               /\ f[MaxAccepted] \in Nat /\ g[MaxAccepted] \in Nat
               /\ g[MaxAccepted] - v[a] = f[MaxAccepted] - w[a]
    /\ \A w, f :
         PartialSums(f, w, MaxAccepted) /\ (\A n \in 1 .. MaxAccepted : w[n] = 0) =>
            f[MaxAccepted] = 0

(* They are proved at the end, with the library's theorems, which the      *)
(* obligations before need not carry.                                      *)
Laws == CountLaws /\ SumLaws

(* So is this one. *)
LeastLaw == \A T \in SUBSET Nat : T # {} => \E x \in T : \A y \in T : x <= y

-----------------------------------------------------------------------------
(* Induction over the naturals, and sums. *)

(* Induction over the naturals up to a bound, for a set instead of a       *)
(* predicate.                                                              *)
LEMMA UpTo ==
    ASSUME LeastLaw, NEW m \in Nat, NEW S, 0 \in S, \A n \in 0 .. m - 1 : n \in S => n + 1 \in S
    PROVE  0 .. m \subseteq S
<1> SUFFICES ASSUME (0 .. m) \ S # {} PROVE FALSE
  OBVIOUS
<1>1. PICK x \in (0 .. m) \ S : \A y \in (0 .. m) \ S : x <= y
  <2>1. (0 .. m) \ S \subseteq Nat
    OBVIOUS
  <2> QED
    BY <2>1, Zenon DEF LeastLaw
<1>2. x # 0 /\ x - 1 \in 0 .. m - 1 /\ x - 1 \in 0 .. m
  BY <1>1
<1>3. x - 1 \in S
  BY <1>1, <1>2
<1> QED
  BY <1>1, <1>2, <1>3

(* The partial sums of a sequence of weights exist ... *)
LEMMA SumsExist ==
    ASSUME LeastLaw, NEW m \in Nat, NEW w \in [1 .. m -> Nat]
    PROVE  \E f \in [0 .. m -> Nat] : PartialSums(f, w, m)
<1> DEFINE Sums(k, f) == \A n \in 0 .. k : f[n] = IF n = 0 THEN 0 ELSE f[n - 1] + w[n]
           S == {k \in 0 .. m : \E f \in [0 .. k -> Nat] : Sums(k, f)}
<1>1. 0 \in S
  <2>1. [n \in 0 .. 0 |-> 0] \in [0 .. 0 -> Nat]
    OBVIOUS
  <2>2. Sums(0, [n \in 0 .. 0 |-> 0])
    OBVIOUS
  <2>3. 0 \in 0 .. m
    OBVIOUS
  <2> QED
    BY <2>1, <2>2, <2>3, Zenon
<1>2. ASSUME NEW k \in 0 .. m - 1, k \in S PROVE k + 1 \in S
  <2>1. PICK f \in [0 .. k -> Nat] : Sums(k, f)
    BY <1>2
  <2> DEFINE g == [n \in 0 .. k + 1 |-> IF n = k + 1 THEN f[k] + w[k + 1] ELSE f[n]]
  <2>2. f[k] + w[k + 1] \in Nat
    BY <1>2
  <2>3. g \in [0 .. k + 1 -> Nat]
    BY <1>2, <2>2
  <2>4. Sums(k + 1, g)
    <3> SUFFICES ASSUME NEW n \in 0 .. k + 1
                 PROVE  g[n] = IF n = 0 THEN 0 ELSE g[n - 1] + w[n]
      BY Zenon
    <3>1. CASE n = k + 1
      BY <3>1
    <3>2. CASE n # k + 1
      <4>1. n \in 0 .. k
        BY <3>2
      <4>2. f[n] = IF n = 0 THEN 0 ELSE f[n - 1] + w[n]
        BY <2>1, <4>1, Zenon
      <4> QED
        BY <3>2, <4>1, <4>2
    <3> QED
      BY <3>1, <3>2, Zenon
  <2>5. k + 1 \in 0 .. m
    BY <1>2
  <2> QED
    BY <2>3, <2>4, <2>5, Zenon
<1> HIDE DEF S
<1>3. m \in S
  <2>1. 0 .. m \subseteq S
    BY <1>1, <1>2, UpTo, Zenon
  <2> QED
    BY <2>1
<1>4. PICK f \in [0 .. m -> Nat] : Sums(m, f)
  BY <1>3, Zenon DEF S
<1>5. f = [n \in 0 .. m |-> f[n]]
  BY Zenon
<1>6. f = [n \in 0 .. m |-> IF n = 0 THEN 0 ELSE f[n - 1] + w[n]]
  BY <1>4, <1>5, Zenon
<1> QED
  BY <1>6, Zenon DEF PartialSums

(* ... and changing one weight changes the total by the difference. *)
LEMMA SumsChange ==
    ASSUME LeastLaw, NEW m \in Nat, NEW a \in 1 .. m
    PROVE  \A w, v \in [1 .. m -> Nat] :
             (\A n \in 1 .. m : n # a => v[n] = w[n]) =>
                \A f, g : PartialSums(f, w, m) /\ PartialSums(g, v, m) =>
                   f[m] \in Nat /\ g[m] \in Nat /\ g[m] - v[a] = f[m] - w[a]
<1> SUFFICES ASSUME NEW w \in [1 .. m -> Nat], NEW v \in [1 .. m -> Nat],
                    \A n \in 1 .. m : n # a => v[n] = w[n]
             PROVE  \A f, g : PartialSums(f, w, m) /\ PartialSums(g, v, m) =>
                       f[m] \in Nat /\ g[m] \in Nat /\ g[m] - v[a] = f[m] - w[a]
  BY Zenon
<1> TAKE f, g
<1> HAVE PartialSums(f, w, m) /\ PartialSums(g, v, m)
<1> DEFINE S == {n \in 0 .. m : /\ f[n] \in Nat /\ g[n] \in Nat
                                /\ n < a => g[n] = f[n]
                                /\ a <= n => g[n] - v[a] = f[n] - w[a]}
<1>1. \A n \in 0 .. m : f[n] = IF n = 0 THEN 0 ELSE f[n - 1] + w[n]
  BY Zenon DEF PartialSums
<1>2. \A n \in 0 .. m : g[n] = IF n = 0 THEN 0 ELSE g[n - 1] + v[n]
  BY Zenon DEF PartialSums
<1>3. 0 \in S
  BY <1>1, <1>2
<1>4. ASSUME NEW k \in 0 .. m - 1, k \in S PROVE k + 1 \in S
  <2>1. k + 1 \in 1 .. m /\ k + 1 \in 0 .. m /\ k + 1 # 0 /\ (k + 1) - 1 = k
    OBVIOUS
  <2>2. f[k + 1] = f[k] + w[k + 1] /\ g[k + 1] = g[k] + v[k + 1]
    BY <1>1, <1>2, <2>1
  <2>3. /\ w[k + 1] \in Nat /\ v[k + 1] \in Nat /\ w[a] \in Nat /\ v[a] \in Nat
        /\ k + 1 # a => v[k + 1] = w[k + 1]
    BY <2>1
  <2>4. /\ f[k] \in Nat /\ g[k] \in Nat
        /\ k < a => g[k] = f[k]
        /\ a <= k => g[k] - v[a] = f[k] - w[a]
    BY <1>4
  <2>5. f[k + 1] \in Nat /\ g[k + 1] \in Nat
    <3>1. \A x, y \in Nat : x + y \in Nat
      OBVIOUS
    <3> QED
      BY <2>2, <2>3, <2>4, <3>1, Zenon
  <2>6. k + 1 < a => g[k + 1] = f[k + 1]
    <3>1. k + 1 < a => k < a /\ k + 1 # a
      OBVIOUS
    <3> QED
      BY <2>2, <2>3, <2>4, <3>1, Zenon
  <2>7. a <= k + 1 => g[k + 1] - v[a] = f[k + 1] - w[a]
    <3>1. CASE k + 1 = a
      <4>1. g[k] = f[k]
        BY <2>4, <3>1
      <4>2. g[k + 1] = f[k] + v[a] /\ f[k + 1] = f[k] + w[a]
        BY <2>2, <3>1, <4>1, Zenon
      <4>3. \A x, p, q \in Nat : (x + p) - p = (x + q) - q
        OBVIOUS
      <4> QED
        <5>1. f[k] \in Nat
          BY <2>4, Zenon
        <5>2. v[a] \in Nat /\ w[a] \in Nat
          BY <2>3, Zenon
        <5>3. (f[k] + v[a]) - v[a] = (f[k] + w[a]) - w[a]
          BY <4>3, <5>1, <5>2, Zenon
        <5> QED
          BY <4>2, <5>3, Zenon
    <3>2. CASE k + 1 # a
      <4>1. a <= k + 1 => a <= k
        BY <3>2
      <4>2. g[k + 1] = g[k] + w[k + 1]
        BY <2>2, <2>3, <3>2, Zenon
      <4>3. \A x, y, c, p, q \in Nat : x - p = y - q => (x + c) - p = (y + c) - q
        OBVIOUS
      <4>4. a <= k + 1 => g[k] - v[a] = f[k] - w[a]
        BY <2>4, <4>1, Zenon
      <4>5. g[k] - v[a] = f[k] - w[a] =>
                (g[k] + w[k + 1]) - v[a] = (f[k] + w[k + 1]) - w[a]
        <5>1. g[k] \in Nat /\ f[k] \in Nat
          BY <2>4, Zenon
        <5>2. v[a] \in Nat /\ w[a] \in Nat /\ w[k + 1] \in Nat
          BY <2>3, Zenon
        <5>3. \A c, p, q \in Nat : g[k] - p = f[k] - q => (g[k] + c) - p = (f[k] + c) - q
          BY <4>3, <5>1, Zenon
        <5> QED
          BY <5>2, <5>3, Zenon
      <4> QED
        BY <2>2, <4>2, <4>4, <4>5, Zenon
    <3> QED
      BY <3>1, <3>2, Zenon
  <2> QED
    BY <2>1, <2>5, <2>6, <2>7, Zenon
<1> HIDE DEF S
<1>5. m \in S
  <2>1. 0 .. m \subseteq S
    BY <1>3, <1>4, UpTo, Zenon
  <2> QED
    BY <2>1
<1> QED
  BY <1>5 DEF S

(* Weights that are all zero sum to zero. *)
LEMMA SumsZero ==
    ASSUME LeastLaw, NEW m \in Nat, NEW w, NEW f, PartialSums(f, w, m), \A n \in 1 .. m : w[n] = 0
    PROVE  f[m] = 0
<1> DEFINE S == {n \in 0 .. m : f[n] = 0}
<1>1. \A n \in 0 .. m : f[n] = IF n = 0 THEN 0 ELSE f[n - 1] + w[n]
  BY Zenon DEF PartialSums
<1>2. 0 \in S
  BY <1>1
<1>3. ASSUME NEW k \in 0 .. m - 1, k \in S PROVE k + 1 \in S
  <2>1. k + 1 \in 1 .. m /\ k + 1 \in 0 .. m /\ k + 1 # 0 /\ (k + 1) - 1 = k
    OBVIOUS
  <2>2. f[k + 1] = f[k] + w[k + 1] /\ w[k + 1] = 0 /\ f[k] = 0
    BY <1>1, <1>3, <2>1
  <2> QED
    BY <2>1, <2>2
<1> HIDE DEF S
<1>4. m \in S
  <2>1. 0 .. m \subseteq S
    BY <1>2, <1>3, UpTo, Zenon
  <2> QED
    BY <2>1
<1> QED
  BY <1>4 DEF S

-----------------------------------------------------------------------------
(* The constants, one by one. *)
LEMMA Sizes ==
    /\ MaxAccepted \in Nat /\ Actions = 1 .. MaxAccepted
    /\ Cost \in [Actions -> Nat \ {0}]
    /\ IdentityCharge \in Nat /\ MaxActions \in Nat /\ MaxQueueBytes \in Nat
    /\ MaxTotalBytes \in Nat
    /\ IdentityCharge <= MaxQueueBytes /\ MaxQueueBytes <= MaxTotalBytes
BY SizesAssumption DEF Actions

LEMMA ActionsNat == Actions \subseteq Nat \ {0} /\ MaxAccepted \in Nat
BY Sizes

-----------------------------------------------------------------------------
(* What the steps do, without the sequence operations. *)

(* An accepted call joins the tail of the list; it runs at once when the   *)
(* queue was idle.                                                         *)
LEMMA AcceptFacts ==
    ASSUME TypeQueue, CascadeShape, NEW a \in Actions, NEW kind, Accept(a, kind)
    PROVE  /\ list' \in Seq(Actions) /\ Len(list') = Len(list) + 1
           /\ \A i \in 1 .. Len(list) : list'[i] = list[i]
           /\ list'[Len(list) + 1] = a
           /\ stage' = [b \in Actions |->
                          IF b = a THEN IF active THEN "queued" ELSE "submitted"
                          ELSE stage[b]]
<1> USE ActionsNat
<1>1. list \in Seq(Actions) /\ list' = Append(list, a) /\ stage' = StagedBy(a)
  BY Zenon DEF TypeQueue, Accept, Pushed
<1>2. /\ list' \in Seq(Actions) /\ Len(list') = Len(list) + 1
      /\ \A i \in 1 .. Len(list) : list'[i] = list[i]
      /\ list'[Len(list) + 1] = a
  BY <1>1
<1>3. ~active => Head(Pushed(a)) = a
  BY <1>1 DEF CascadeShape, Pushed
<1>4. active => stage' = [b \in Actions |-> IF b = a THEN "queued" ELSE stage[b]]
  BY <1>1, Zenon DEF StagedBy
<1>5. ~active => stage' = [b \in Actions |-> IF b = a THEN "submitted" ELSE stage[b]]
  BY <1>1, <1>3 DEF StagedBy
<1> QED
  BY <1>2, <1>4, <1>5, Zenon

(* The kinds of work that calls become. *)
Kinds == {"message", "edit", "followup", "defer", "modal", "delete"}

(* The work of a call is one of the known states. *)
LEMMA WorkType ==
    ASSUME TypeFlow, NEW kind \in Kinds
    PROVE  Work(kind) \in Works
<1>1. projected.state \in FlowStates /\ projected.original \in BOOLEAN
  BY DEF TypeFlow, FlowView
<1>2. Work(kind).initial \in BOOLEAN /\ Work(kind).queued \in FlowStates
  BY DEF Work, Initial, FlowStates
<1>3. Work(kind).state \in FlowStates
  BY <1>1 DEF Work, FlowStates, Kinds
<1>4. Work(kind).original \in BOOLEAN
  BY <1>1, Zenon DEF Work, Kinds
<1> QED
  BY <1>2, <1>3, <1>4, Zenon DEF Work, Works

LEMMA AcceptType ==
    ASSUME TypeOK, CascadeShape, NEW a \in Actions, a = accepted + 1,
           NEW kind \in Kinds, Accept(a, kind)
    PROVE  /\ list' \in Seq(Actions)
           /\ active' \in BOOLEAN /\ failed' \in BOOLEAN /\ initial_admitted' \in BOOLEAN
           /\ projected' \in FlowView
           /\ accepted' \in 0 .. MaxAccepted
           /\ act' \in [Actions -> Works]
           /\ stage' \in [Actions -> Stages]
           /\ reserved' \in Nat /\ action_count' \in Nat /\ total' \in Nat
<1> USE ActionsNat
<1>1. list' \in Seq(Actions) /\ stage' \in [Actions -> Stages]
  <2>1. stage \in [Actions -> Stages] /\ "queued" \in Stages /\ "submitted" \in Stages
    BY DEF TypeOK, TypeQueue, Stages
  <2>2. /\ list' \in Seq(Actions)
        /\ stage' = [b \in Actions |->
                       IF b = a THEN IF active THEN "queued" ELSE "submitted"
                       ELSE stage[b]]
    BY AcceptFacts, Zenon DEF TypeOK
  <2> QED
    BY <2>1, <2>2
<1>2. Work(kind) \in Works
  BY WorkType, Zenon DEF TypeOK
<1>3. projected' \in FlowView
  <2>1. projected' = [state |-> Work(kind).state, original |-> Work(kind).original]
    BY Zenon DEF Accept
  <2> QED
    BY <1>2, <2>1 DEF FlowView, Works
<1>4. act' \in [Actions -> Works]
  BY <1>2, Zenon DEF Accept, TypeOK, TypeFlow
<1>5. active' \in BOOLEAN /\ failed' \in BOOLEAN /\ initial_admitted' \in BOOLEAN
  BY DEF Accept, TypeOK, TypeFlow, NowAdmitted, Initial
<1>6. accepted' \in 0 .. MaxAccepted
  BY Sizes DEF Accept
<1>7. reserved' \in Nat /\ action_count' \in Nat /\ total' \in Nat
  <2>1. reserved \in Nat /\ action_count \in Nat /\ total \in Nat /\ Cost[a] \in Nat
    BY Sizes DEF TypeOK, TypeBytes
  <2> QED
    BY <2>1 DEF Accept, Reserve
<1> QED
  BY <1>1, <1>3, <1>4, <1>5, <1>6, <1>7, Zenon

-----------------------------------------------------------------------------
(* The action whose result was delivered is the head of the list, and what *)
(* follows it are the actions accepted after it.                           *)
LEMMA DeliveredIsHead ==
    ASSUME TypeQueue, ListShape, StageShape, NEW a \in Actions, stage[a] = "delivered"
    PROVE  /\ Len(list) >= 1 /\ a = First /\ accepted = a + Len(list) - 1
           /\ Unlink(a) \in Seq(Actions) /\ Len(Unlink(a)) = accepted - a
           /\ \A i \in 1 .. accepted - a : Unlink(a)[i] = a + i
           /\ Unlink(a) = <<>> <=> a = accepted
           /\ Unlink(a) # <<>> => Head(Unlink(a)) = a + 1
<1> USE ActionsNat
<1>1. list \in Seq(Actions) /\ Len(list) \in Nat /\ accepted \in Nat
  BY DEF TypeQueue
<1>2. Listed(a) /\ a = First
  BY Zenon DEF StageShape, StageOf
<1>3. Len(list) >= 1 /\ accepted = a + Len(list) - 1
  BY <1>1, <1>2 DEF Listed, First
<1>4. list[1] = a /\ list # <<>> /\ Head(list) = a
  BY <1>1, <1>3 DEF ListShape
<1>5. Unlink(a) = Tail(list)
  BY <1>4, Zenon DEF Unlink
<1>6. /\ Tail(list) \in Seq(Actions) /\ Len(Tail(list)) = Len(list) - 1
      /\ \A i \in 1 .. Len(list) - 1 : Tail(list)[i] = list[i + 1]
  BY <1>1, <1>3
<1>7. Len(Unlink(a)) = accepted - a
  BY <1>1, <1>3, <1>5, <1>6
<1>8. \A i \in 1 .. accepted - a : Unlink(a)[i] = a + i
  BY <1>1, <1>3, <1>5, <1>6 DEF ListShape
<1>9. Unlink(a) \in Seq(Actions)
  BY <1>5, <1>6, Zenon
<1> HIDE DEF Unlink
<1>10. Unlink(a) = <<>> <=> a = accepted
  BY <1>1, <1>7, <1>9
<1>11. Unlink(a) # <<>> => Head(Unlink(a)) = a + 1
  BY <1>1, <1>7, <1>8, <1>9, <1>10
<1> QED
  BY <1>2, <1>3, <1>7, <1>8, <1>9, <1>10, <1>11, Zenon

(* What the first critical section of the post-hook of a does: the failure *)
(* of a or of the start of its successor detaches the actions after a ...  *)
Detached(a) ==
    /\ failed' = TRUE /\ list' = <<>>
    /\ active' \in BOOLEAN /\ (active' <=> a < accepted)
    /\ stage' = [b \in Actions |->
                   IF b = a THEN "hook"
                   ELSE IF a < b /\ b <= accepted THEN "dependent" ELSE stage[b]]
    /\ \E s \in {"STATE", "CANCELED", "REJECTED"}, deps \in Seq(Actions) :
          /\ Len(deps) = accepted - a
          /\ \A i \in 1 .. accepted - a : deps[i] = a + i
          /\ hook' = [hook EXCEPT ![a] = [deps |-> deps, answer |-> s,
                                          cascade |-> active']]

(* ... and otherwise its successor, if it has one, starts. *)
Advanced(a) ==
    /\ status[a] = "OK" /\ failed = FALSE /\ failed' = FALSE
    /\ list' \in Seq(Actions) /\ Len(list') = accepted - a
    /\ \A i \in 1 .. accepted - a : list'[i] = a + i
    /\ active' \in BOOLEAN /\ (active' <=> a < accepted)
    /\ hook' = [hook EXCEPT ![a] = NoHook]
    /\ stage' = [b \in Actions |->
                   IF b = a THEN "hook"
                   ELSE IF a < accepted /\ b = a + 1 THEN "submitted" ELSE stage[b]]

LEMMA PostResultFacts ==
    ASSUME TypeOK, ListShape, TermShape, StageShape, FailShape, CascadeShape,
           NEW a \in Actions, PostResult(a)
    PROVE  Detached(a) \/ Advanced(a)
<1> USE ActionsNat
<1>1. stage[a] = "delivered"
  BY Zenon DEF PostResult
<1>2. /\ Len(list) >= 1 /\ a = First /\ accepted = a + Len(list) - 1
      /\ Unlink(a) \in Seq(Actions) /\ Len(Unlink(a)) = accepted - a
      /\ \A i \in 1 .. accepted - a : Unlink(a)[i] = a + i
      /\ Unlink(a) = <<>> <=> a = accepted
      /\ Unlink(a) # <<>> => Head(Unlink(a)) = a + 1
  BY <1>1, DeliveredIsHead, Zenon DEF TypeOK
<1>3. /\ accepted \in Nat /\ a \in Nat /\ a <= accepted /\ failed \in BOOLEAN
      /\ stage \in [Actions -> Stages]
  BY <1>2 DEF TypeOK, TypeQueue, TypeFlow
<1>4. status[a] # "OK" => failed = TRUE
  BY <1>1, <1>3, Zenon DEF StageShape, StageOf, FailShape
<1>5. status[a] = "OK" => failed = FALSE
  <2>1. list # <<>>
    BY <1>2 DEF TypeOK, TypeQueue
  <2> QED
    BY <1>2, <1>3, <2>1, Zenon DEF FailShape
<1> HIDE DEF Unlink, First
<1>6. \A b \in Actions : (\E i \in 1 .. Len(Unlink(a)) : Unlink(a)[i] = b)
                           <=> a < b /\ b <= accepted
  <2> SUFFICES ASSUME NEW b \in Actions
               PROVE  (\E i \in 1 .. Len(Unlink(a)) : Unlink(a)[i] = b)
                           <=> a < b /\ b <= accepted
    BY Zenon
  <2>1. ASSUME NEW i \in 1 .. Len(Unlink(a)), Unlink(a)[i] = b
        PROVE  a < b /\ b <= accepted
    BY <1>2, <1>3, <2>1
  <2>2. ASSUME a < b, b <= accepted
        PROVE  \E i \in 1 .. Len(Unlink(a)) : Unlink(a)[i] = b
    <3>1. b - a \in 1 .. accepted - a /\ a + (b - a) = b
      BY <1>3, <2>2
    <3>2. b - a \in 1 .. Len(Unlink(a)) /\ Unlink(a)[b - a] = a + (b - a)
      BY <1>2, <3>1, Zenon
    <3> QED
      BY <3>1, <3>2, Zenon
  <2> QED
    BY <2>1, <2>2, Zenon
<1>7. Unlink(a) # <<>> <=> a < accepted
  BY <1>2, <1>3
<1>8. ASSUME NEW s \in {"STATE", "CANCELED", "REJECTED"}, failed' = TRUE,
             Detach(a, Unlink(a), s)
      PROVE  Detached(a)
  <2>1. list' = <<>> /\ active' = (Unlink(a) # <<>>)
    BY <1>8, Zenon DEF Detach
  <2>2. hook' = [hook EXCEPT ![a] = [deps |-> Unlink(a), answer |-> s,
                                     cascade |-> active']]
    BY <1>8, Zenon DEF Detach
  <2>3. stage' = [b \in Actions |->
                    IF b = a THEN "hook"
                    ELSE IF a < b /\ b <= accepted THEN "dependent" ELSE stage[b]]
    BY <1>6, <1>8, Zenon DEF Detach
  <2> QED
    BY <1>2, <1>7, <1>8, <2>1, <2>2, <2>3, Zenon DEF Detached
<1>9. CASE PostResultFails(a)
  <2>1. failed' = TRUE
    BY <1>4, <1>9, Zenon DEF PostResultFails
  <2>2. \E s \in {"STATE", "CANCELED", "REJECTED"} : Detach(a, Unlink(a), s)
    BY <1>9, Zenon DEF PostResultFails
  <2> QED
    BY <1>8, <2>1, <2>2, Zenon
<1>10. CASE PostResultRefused(a)
  <2>1. \E s \in {"STATE", "CANCELED", "REJECTED"} : Detach(a, Unlink(a), s)
    BY <1>10, Zenon DEF PostResultRefused, SubmitHeadRefusals
  <2> QED
    BY <1>8, <1>10, <2>1, Zenon DEF PostResultRefused
<1>11. CASE PostResultIdle(a)
  <2>1. a = accepted /\ ~(a < accepted)
    BY <1>2, <1>3, <1>5, <1>11 DEF PostResultIdle
  <2>2. stage' = [b \in Actions |-> IF b = a THEN "hook" ELSE stage[b]]
    BY <1>3, <1>11, Zenon DEF PostResultIdle
  <2>3. stage' = [b \in Actions |->
                    IF b = a THEN "hook"
                    ELSE IF a < accepted /\ b = a + 1 THEN "submitted" ELSE stage[b]]
    BY <2>1, <2>2, Zenon
  <2>4. /\ status[a] = "OK" /\ list' = Unlink(a)
        /\ active' \in BOOLEAN /\ (active' <=> a < accepted)
        /\ hook' = [hook EXCEPT ![a] = NoHook] /\ failed' = failed
    BY <1>11, <2>1, Zenon DEF PostResultIdle
  <2> QED
    BY <1>2, <1>5, <2>3, <2>4, Zenon DEF Advanced
<1>12. CASE PostResultStarts(a)
  <2>1. a < accepted /\ Head(Unlink(a)) = a + 1 /\ a + 1 \in Actions /\ a + 1 # a
    <3>1. Unlink(a) # <<>>
      BY <1>12, Zenon DEF PostResultStarts
    <3>2. a < accepted /\ Head(Unlink(a)) = a + 1
      BY <1>2, <1>7, <3>1, Zenon
    <3>3. accepted \in 0 .. MaxAccepted
      BY Zenon DEF TypeOK, TypeQueue
    <3>4. a + 1 \in Actions /\ a + 1 # a
      BY <1>3, <3>2, <3>3, Sizes, SMTT(30)
    <3> QED
      BY <3>2, <3>4, Zenon
  <2>2. stage' = [stage EXCEPT ![a] = "hook", ![a + 1] = "submitted"]
    BY <1>12, <2>1, Zenon DEF PostResultStarts
  <2>3. stage' = [b \in Actions |->
                    IF b = a THEN "hook"
                    ELSE IF a < accepted /\ b = a + 1 THEN "submitted" ELSE stage[b]]
    BY <1>3, <2>1, <2>2, Zenon
  <2>4. /\ status[a] = "OK" /\ list' = Unlink(a)
        /\ active' \in BOOLEAN /\ (active' <=> a < accepted)
        /\ hook' = [hook EXCEPT ![a] = NoHook] /\ failed' = failed
    BY <1>12, <2>1, Zenon DEF PostResultStarts
  <2> QED
    BY <1>2, <1>5, <2>3, <2>4, Zenon DEF Advanced
<1> QED
  BY <1>9, <1>10, <1>11, <1>12, Zenon DEF PostResult

-----------------------------------------------------------------------------
(* The shape of the queue is kept by every step that touches it. *)

LEMMA Numbers ==
    ASSUME TypeQueue
    PROVE  /\ accepted \in Nat /\ accepted <= MaxAccepted
           /\ Len(list) \in Nat /\ Len(terminals) \in Nat
           /\ list = <<>> <=> Len(list) = 0
           /\ \A a \in Actions : /\ stage[a] \in Stages /\ Len(hook[a].deps) \in Nat
                                 /\ hook[a].deps = <<>> <=> Len(hook[a].deps) = 0
<1>1. /\ accepted \in Nat /\ accepted <= MaxAccepted
      /\ Len(list) \in Nat /\ Len(terminals) \in Nat
      /\ list = <<>> <=> Len(list) = 0
  BY Sizes DEF TypeQueue
<1>2. ASSUME NEW a \in Actions
      PROVE  /\ stage[a] \in Stages /\ Len(hook[a].deps) \in Nat
             /\ hook[a].deps = <<>> <=> Len(hook[a].deps) = 0
  <2>1. hook[a].deps \in Seq(Actions) /\ stage[a] \in Stages
    BY DEF TypeQueue
  <2> QED
    BY <2>1
<1> QED
  BY <1>1, <1>2, Zenon

LEMMA ShapesAccept ==
    ASSUME TypeOK, Shapes, NEW a \in Actions, a = accepted + 1, NEW kind, Accept(a, kind),
           UNCHANGED <<status, terminals, hook>>
    PROVE  Shapes'
<1> USE ActionsNat
<1>1. TypeQueue /\ ListShape /\ TermShape /\ StageShape /\ CascadeShape /\ FailShape
  BY Zenon DEF TypeOK, Shapes
<1>2. /\ list' \in Seq(Actions) /\ Len(list') = Len(list) + 1
      /\ \A i \in 1 .. Len(list) : list'[i] = list[i]
      /\ list'[Len(list) + 1] = a
      /\ stage' = [b \in Actions |->
                     IF b = a THEN IF active THEN "queued" ELSE "submitted"
                     ELSE stage[b]]
  BY <1>1, AcceptFacts, Zenon
<1>3. accepted' = a /\ active' = TRUE /\ failed' = failed /\ ~failed
      /\ status' = status /\ terminals' = terminals /\ hook' = hook
  BY DEF Accept, Allowed
<1>4. /\ accepted \in Nat /\ Len(list) \in Nat /\ Len(terminals) \in Nat
      /\ list = <<>> <=> Len(list) = 0
  BY <1>1, Numbers, Zenon
<1>5. \A b \in Actions : ~Cascading(b) /\ stage[b] \notin {"dependent", "finalized"}
  BY <1>1, <1>3, Zenon DEF CascadeShape, CascadeOf
<1>6. active <=> Len(list) # 0
  BY <1>1, <1>4, <1>5, Zenon DEF CascadeShape
<1>7. ListShape'
  BY <1>1, <1>2, <1>3, <1>4 DEF ListShape
<1>8. TermShape'
  BY <1>1, <1>3, <1>4 DEF TermShape
<1>9. StageShape'
  <2> SUFFICES ASSUME NEW b \in Actions PROVE StageOf(b)'
    BY Zenon DEF StageShape
  <2>1. StageOf(b)
    BY <1>1, Zenon DEF StageShape
  <2>2. b \in Nat /\ b # 0
    OBVIOUS
  <2>3. Len(terminals) <= accepted
    BY <1>1, Zenon DEF TermShape
  <2>4. CASE b = a
    <3>1. stage'[b] = IF Len(list) # 0 THEN "queued" ELSE "submitted"
      BY <1>2, <1>6, <2>4, Zenon
    <3>2. status[b] = None
      BY <1>3, <1>4, <2>1, <2>3, <2>4 DEF StageOf
    <3> QED
      BY <1>2, <1>3, <1>4, <2>2, <2>3, <2>4, <3>1, <3>2 DEF StageOf, Listed, First
  <2>5. CASE b # a
    <3>1. stage'[b] = stage[b]
      BY <1>2, <2>5, Zenon
    <3> QED
      BY <1>2, <1>3, <1>4, <2>1, <2>2, <2>3, <2>5, <3>1 DEF StageOf, Listed, First
  <2> QED
    BY <2>4, <2>5, Zenon
<1>10. CascadeShape'
  <2>1. \A b \in Actions : ~Cascading(b)' /\ stage'[b] \notin {"dependent", "finalized"}
    BY <1>2, <1>3, <1>5 DEF Cascading
  <2>2. list' # <<>>
    BY <1>2, <1>4
  <2> QED
    BY <1>1, <1>3, <1>5, <2>1, <2>2, Zenon DEF CascadeShape
<1>11. FailShape'
  BY <1>1, <1>3, Zenon DEF FailShape
<1> QED
  BY <1>7, <1>8, <1>9, <1>10, <1>11, Zenon DEF Shapes

(* A terminal result, in plain terms. *)
LEMMA ResultFacts ==
    ASSUME TypeOK, NEW a \in Actions, NEW s \in Outcomes, Result(a, s)
    PROVE  /\ status' = [b \in Actions |-> IF b = a THEN s ELSE status[b]]
           /\ s # None
           /\ terminals' \in Seq(Actions) /\ Len(terminals') = Len(terminals) + 1
           /\ \A i \in 1 .. Len(terminals) : terminals'[i] = terminals[i]
           /\ terminals'[Len(terminals) + 1] = a
           /\ failed' = IF s = "OK" THEN failed ELSE TRUE
<1>1. /\ status \in [Actions -> Outcomes \cup {None}] /\ terminals \in Seq(Actions)
      /\ s # None
  BY NoneAssumption, Zenon DEF TypeOK, TypeQueue
<1>2. /\ status' = [status EXCEPT ![a] = s] /\ terminals' = Append(terminals, a)
      /\ failed' = IF s = "OK" THEN failed ELSE TRUE
  BY Zenon DEF Result
<1>3. status' = [b \in Actions |-> IF b = a THEN s ELSE status[b]]
  BY <1>1, <1>2, Zenon
<1>4. /\ terminals' \in Seq(Actions) /\ Len(terminals') = Len(terminals) + 1
      /\ \A i \in 1 .. Len(terminals) : terminals'[i] = terminals[i]
      /\ terminals'[Len(terminals) + 1] = a
  BY <1>1, <1>2
<1> QED
  BY <1>1, <1>2, <1>3, <1>4, Zenon

(* The terminal results are given in the order of acceptance: all before   *)
(* the submitted action have theirs.                                       *)
LEMMA SubmittedIsNext ==
    ASSUME TypeOK, Shapes, NEW a \in Actions, stage[a] = "submitted"
    PROVE  /\ Len(terminals) = a - 1 /\ a = First /\ Listed(a) /\ list # <<>> /\ ~failed
           /\ \A b \in Actions : ~Cascading(b) /\ stage[b] \notin {"dependent", "finalized"}
<1> USE ActionsNat
<1>1. TypeQueue /\ ListShape /\ TermShape /\ StageShape /\ CascadeShape /\ FailShape
  BY Zenon DEF TypeOK, Shapes
<1>2. /\ accepted \in Nat /\ Len(list) \in Nat /\ Len(terminals) \in Nat
      /\ list = <<>> <=> Len(list) = 0
      /\ \A b \in Actions : stage[b] \in Stages
  BY <1>1, Numbers, Zenon
<1>3. Listed(a) /\ a = First
  BY <1>1, Zenon DEF StageShape, StageOf
<1>4. list # <<>>
  BY <1>2, <1>3 DEF Listed, First
<1>5. \A b \in Actions : ~Cascading(b) /\ stage[b] \notin {"dependent", "finalized"}
  BY <1>1, <1>4, Zenon DEF CascadeShape, CascadeOf
<1>6. ~failed
  BY <1>1, <1>3, <1>4 DEF FailShape
<1>7. Len(terminals) < a
  BY <1>1, <1>2 DEF StageShape, StageOf
<1>8. CASE a = 1
  BY <1>2, <1>7, <1>8, <1>3, <1>4, <1>5, <1>6
<1>9. CASE a # 1
  <2>1. a - 1 \in Actions
    BY <1>9, Sizes
  <2>2. stage[a - 1] \notin {"submitted", "delivered", "queued", "unused"}
    BY <1>1, <1>2, <1>3, <2>1 DEF StageShape, StageOf, Listed, First
  <2>3. stage[a - 1] \in {"hook", "done"}
    BY <1>2, <1>5, <2>1, <2>2 DEF Stages
  <2>4. a - 1 <= Len(terminals)
    BY <1>1, <2>1, <2>3, Zenon DEF StageShape, StageOf
  <2>5. Len(terminals) = a - 1
    BY <1>2, <1>7, <2>4
  <2> QED
    BY <1>3, <1>4, <1>5, <1>6, <2>5, Zenon
<1> QED
  BY <1>8, <1>9, Zenon

LEMMA ShapesDeliver ==
    ASSUME TypeOK, Shapes, NEW a \in Actions, Deliver(a)
    PROVE  Shapes'
<1> USE ActionsNat
<1>1. TypeQueue /\ ListShape /\ TermShape /\ StageShape /\ CascadeShape /\ FailShape
  BY Zenon DEF TypeOK, Shapes
<1>2. /\ accepted \in Nat /\ Len(list) \in Nat /\ Len(terminals) \in Nat
      /\ list = <<>> <=> Len(list) = 0
      /\ \A b \in Actions : stage[b] \in Stages
  BY <1>1, Numbers, Zenon
<1>3. stage[a] = "submitted"
  BY Zenon DEF Deliver
<1>4. /\ Len(terminals) = a - 1 /\ a = First /\ Listed(a) /\ list # <<>> /\ ~failed
      /\ \A b \in Actions : ~Cascading(b) /\ stage[b] \notin {"dependent", "finalized"}
  BY <1>3, SubmittedIsNext, Zenon
<1>5. PICK s \in Outcomes : Result(a, s)
  BY DEF Deliver, Outcomes
<1>6. /\ status' = [b \in Actions |-> IF b = a THEN s ELSE status[b]]
      /\ s # None
      /\ Len(terminals') = Len(terminals) + 1
      /\ \A i \in 1 .. Len(terminals) : terminals'[i] = terminals[i]
      /\ terminals'[Len(terminals) + 1] = a
      /\ failed' = IF s = "OK" THEN failed ELSE TRUE
  BY <1>5, ResultFacts, Zenon
<1>7. /\ list' = list /\ active' = active /\ accepted' = accepted /\ hook' = hook
      /\ stage' = [stage EXCEPT ![a] = "delivered"]
  BY Zenon DEF Deliver, works
<1>8. stage' = [b \in Actions |-> IF b = a THEN "delivered" ELSE stage[b]]
  BY <1>1, <1>7, Zenon DEF TypeQueue
<1>9. ListShape'
  BY <1>1, <1>7, Zenon DEF ListShape
<1>10. TermShape'
  <2>1. Len(terminals') <= accepted'
    BY <1>2, <1>4, <1>6, <1>7 DEF Listed
  <2>2. ASSUME NEW i \in 1 .. Len(terminals') PROVE terminals'[i] = i
    <3>1. CASE i = Len(terminals) + 1
      BY <1>2, <1>4, <1>6, <3>1
    <3>2. CASE i # Len(terminals) + 1
      BY <1>1, <1>2, <1>6, <3>2 DEF TermShape
    <3> QED
      BY <3>1, <3>2, Zenon
  <2> QED
    BY <2>1, <2>2, Zenon DEF TermShape
<1>11. StageShape'
  <2> SUFFICES ASSUME NEW b \in Actions PROVE StageOf(b)'
    BY Zenon DEF StageShape
  <2>1. StageOf(b) /\ StageOf(a)
    BY <1>1, Zenon DEF StageShape
  <2>2. First' = First /\ (Listed(b)' <=> Listed(b))
    BY <1>7, Zenon DEF First, Listed
  <2>3. CASE b = a
    <3>1. stage'[b] = "delivered" /\ status'[b] # None
      BY <1>6, <1>8, <2>3, Zenon
    <3>2. b <= Len(terminals') /\ ~(accepted' < b)
      BY <1>2, <1>4, <1>6, <1>7, <2>3 DEF Listed
    <3> QED
      BY <1>4, <2>2, <2>3, <3>1, <3>2 DEF StageOf
  <2>4. CASE b # a
    <3>1. stage'[b] = stage[b] /\ status'[b] = status[b]
      BY <1>6, <1>8, <2>4, Zenon
    <3>2. b <= Len(terminals') <=> b <= Len(terminals)
      BY <1>2, <1>4, <1>6, <2>4
    <3> QED
      BY <1>7, <2>1, <2>2, <3>1, <3>2, Zenon DEF StageOf
  <2> QED
    BY <2>3, <2>4, Zenon
<1>12. CascadeShape'
  <2>1. \A b \in Actions : ~Cascading(b)' /\ stage'[b] \notin {"dependent", "finalized"}
    BY <1>4, <1>7, <1>8 DEF Cascading
  <2> QED
    BY <1>1, <1>4, <1>7, <2>1, Zenon DEF CascadeShape
<1>13. FailShape'
  <2>1. ASSUME ~failed', NEW b \in Actions, b <= Len(terminals') PROVE status'[b] = "OK"
    <3>1. s = "OK"
      BY <1>6, <2>1, Zenon
    <3>2. b = a \/ b <= Len(terminals)
      BY <1>2, <1>4, <1>6, <2>1
    <3> QED
      BY <1>1, <1>4, <1>6, <3>1, <3>2, Zenon DEF FailShape
  <2>2. ASSUME failed' PROVE stage'[First'] = "delivered" /\ status'[First'] # "OK"
    <3>1. First' = a
      BY <1>4, <1>7, Zenon DEF First
    <3>2. s # "OK"
      BY <1>4, <1>6, <2>2, Zenon
    <3> QED
      BY <1>6, <1>8, <3>1, <3>2, Zenon
  <2> QED
    BY <2>1, <2>2, Zenon DEF FailShape
<1> QED
  BY <1>9, <1>10, <1>11, <1>12, <1>13, Zenon DEF Shapes

(* While an action is in REST's hands no dependents are being answered. *)
LEMMA DeliveredIsAlone ==
    ASSUME TypeOK, Shapes, NEW a \in Actions, stage[a] = "delivered"
    PROVE  /\ a = First /\ Listed(a) /\ list # <<>> /\ a <= Len(terminals)
           /\ a <= accepted /\ accepted = a + Len(list) - 1
           /\ \A b \in Actions : ~Cascading(b) /\ stage[b] \notin {"dependent", "finalized"}
<1> USE ActionsNat
<1>1. TypeQueue /\ ListShape /\ StageShape /\ CascadeShape
  BY Zenon DEF TypeOK, Shapes
<1>2. accepted \in Nat /\ Len(list) \in Nat /\ (list = <<>> <=> Len(list) = 0)
  BY <1>1, Numbers, Zenon
<1>3. Listed(a) /\ a = First /\ a <= Len(terminals)
  BY <1>1, Zenon DEF StageShape, StageOf
<1>4. list # <<>> /\ a <= accepted /\ accepted = a + Len(list) - 1
  BY <1>2, <1>3 DEF Listed, First
<1>5. \A b \in Actions : ~Cascading(b) /\ stage[b] \notin {"dependent", "finalized"}
  BY <1>1, <1>4, Zenon DEF CascadeShape, CascadeOf
<1> QED
  BY <1>3, <1>4, <1>5, Zenon

LEMMA ShapesDetached ==
    ASSUME TypeOK, Shapes, NEW a \in Actions, stage[a] = "delivered", Detached(a),
           UNCHANGED <<accepted, status, terminals>>
    PROVE  Shapes'
<1> USE ActionsNat
<1>1. TypeQueue /\ ListShape /\ TermShape /\ StageShape /\ CascadeShape /\ FailShape
  BY Zenon DEF TypeOK, Shapes
<1>2. /\ accepted \in Nat /\ Len(list) \in Nat /\ Len(terminals) \in Nat
      /\ \A b \in Actions : stage[b] \in Stages
  BY <1>1, Numbers, Zenon
<1>3. /\ a = First /\ a <= Len(terminals) /\ a <= accepted
      /\ \A b \in Actions : ~Cascading(b) /\ stage[b] \notin {"dependent", "finalized"}
  BY DeliveredIsAlone, Zenon
<1>4. /\ failed' = TRUE /\ list' = <<>>
      /\ active' \in BOOLEAN /\ (active' <=> a < accepted)
      /\ stage' = [b \in Actions |->
                   IF b = a THEN "hook"
                   ELSE IF a < b /\ b <= accepted THEN "dependent" ELSE stage[b]]
  BY Zenon DEF Detached
<1>5. PICK s \in {"STATE", "CANCELED", "REJECTED"}, deps \in Seq(Actions) :
          /\ Len(deps) = accepted - a
          /\ \A i \in 1 .. accepted - a : deps[i] = a + i
          /\ hook' = [hook EXCEPT ![a] = [deps |-> deps, answer |-> s,
                                          cascade |-> active']]
  BY Zenon DEF Detached
<1>6. /\ hook'[a].deps = deps /\ hook'[a].answer = s /\ hook'[a].cascade = active'
      /\ \A b \in Actions : b # a => hook'[b] = hook[b]
  BY <1>1, <1>5 DEF TypeQueue
<1>7. accepted' = accepted /\ status' = status /\ terminals' = terminals
  BY Zenon
<1>8. Len(list') = 0
  BY <1>4
<1>9. ListShape' /\ TermShape' /\ FailShape'
  BY <1>1, <1>2, <1>4, <1>7, <1>8 DEF ListShape, TermShape, FailShape
<1>10. StageShape'
  <2> SUFFICES ASSUME NEW b \in Actions PROVE StageOf(b)'
    BY Zenon DEF StageShape
  <2>1. StageOf(b)
    BY <1>1, Zenon DEF StageShape
  <2>2. ~Listed(b)'
    BY <1>2, <1>7, <1>8 DEF First, Listed
  <2>3. CASE b = a
    BY <1>2, <1>3, <1>4, <1>7, <2>1, <2>2, <2>3 DEF StageOf
  <2>4. CASE a < b /\ b <= accepted
    <3>1. stage[b] = "queued"
      BY <1>2, <1>3, <2>1, <2>4 DEF StageOf, Listed, First
    <3>2. stage'[b] = "dependent"
      BY <1>2, <1>4, <2>4
    <3> QED
      BY <1>2, <1>7, <2>1, <2>2, <2>4, <3>1, <3>2 DEF StageOf
  <2>5. CASE b # a /\ ~(a < b /\ b <= accepted)
    <3>1. stage'[b] = stage[b]
      BY <1>4, <2>5, Zenon
    <3>2. ~Listed(b)
      BY <1>2, <1>3, <2>5 DEF Listed, First
    <3> QED
      BY <1>7, <2>1, <2>2, <3>1, <3>2, Zenon DEF StageOf
  <2> QED
    BY <2>3, <2>4, <2>5, Zenon
<1>11. CascadeShape'
  <2>1. \A b \in Actions : b # a => ~Cascading(b)'
    BY <1>2, <1>3, <1>4, <1>6 DEF Cascading
  <2>2. stage'[a] = "hook"
    BY <1>4, Zenon
  <2>3. Cascading(a)' <=> a < accepted
    BY <1>4, <1>6, <2>2 DEF Cascading
  <2>4. \A b \in Actions : stage'[b] \in {"dependent", "finalized"} <=> a < b /\ b <= accepted
    BY <1>2, <1>3, <1>4
  <2>5. \A b \in Actions : stage'[b] # "finalized"
    BY <1>2, <1>3, <1>4
  <2>6. ASSUME a < accepted PROVE CascadeOf(a)'
    <3>1. /\ Len(deps) <= accepted /\ accepted - Len(deps) = a
      BY <1>2, <1>3, <1>5
    <3>2. \A i \in 1 .. Len(deps) : deps[i] = accepted - Len(deps) + i
      BY <1>5, <3>1, Zenon
    <3>3. \A b \in Actions : Owed(a, b)' <=> a < b /\ b <= accepted
      BY <1>6, <1>7, <3>1 DEF Owed
    <3> QED
      BY <1>4, <1>6, <1>7, <2>4, <2>5, <2>6, <3>1, <3>2, <3>3, Zenon DEF CascadeOf
  <2>7. \A b \in Actions : hook'[b].deps # <<>> => Cascading(b)'
    <3> SUFFICES ASSUME NEW b \in Actions, hook'[b].deps # <<>> PROVE Cascading(b)'
      BY Zenon
    <3>1. CASE b = a
      <4>1. deps # <<>>
        BY <1>6, <3>1, Zenon
      <4>2. Len(deps) # 0
        BY <4>1
      <4>3. a < accepted
        BY <1>2, <1>3, <1>5, <4>2
      <4> QED
        BY <2>3, <3>1, <4>3, Zenon
    <3>2. CASE b # a
      BY <1>1, <1>3, <1>6, <3>2, Zenon DEF CascadeShape
    <3> QED
      BY <3>1, <3>2, Zenon
  <2>8. \A b \in Actions : stage'[b] \in {"dependent", "finalized"} =>
                              \E c \in Actions : Cascading(c)'
    <3> SUFFICES ASSUME NEW b \in Actions, stage'[b] \in {"dependent", "finalized"}
                 PROVE  a < accepted
      BY <2>3, Zenon
    <3> QED
      BY <1>2, <2>4
  <2> QED
    BY <1>4, <2>1, <2>3, <2>6, <2>7, <2>8, Zenon DEF CascadeShape
<1> QED
  BY <1>9, <1>10, <1>11, Zenon DEF Shapes

LEMMA ShapesAdvanced ==
    ASSUME TypeOK, Shapes, NEW a \in Actions, stage[a] = "delivered", Advanced(a),
           UNCHANGED <<accepted, status, terminals>>
    PROVE  Shapes'
<1> USE ActionsNat
<1>1. TypeQueue /\ ListShape /\ TermShape /\ StageShape /\ CascadeShape /\ FailShape
  BY Zenon DEF TypeOK, Shapes
<1>2. /\ accepted \in Nat /\ Len(list) \in Nat /\ Len(terminals) \in Nat
      /\ \A b \in Actions : stage[b] \in Stages
  BY <1>1, Numbers, Zenon
<1>3. /\ a = First /\ a <= Len(terminals) /\ a <= accepted
      /\ \A b \in Actions : ~Cascading(b) /\ stage[b] \notin {"dependent", "finalized"}
  BY DeliveredIsAlone, Zenon
<1>4. /\ status[a] = "OK" /\ failed = FALSE /\ failed' = FALSE
      /\ list' \in Seq(Actions) /\ Len(list') = accepted - a
      /\ \A i \in 1 .. accepted - a : list'[i] = a + i
      /\ active' \in BOOLEAN /\ (active' <=> a < accepted)
      /\ hook' = [hook EXCEPT ![a] = NoHook]
      /\ stage' = [b \in Actions |->
                   IF b = a THEN "hook"
                   ELSE IF a < accepted /\ b = a + 1 THEN "submitted" ELSE stage[b]]
  BY Zenon DEF Advanced
<1>5. accepted' = accepted /\ status' = status /\ terminals' = terminals
  BY Zenon
<1>6. First' = a + 1
  BY <1>2, <1>4, <1>5 DEF First
<1>7. ListShape' /\ TermShape' /\ FailShape'
  BY <1>1, <1>2, <1>3, <1>4, <1>5 DEF ListShape, TermShape, FailShape
<1>8. StageShape'
  <2> SUFFICES ASSUME NEW b \in Actions PROVE StageOf(b)'
    BY Zenon DEF StageShape
  <2>1. StageOf(b)
    BY <1>1, Zenon DEF StageShape
  <2>2. Listed(b)' <=> a < b /\ b <= accepted
    BY <1>2, <1>5, <1>6 DEF Listed
  <2>3. Listed(b) <=> a <= b /\ b <= accepted
    BY <1>3, Zenon DEF Listed
  <2>4. CASE b = a
    BY <1>2, <1>3, <1>4, <1>5, <1>6, <2>1, <2>2, <2>4 DEF StageOf
  <2>5. CASE a < accepted /\ b = a + 1
    <3>1. stage[b] = "queued" /\ b # First /\ Listed(b)' /\ b = First'
      BY <1>2, <1>3, <1>6, <2>1, <2>2, <2>3, <2>5 DEF StageOf
    <3>2. stage'[b] = "submitted"
      BY <1>4, <2>5
    <3> QED
      BY <1>5, <2>1, <2>2, <3>1, <3>2 DEF StageOf
  <2>6. CASE b # a /\ ~(a < accepted /\ b = a + 1)
    <3>1. stage'[b] = stage[b]
      BY <1>4, <2>6, Zenon
    <3>2. b # First /\ (Listed(b)' <=> Listed(b)) /\ (Listed(b)' => b # First')
      BY <1>2, <1>3, <1>6, <2>2, <2>3, <2>6
    <3> QED
      BY <1>5, <2>1, <3>1, <3>2, Zenon DEF StageOf
  <2> QED
    BY <2>4, <2>5, <2>6, Zenon
<1>9. CascadeShape'
  <2>1. \A b \in Actions : stage'[b] \notin {"dependent", "finalized"}
    BY <1>3, <1>4
  <2>2. /\ hook'[a].deps = <<>> /\ hook'[a].cascade = FALSE
        /\ \A b \in Actions : b # a => hook'[b] = hook[b]
    BY <1>1, <1>4 DEF TypeQueue, NoHook
  <2>3. \A b \in Actions : ~Cascading(b)'
    BY <1>3, <1>4, <2>2, Zenon DEF Cascading
  <2>4. \A b \in Actions : hook'[b].deps = <<>>
    BY <1>1, <1>3, <2>2, Zenon DEF CascadeShape
  <2>5. list' = <<>> <=> ~active'
    BY <1>2, <1>3, <1>4
  <2> QED
    BY <2>1, <2>3, <2>4, <2>5, Zenon DEF CascadeShape
<1> QED
  BY <1>7, <1>8, <1>9, Zenon DEF Shapes

(* A post-hook with dependents answers the accepted actions from its first *)
(* dependent on; all before it have their results.                         *)
LEMMA DependentIsNext ==
    ASSUME TypeOK, Shapes, NEW a \in Actions, stage[a] = "hook", hook[a].deps # <<>>
    PROVE  /\ Cascading(a) /\ CascadeOf(a)
           /\ Head(hook[a].deps) = accepted - Len(hook[a].deps) + 1
           /\ Head(hook[a].deps) \in Actions /\ Head(hook[a].deps) # a
           /\ Len(hook[a].deps) >= 1
           /\ stage[Head(hook[a].deps)] = "dependent" =>
                 Len(terminals) = Head(hook[a].deps) - 1
<1> USE ActionsNat
<1> DEFINE deps == hook[a].deps
           d == Head(hook[a].deps)
<1>1. TypeQueue /\ ListShape /\ TermShape /\ StageShape /\ CascadeShape
  BY Zenon DEF TypeOK, Shapes
<1>2. /\ accepted \in Nat /\ accepted <= MaxAccepted /\ Len(terminals) \in Nat
      /\ Len(deps) \in Nat /\ Len(deps) # 0 /\ deps \in Seq(Actions)
      /\ \A b \in Actions : stage[b] \in Stages
  <2>1. deps \in Seq(Actions)
    BY <1>1 DEF TypeQueue
  <2> QED
    BY <1>1, <2>1, Numbers, Zenon
<1>3. Cascading(a) /\ CascadeOf(a)
  BY <1>1, Zenon DEF CascadeShape
<1>4. \A b \in Actions : stage[b] \in {"dependent", "finalized"} <=> Owed(a, b)
  BY <1>3, Zenon DEF CascadeOf
<1>5. /\ list = <<>> /\ Len(deps) <= accepted
      /\ d = accepted - Len(deps) + 1 /\ d \in Actions
  <2>1. 1 \in 1 .. Len(deps) /\ Head(deps) = deps[1]
    BY <1>2
  <2>2. list = <<>> /\ Len(deps) <= accepted /\ d = accepted - Len(deps) + 1
    BY <1>3, <2>1, Zenon DEF CascadeOf
  <2>3. accepted - Len(deps) + 1 \in Actions
    BY <1>2, <2>2, Sizes, SMTT(30)
  <2> QED
    BY <2>2, <2>3, Zenon
<1> HIDE DEF d, deps
<1>6. Owed(a, d)
  <2>1. accepted - Len(deps) < d /\ d <= accepted
    BY <1>2, <1>5
  <2> QED
    BY <2>1, Zenon DEF Owed, deps
<1>7. d # a
  BY <1>4, <1>5, <1>6
<1>8. ASSUME stage[d] = "dependent" PROVE Len(terminals) = d - 1
  <2>1. Len(terminals) < d
    BY <1>1, <1>2, <1>5, <1>8 DEF StageShape, StageOf
  <2>2. CASE d = 1
    BY <1>2, <2>1, <2>2
  <2>3. CASE d # 1
    <3>1. d - 1 \in Actions
      BY <1>5, <2>3, Sizes
    <3>2. stage[d - 1] \notin {"dependent", "finalized"}
      <4>1. ~(accepted - Len(deps) < d - 1)
        BY <1>2, <1>5
      <4> QED
        BY <1>4, <3>1, <4>1, Zenon DEF Owed, deps
    <3>3. stage[d - 1] \notin {"submitted", "delivered", "queued", "unused"}
      <4>1. ~Listed(d - 1)
        BY <1>2, <1>5 DEF Listed, First
      <4>2. ~(accepted < d - 1)
        BY <1>2, <1>5
      <4> QED
        BY <1>1, <3>1, <4>1, <4>2, Zenon DEF StageShape, StageOf
    <3>4. stage[d - 1] \in {"hook", "done"}
      BY <1>2, <3>1, <3>2, <3>3, Zenon DEF Stages
    <3>5. d - 1 <= Len(terminals)
      BY <1>1, <3>1, <3>4, Zenon DEF StageShape, StageOf
    <3> QED
      BY <1>2, <1>5, <2>1, <3>5
  <2> QED
    BY <2>2, <2>3, Zenon
<1>9. Len(deps) >= 1
  BY <1>2
<1> QED
  BY <1>3, <1>5, <1>7, <1>8, <1>9, Zenon DEF d, deps

LEMMA ShapesDeliverSynthetic ==
    ASSUME TypeOK, Shapes, NEW a \in Actions, DeliverSynthetic(a)
    PROVE  Shapes'
<1> USE ActionsNat
<1> DEFINE deps == hook[a].deps
           d == Head(hook[a].deps)
<1>1. TypeQueue /\ ListShape /\ TermShape /\ StageShape /\ CascadeShape /\ FailShape
  BY Zenon DEF TypeOK, Shapes
<1>2. /\ accepted \in Nat /\ Len(terminals) \in Nat /\ Len(deps) \in Nat
  BY <1>1, Numbers, Zenon
<1>3. /\ stage[a] = "hook" /\ deps # <<>> /\ stage[d] = "dependent"
      /\ Result(d, hook[a].answer) /\ stage' = [stage EXCEPT ![d] = "finalized"]
      /\ UNCHANGED <<list, active, accepted, hook>>
  BY Zenon DEF DeliverSynthetic, works
<1>4. /\ Cascading(a) /\ CascadeOf(a) /\ d = accepted - Len(deps) + 1
      /\ d \in Actions /\ d # a /\ Len(deps) >= 1 /\ Len(terminals) = d - 1
  BY <1>3, DependentIsNext, Zenon
<1> HIDE DEF d, deps
<1>5. /\ list = <<>> /\ active /\ failed /\ hook[a].answer \in {"STATE", "CANCELED", "REJECTED"}
  BY <1>4, Zenon DEF CascadeOf
<1>6. /\ status' = [b \in Actions |-> IF b = d THEN hook[a].answer ELSE status[b]]
      /\ hook[a].answer # None
      /\ Len(terminals') = Len(terminals) + 1
      /\ \A i \in 1 .. Len(terminals) : terminals'[i] = terminals[i]
      /\ terminals'[Len(terminals) + 1] = d
      /\ failed' = TRUE
  <2>1. hook[a].answer \in Outcomes /\ hook[a].answer # "OK"
    BY <1>5 DEF Outcomes
  <2> QED
    BY <1>3, <1>4, <2>1, ResultFacts, Zenon
<1>7. stage' = [b \in Actions |-> IF b = d THEN "finalized" ELSE stage[b]]
  BY <1>1, <1>3, Zenon DEF TypeQueue
<1>8. ListShape' /\ FailShape'
  BY <1>1, <1>3, <1>5, <1>6, Zenon DEF ListShape, FailShape
<1>9. TermShape'
  <2>1. Len(terminals') <= accepted'
    BY <1>2, <1>3, <1>4, <1>6
  <2>2. ASSUME NEW i \in 1 .. Len(terminals') PROVE terminals'[i] = i
    <3>1. CASE i = Len(terminals) + 1
      BY <1>2, <1>4, <1>6, <3>1
    <3>2. CASE i # Len(terminals) + 1
      BY <1>1, <1>2, <1>6, <3>2 DEF TermShape
    <3> QED
      BY <3>1, <3>2, Zenon
  <2> QED
    BY <2>1, <2>2, Zenon DEF TermShape
<1>10. StageShape'
  <2> SUFFICES ASSUME NEW b \in Actions PROVE StageOf(b)'
    BY Zenon DEF StageShape
  <2>1. StageOf(b)
    BY <1>1, Zenon DEF StageShape
  <2>2. First' = First /\ (Listed(b)' <=> Listed(b)) /\ accepted' = accepted
    BY <1>3, Zenon DEF First, Listed
  <2>3. CASE b = d
    <3>1. stage'[b] = "finalized" /\ status'[b] # None /\ stage[b] = "dependent"
      BY <1>3, <1>6, <1>7, <2>3, Zenon
    <3>2. b <= Len(terminals')
      BY <1>2, <1>4, <1>6, <2>3
    <3> QED
      BY <2>1, <2>2, <3>1, <3>2 DEF StageOf
  <2>4. CASE b # d
    <3>1. stage'[b] = stage[b] /\ status'[b] = status[b]
      BY <1>6, <1>7, <2>4, Zenon
    <3>2. b <= Len(terminals') <=> b <= Len(terminals)
      <4>1. Len(terminals') = d /\ Len(terminals) = d - 1 /\ d \in Nat
        BY <1>2, <1>4, <1>6
      <4> QED
        BY <2>4, <4>1
    <3> QED
      BY <2>1, <2>2, <3>1, <3>2, Zenon DEF StageOf
  <2> QED
    BY <2>3, <2>4, Zenon
<1>11. CascadeShape'
  <2>1. \A b \in Actions : Cascading(b)' <=> Cascading(b)
    BY <1>3, <1>7 DEF Cascading
  <2>2. \A b \in Actions : stage'[b] \in {"dependent", "finalized"} <=>
                           stage[b] \in {"dependent", "finalized"}
    BY <1>3, <1>7
  <2>3. \A b \in Actions : Cascading(b) => b = a
    BY <1>1, <1>4, Zenon DEF CascadeShape
  <2>4. \A b \in Actions : stage'[b] = "finalized" => b = accepted - Len(deps) + 1
    BY <1>4, <1>7 DEF CascadeOf, deps
  <2>5. CascadeOf(a)'
    BY <1>3, <1>4, <1>5, <1>6, <2>2, <2>4, Zenon DEF CascadeOf, Owed, deps
  <2> QED
    BY <1>1, <1>3, <2>1, <2>2, <2>3, <2>5, Zenon DEF CascadeShape
<1> QED
  BY <1>8, <1>9, <1>10, <1>11, Zenon DEF Shapes

LEMMA ShapesReleaseSynthetic ==
    ASSUME TypeOK, Shapes, NEW a \in Actions, ReleaseSynthetic(a)
    PROVE  Shapes'
<1> USE ActionsNat
<1> DEFINE deps == hook[a].deps
           d == Head(hook[a].deps)
<1>1. TypeQueue /\ ListShape /\ TermShape /\ StageShape /\ CascadeShape /\ FailShape
  BY Zenon DEF TypeOK, Shapes
<1>2. /\ accepted \in Nat /\ Len(deps) \in Nat /\ deps \in Seq(Actions)
  <2>1. deps \in Seq(Actions)
    BY <1>1 DEF TypeQueue
  <2> QED
    BY <1>1, <2>1, Numbers, Zenon
<1>3. /\ stage[a] = "hook" /\ deps # <<>> /\ stage[d] = "finalized"
      /\ stage' = [stage EXCEPT ![d] = "done"]
      /\ hook' = [hook EXCEPT ![a] = [deps |-> Tail(deps), answer |-> "STATE",
                                      cascade |-> hook[a].cascade]]
      /\ UNCHANGED <<list, active, failed, accepted, status, terminals>>
  BY Zenon DEF ReleaseSynthetic, works, linked
<1>4. /\ Cascading(a) /\ CascadeOf(a) /\ d = accepted - Len(deps) + 1
      /\ d \in Actions /\ d # a /\ Len(deps) >= 1
  BY <1>3, DependentIsNext, Zenon
<1>5. /\ Tail(deps) \in Seq(Actions) /\ Len(Tail(deps)) = Len(deps) - 1
      /\ \A i \in 1 .. Len(deps) - 1 : Tail(deps)[i] = deps[i + 1]
  BY <1>2, <1>4
<1>6. /\ hook'[a].deps = Tail(deps) /\ hook'[a].answer = "STATE"
      /\ hook'[a].cascade = hook[a].cascade
      /\ \A b \in Actions : b # a => hook'[b] = hook[b]
  BY <1>1, <1>3 DEF TypeQueue
<1> HIDE DEF d, deps
<1>7. stage' = [b \in Actions |-> IF b = d THEN "done" ELSE stage[b]]
  BY <1>1, <1>3, Zenon DEF TypeQueue
<1>8. list = <<>> /\ active /\ failed /\ Len(deps) <= accepted
  BY <1>4, Zenon DEF CascadeOf, deps
<1>9. ListShape' /\ TermShape' /\ FailShape'
  BY <1>1, <1>3, <1>8, Zenon DEF ListShape, TermShape, FailShape
<1>10. StageShape'
  <2> SUFFICES ASSUME NEW b \in Actions PROVE StageOf(b)'
    BY Zenon DEF StageShape
  <2>1. StageOf(b)
    BY <1>1, Zenon DEF StageShape
  <2>2. First' = First /\ (Listed(b)' <=> Listed(b))
    BY <1>3, Zenon DEF First, Listed
  <2>3. CASE b = d
    BY <1>3, <1>7, <2>1, <2>2, <2>3 DEF StageOf
  <2>4. CASE b # d
    <3>1. stage'[b] = stage[b]
      BY <1>7, <2>4, Zenon
    <3> QED
      BY <1>3, <2>1, <2>2, <3>1, Zenon DEF StageOf
  <2> QED
    BY <2>3, <2>4, Zenon
<1>11. CascadeShape'
  <2>1. \A b \in Actions : Cascading(b)' <=> Cascading(b)
    BY <1>3, <1>4, <1>6, <1>7 DEF Cascading
  <2>2. \A b \in Actions : Cascading(b) => b = a
    BY <1>1, <1>4, Zenon DEF CascadeShape
  <2>3. \A b \in Actions : stage[b] = "finalized" => b = d
    BY <1>4, Zenon DEF CascadeOf, deps
  <2>4. \A b \in Actions : stage'[b] # "finalized"
    BY <1>7, <2>3
  <2>5. \A b \in Actions : stage'[b] \in {"dependent", "finalized"} <=>
                           b # d /\ Owed(a, b)
    BY <1>4, <1>7 DEF CascadeOf
  <2>6. \A b \in Actions : Owed(a, b)' <=> b # d /\ Owed(a, b)
    <3> SUFFICES ASSUME NEW b \in Actions
                 PROVE  Owed(a, b)' <=> b # d /\ Owed(a, b)
      BY Zenon
    <3>1. Owed(a, b)' <=> accepted - (Len(deps) - 1) < b /\ b <= accepted
      BY <1>3, <1>5, <1>6, Zenon DEF Owed
    <3>2. Owed(a, b) <=> accepted - Len(deps) < b /\ b <= accepted
      BY Zenon DEF Owed, deps
    <3>3. b \in Nat /\ d = accepted - Len(deps) + 1
      BY <1>4
    <3> QED
      BY <1>2, <3>1, <3>2, <3>3
  <2>7. /\ Len(hook'[a].deps) <= accepted
        /\ \A i \in 1 .. Len(hook'[a].deps) :
               hook'[a].deps[i] = accepted - Len(hook'[a].deps) + i
    <3>1. \A i \in 1 .. Len(deps) : deps[i] = accepted - Len(deps) + i
      BY <1>4, Zenon DEF CascadeOf, deps
    <3> QED
      BY <1>2, <1>5, <1>6, <1>8, <3>1
  <2>8. CascadeOf(a)'
    BY <1>3, <1>6, <1>8, <2>4, <2>5, <2>6, <2>7, Zenon DEF CascadeOf
  <2>9. \A b \in Actions : hook'[b].deps # <<>> => Cascading(b)'
    BY <1>1, <1>4, <1>6, <2>1, Zenon DEF CascadeShape
  <2> QED
    BY <1>1, <1>3, <1>4, <1>8, <2>1, <2>2, <2>8, <2>9, Zenon DEF CascadeShape
<1> QED
  BY <1>9, <1>10, <1>11, Zenon DEF Shapes

LEMMA ShapesEnds ==
    ASSUME TypeOK, Shapes, NEW a \in Actions, PostResultEnds(a)
    PROVE  Shapes'
<1> USE ActionsNat
<1>1. TypeQueue /\ ListShape /\ TermShape /\ StageShape /\ CascadeShape /\ FailShape
  BY Zenon DEF TypeOK, Shapes
<1>2. /\ stage[a] = "hook" /\ hook[a].deps = <<>>
      /\ active' = (active /\ ~hook[a].cascade)
      /\ stage' = [stage EXCEPT ![a] = "done"]
      /\ UNCHANGED <<list, failed, accepted, status, terminals, hook>>
  BY Zenon DEF PostResultEnds, works
<1>3. stage' = [b \in Actions |-> IF b = a THEN "done" ELSE stage[b]]
  BY <1>1, <1>2, Zenon DEF TypeQueue
<1>4. ListShape' /\ TermShape'
  BY <1>1, <1>2, Zenon DEF ListShape, TermShape
<1>5. StageShape'
  <2> SUFFICES ASSUME NEW b \in Actions PROVE StageOf(b)'
    BY Zenon DEF StageShape
  <2>1. StageOf(b)
    BY <1>1, Zenon DEF StageShape
  <2>2. First' = First /\ (Listed(b)' <=> Listed(b))
    BY <1>2, Zenon DEF First, Listed
  <2>3. CASE b = a
    BY <1>2, <1>3, <2>1, <2>2, <2>3 DEF StageOf
  <2>4. CASE b # a
    <3>1. stage'[b] = stage[b]
      BY <1>3, <2>4, Zenon
    <3> QED
      BY <1>2, <2>1, <2>2, <3>1, Zenon DEF StageOf
  <2> QED
    BY <2>3, <2>4, Zenon
<1>6. \A b \in Actions : stage'[b] \in {"dependent", "finalized"} <=>
                         stage[b] \in {"dependent", "finalized"}
  BY <1>2, <1>3
<1>7. \A b \in Actions : stage'[b] = "finalized" <=> stage[b] = "finalized"
  BY <1>2, <1>3
<1>8. \A b \in Actions : Cascading(b)' <=> b # a /\ Cascading(b)
  BY <1>2, <1>3 DEF Cascading
<1>9. \A b \in Actions : hook'[b].deps # <<>> => Cascading(b)'
  BY <1>1, <1>2, <1>8, Zenon DEF CascadeShape
<1>10. CascadeShape'
  <2>1. CASE Cascading(a)
    <3>1. CascadeOf(a) /\ hook[a].cascade
      BY <1>1, <2>1, Zenon DEF CascadeShape, Cascading
    <3>2. list = <<>> /\ ~active'
      BY <1>2, <3>1, Zenon DEF CascadeOf
    <3>3. \A b \in Actions : ~Cascading(b)'
      BY <1>1, <1>8, <2>1, Zenon DEF CascadeShape
    <3>4. \A b \in Actions : ~Owed(a, b)
      <4>1. Len(hook[a].deps) = 0 /\ accepted \in Nat
        BY <1>1, <1>2, Numbers, Zenon
      <4> QED
        BY <4>1 DEF Owed
    <3>5. \A b \in Actions : stage'[b] \notin {"dependent", "finalized"}
      BY <1>6, <3>1, <3>4, Zenon DEF CascadeOf
    <3> QED
      BY <1>2, <1>9, <3>2, <3>3, <3>5, Zenon DEF CascadeShape
  <2>2. CASE ~Cascading(a)
    <3>1. active' <=> active
      BY <1>2, <2>2, Zenon DEF Cascading
    <3>2. \A b \in Actions : Cascading(b)' <=> Cascading(b)
      BY <1>8, <2>2, Zenon
    <3>3. \A b \in Actions : Cascading(b) => CascadeOf(b)'
      <4> SUFFICES ASSUME NEW b \in Actions, Cascading(b) PROVE CascadeOf(b)'
        BY Zenon
      <4>1. CascadeOf(b)
        BY <1>1, Zenon DEF CascadeShape
      <4> QED
        BY <1>2, <1>6, <1>7, <3>1, <4>1, Zenon DEF CascadeOf, Owed
    <3> QED
      BY <1>1, <1>2, <1>6, <1>9, <3>1, <3>2, <3>3, Zenon DEF CascadeShape
  <2> QED
    BY <2>1, <2>2, Zenon
<1>11. FailShape'
  <2>1. First' = First
    BY <1>2, Zenon DEF First
  <2>2. ASSUME failed', list' # <<>>
        PROVE  stage'[First'] = "delivered" /\ status'[First'] # "OK"
    <3>1. stage[First] = "delivered" /\ status[First] # "OK"
      BY <1>1, <1>2, <2>2, Zenon DEF FailShape
    <3>2. First \in Actions
      <4>1. /\ accepted \in Nat /\ Len(list) \in Nat /\ Len(list) # 0
            /\ accepted <= MaxAccepted
        BY <1>1, <1>2, <2>2, Numbers, Zenon
      <4>2. Len(list) <= accepted
        BY <1>1, Zenon DEF ListShape
      <4> QED
        BY <4>1, <4>2, Sizes DEF First
    <3>3. First # a
      BY <1>2, <3>1
    <3> QED
      BY <1>2, <1>3, <2>1, <3>1, <3>2, <3>3, Zenon
  <2> QED
    BY <1>1, <1>2, <2>2, Zenon DEF FailShape
<1> QED
  BY <1>4, <1>5, <1>10, <1>11, Zenon DEF Shapes

shape == <<list, active, failed, accepted, stage, status, terminals, hook>>

LEMMA ShapesSame ==
    ASSUME Shapes, UNCHANGED shape
    PROVE  Shapes'
<1>1. UNCHANGED <<list, active, failed, accepted, stage, status, terminals, hook>>
  BY Zenon DEF shape
<1>2. First' = First
  BY <1>1, Zenon DEF First
<1>3. ListShape' /\ TermShape' /\ FailShape'
  BY <1>1, <1>2, Zenon DEF Shapes, ListShape, TermShape, FailShape
<1>4. StageShape'
  BY <1>1, <1>2, Zenon DEF Shapes, StageShape, StageOf, Listed
<1>5. CascadeShape'
  <2>1. ASSUME NEW a \in Actions PROVE Cascading(a)' <=> Cascading(a)
    BY <1>1, Zenon DEF Cascading
  <2>2. ASSUME NEW a \in Actions, CascadeOf(a) PROVE CascadeOf(a)'
    <3>1. ASSUME NEW b \in Actions PROVE Owed(a, b)' <=> Owed(a, b)
      BY <1>1, Zenon DEF Owed
    <3> QED
      BY <1>1, <2>2, <3>1, Zenon DEF CascadeOf
  <2> QED
    BY <1>1, <2>1, <2>2, Zenon DEF Shapes, CascadeShape
<1> QED
  BY <1>3, <1>4, <1>5, Zenon DEF Shapes

(* A refused first head leaves the list as it was: the queue was idle, and *)
(* an idle queue is empty.                                                 *)
LEMMA RollbackSame ==
    ASSUME Shapes, NEW a, NEW kind, Rollback(a, kind)
    PROVE  UNCHANGED <<linked, flags, works, bytes, stage>>
<1>1. list = <<>> /\ list' = <<>>
  BY Zenon DEF Shapes, CascadeShape, Rollback
<1> QED
  BY <1>1, Zenon DEF Rollback, linked

-----------------------------------------------------------------------------
(* The kinds of steps. *)

(* A call, of the handler or of the timer, is accepted. *)
Admits(kind) ==
    /\ accepted + 1 \in Actions /\ Accept(accepted + 1, kind)
    /\ UNCHANGED <<owner_destroyed, references, committed, status, terminals,
                   cancel_requested, hook, others, stopping, storage>>

(* Everything but the queue's users and the other queues is left alone. *)
Quiet ==
    UNCHANGED <<linked, flags, works, reserved, action_count, committed, stage,
                status, terminals, hook>>

LEMMA EnqueueStep ==
    ASSUME Shapes, NEW call \in Calls, Enqueue(call)
    PROVE  /\ (\E kind \in Kinds : Admits(kind)) \/ (Quiet /\ UNCHANGED bytes)
           /\ handler = "running"
           /\ UNCHANGED <<owner_destroyed, references, cancel_requested, others,
                          handler, timer, stopping, storage>>
<1>1. KindOf(call) \in Kinds
  BY DEF KindOf, Calls, Kinds
<1>2. /\ handler = "running" /\ accepted + 1 \in Actions
      /\ Accept(accepted + 1, KindOf(call)) \/ Rollback(accepted + 1, KindOf(call))
      /\ UNCHANGED <<owner_destroyed, references, committed, status, terminals,
                     cancel_requested, hook, others, handler, timer, stopping,
                     storage>>
  BY Zenon DEF Enqueue
<1>3. CASE Accept(accepted + 1, KindOf(call))
  BY <1>1, <1>2, <1>3, Zenon DEF Admits
<1>4. CASE Rollback(accepted + 1, KindOf(call))
  <2>1. UNCHANGED <<linked, flags, works, bytes, stage>>
    BY <1>4, RollbackSame, Zenon
  <2> QED
    BY <1>2, <2>1, Zenon DEF Quiet, bytes
<1> QED
  BY <1>2, <1>3, <1>4, Zenon

LEMMA TimerDefersStep ==
    ASSUME Shapes, TimerDefers
    PROVE  /\ (\E kind \in Kinds : Admits(kind)) \/ (Quiet /\ UNCHANGED bytes)
           /\ timer = "defers" /\ timer' = "releases"
           /\ UNCHANGED <<owner_destroyed, references, cancel_requested, others,
                          handler, stopping, storage>>
<1>1. "defer" \in Kinds
  BY DEF Kinds
<1>2. /\ timer = "defers" /\ timer' = "releases"
      /\ UNCHANGED <<owner_destroyed, references, committed, status, terminals,
                     cancel_requested, hook, others, handler, stopping, storage>>
  BY Zenon DEF TimerDefers
<1>3. CASE accepted + 1 \in Actions /\ Accept(accepted + 1, "defer")
  BY <1>1, <1>2, <1>3, Zenon DEF Admits
<1>4. CASE Rollback(accepted + 1, "defer")
  <2>1. UNCHANGED <<linked, flags, works, bytes, stage>>
    BY <1>4, RollbackSame, Zenon
  <2> QED
    BY <1>2, <2>1, Zenon DEF Quiet, bytes
<1>5. CASE UNCHANGED <<linked, flags, works, bytes, stage>>
  BY <1>2, <1>5, Zenon DEF Quiet, bytes
<1> QED
  BY <1>2, <1>3, <1>4, <1>5, Zenon DEF TimerDefers

(* The queue changes only when a call is accepted and in the steps of the  *)
(* worker that finalizes an action.                                        *)
LEMMA QueueSteps ==
    ASSUME Shapes, [Next]_vars
    PROVE  \/ \E kind \in Kinds : Admits(kind)
           \/ \E a \in Actions : Worker(a)
           \/ Quiet
<1>1. CASE UNCHANGED vars
  BY <1>1, Zenon DEF vars, bytes, Quiet
<1>2. ASSUME NEW call \in Calls, Enqueue(call)
      PROVE  (\E kind \in Kinds : Admits(kind)) \/ Quiet
  BY <1>2, EnqueueStep, Zenon
<1>3. ASSUME NEW a \in Actions, Cancel(a) PROVE Quiet
  BY <1>3, Zenon DEF Cancel, Quiet, bytes
<1>4. CASE Finalize \/ AutoDeferStart \/ TimerWakes
  BY <1>4, Zenon DEF Finalize, AutoDeferStart, TimerWakes, Quiet, bytes
<1>5. CASE TimerDefers
  BY <1>5, TimerDefersStep, Zenon
<1>6. CASE TimerReleases \/ HandlerReturns \/ FlowDestroy
  BY <1>6, Zenon DEF TimerReleases, HandlerReturns, FlowDestroy, Quiet, bytes
<1>7. CASE Environment
  <2>1. CASE Over
    BY <1>1, <2>1, Zenon DEF Over, Quiet, vars, bytes
  <2> QED
    BY <1>7, <2>1, Zenon DEF Environment, OthersReserve, OthersRelease, ClientStop, Quiet,
       bytes
<1> QED
  BY <1>1, <1>2, <1>3, <1>4, <1>5, <1>6, <1>7, Zenon DEF Next

LEMMA ShapesStep ==
    ASSUME TypeOK, Shapes, [Next]_vars PROVE Shapes'
<1>1. ASSUME NEW kind \in Kinds, Admits(kind) PROVE Shapes'
  BY <1>1, ShapesAccept, Zenon DEF Admits
<1>2. ASSUME NEW a \in Actions, Worker(a) PROVE Shapes'
  <2>1. CASE PostResult(a)
    <3>1. stage[a] = "delivered" /\ UNCHANGED <<accepted, status, terminals>>
      BY <2>1, Zenon DEF PostResult, works
    <3>2. Detached(a) \/ Advanced(a)
      BY <2>1, PostResultFacts, Zenon DEF Shapes
    <3> QED
      BY <3>1, <3>2, ShapesDetached, ShapesAdvanced, Zenon
  <2> QED
    BY <1>2, <2>1, ShapesDeliver, ShapesEnds, ShapesDeliverSynthetic,
       ShapesReleaseSynthetic, Zenon DEF Worker
<1>3. CASE Quiet
  BY <1>3, ShapesSame, Zenon DEF Quiet, shape, linked, works
<1> QED
  BY <1>1, <1>2, <1>3, QueueSteps, Zenon

-----------------------------------------------------------------------------
(* The types of the queue and of the flow. *)

LEMMA ResultType ==
    ASSUME TypeOK, NEW a \in Actions, NEW s \in Outcomes, Result(a, s)
    PROVE  /\ status' \in [Actions -> Outcomes \cup {None}] /\ terminals' \in Seq(Actions)
           /\ failed' \in BOOLEAN /\ committed' \in FlowView /\ projected' \in FlowView
<1>1. /\ status' = [b \in Actions |-> IF b = a THEN s ELSE status[b]]
      /\ terminals' \in Seq(Actions)
      /\ failed' = IF s = "OK" THEN failed ELSE TRUE
  BY ResultFacts, Zenon
<1>2. status' \in [Actions -> Outcomes \cup {None}]
  BY <1>1 DEF TypeOK, TypeQueue
<1>3. failed' \in BOOLEAN
  BY <1>1, Zenon DEF TypeOK, TypeFlow
<1>4. /\ committed \in FlowView /\ projected \in FlowView /\ act[a] \in Works
      /\ "FAILED" \in FlowStates
  BY DEF TypeOK, TypeFlow, FlowStates
<1>5. CASE s = "OK"
  <2>1. committed' = [state |-> act[a].state, original |-> act[a].original]
        /\ projected' = projected
    BY <1>5, Zenon DEF Result
  <2>2. committed' \in FlowView
    BY <1>4, <2>1 DEF FlowView, Works
  <2> QED
    BY <1>1, <1>2, <1>3, <1>4, <2>1, <2>2, Zenon
<1>6. CASE s # "OK"
  <2>1. /\ committed' = [committed EXCEPT !.state = "FAILED"]
        /\ projected' = [projected EXCEPT !.state = "FAILED"]
    BY <1>6, Zenon DEF Result
  <2>2. committed' \in FlowView /\ projected' \in FlowView
    BY <1>4, <2>1 DEF FlowView
  <2> QED
    BY <1>1, <1>2, <1>3, <2>2, Zenon
<1> QED
  BY <1>5, <1>6, Zenon

HookType == [deps : Seq(Actions), answer : Outcomes, cascade : BOOLEAN]

LEMMA PostResultType ==
    ASSUME TypeOK, Shapes, NEW a \in Actions, PostResult(a)
    PROVE  /\ list' \in Seq(Actions) /\ active' \in BOOLEAN /\ failed' \in BOOLEAN
           /\ stage' \in [Actions -> Stages] /\ hook' \in [Actions -> HookType]
<1>1. Detached(a) \/ Advanced(a)
  BY PostResultFacts, Zenon DEF Shapes
<1>2. stage \in [Actions -> Stages] /\ hook \in [Actions -> HookType]
  BY Zenon DEF TypeOK, TypeQueue, HookType
<1>3. "hook" \in Stages /\ "dependent" \in Stages /\ "submitted" \in Stages
  BY DEF Stages
<1>4. CASE Detached(a)
  <2>1. stage' \in [Actions -> Stages]
    BY <1>2, <1>3, <1>4 DEF Detached
  <2>2. PICK s \in {"STATE", "CANCELED", "REJECTED"}, deps \in Seq(Actions) :
          hook' = [hook EXCEPT ![a] = [deps |-> deps, answer |-> s,
                                       cascade |-> active']]
    BY <1>4, Zenon DEF Detached
  <2>3. active' \in BOOLEAN /\ s \in Outcomes
    BY <1>4 DEF Detached, Outcomes
  <2>4. [deps |-> deps, answer |-> s, cascade |-> active'] \in HookType
    BY <2>3, Zenon DEF HookType
  <2>5. hook' \in [Actions -> HookType]
    BY <1>2, <2>2, <2>4, Zenon
  <2>6. list' \in Seq(Actions) /\ failed' \in BOOLEAN
    BY <1>4 DEF Detached
  <2> QED
    BY <2>1, <2>3, <2>5, <2>6, Zenon
<1>5. CASE Advanced(a)
  <2>1. stage' \in [Actions -> Stages]
    BY <1>2, <1>3, <1>5 DEF Advanced
  <2>2. NoHook \in HookType
    BY DEF NoHook, HookType, Outcomes
  <2>3. hook' \in [Actions -> HookType]
    BY <1>2, <1>5, <2>2, Zenon DEF Advanced
  <2> QED
    BY <1>5, <2>1, <2>3, Zenon DEF Advanced
<1> QED
  BY <1>1, <1>4, <1>5, Zenon

LEMMA TypesWorker ==
    ASSUME TypeOK, Shapes, NEW a \in Actions, Worker(a)
    PROVE  TypeQueue' /\ TypeFlow'
<1> USE DEF works, flags, linked
<1>1. TypeQueue /\ TypeFlow
  BY Zenon DEF TypeOK
<1>2. /\ "delivered" \in Stages /\ "finalized" \in Stages /\ "done" \in Stages
  BY DEF Stages
<1>3. CASE Deliver(a)
  <2>1. PICK s \in Outcomes : Result(a, s)
    BY <1>3 DEF Deliver, Outcomes
  <2>2. /\ status' \in [Actions -> Outcomes \cup {None}] /\ terminals' \in Seq(Actions)
        /\ failed' \in BOOLEAN /\ committed' \in FlowView /\ projected' \in FlowView
    BY <2>1, ResultType, Zenon
  <2>3. /\ stage' = [stage EXCEPT ![a] = "delivered"]
        /\ UNCHANGED <<list, active, initial_admitted, act, accepted, cancel_requested, hook>>
    BY <1>3, Zenon DEF Deliver
  <2> QED
    BY <1>1, <1>2, <2>2, <2>3, Zenon DEF TypeQueue, TypeFlow
<1>4. CASE PostResult(a)
  <2>1. /\ list' \in Seq(Actions) /\ active' \in BOOLEAN /\ failed' \in BOOLEAN
        /\ stage' \in [Actions -> Stages] /\ hook' \in [Actions -> HookType]
    BY <1>4, PostResultType, Zenon
  <2>2. UNCHANGED <<initial_admitted, projected, act, accepted, committed, status, terminals,
                    cancel_requested>>
    BY <1>4, Zenon DEF PostResult
  <2> QED
    BY <1>1, <2>1, <2>2, Zenon DEF TypeQueue, TypeFlow, HookType
<1>5. CASE PostResultEnds(a)
  <2>1. active' \in BOOLEAN
    BY <1>5 DEF PostResultEnds
  <2> QED
    BY <1>1, <1>2, <1>5, <2>1, Zenon DEF TypeQueue, TypeFlow, PostResultEnds
<1>6. CASE DeliverSynthetic(a)
  <2> DEFINE d == Head(hook[a].deps)
  <2>1. stage[a] = "hook" /\ hook[a].deps # <<>>
    BY <1>6, Zenon DEF DeliverSynthetic
  <2>2. d \in Actions
    BY <2>1, DependentIsNext, Zenon
  <2>3. hook[a].answer \in Outcomes
    BY <1>1 DEF TypeQueue
  <2>4. Result(d, hook[a].answer)
    BY <1>6, Zenon DEF DeliverSynthetic
  <2>5. /\ status' \in [Actions -> Outcomes \cup {None}] /\ terminals' \in Seq(Actions)
        /\ failed' \in BOOLEAN /\ committed' \in FlowView /\ projected' \in FlowView
    BY <2>2, <2>3, <2>4, ResultType, Zenon
  <2>6. /\ stage' = [stage EXCEPT ![d] = "finalized"]
        /\ UNCHANGED <<list, active, initial_admitted, act, accepted, cancel_requested, hook>>
    BY <1>6, Zenon DEF DeliverSynthetic
  <2> QED
    BY <1>1, <1>2, <2>2, <2>5, <2>6, Zenon DEF TypeQueue, TypeFlow
<1>7. CASE ReleaseSynthetic(a)
  <2> DEFINE d == Head(hook[a].deps)
             h == [deps |-> Tail(hook[a].deps), answer |-> "STATE",
                   cascade |-> hook[a].cascade]
  <2>1. stage[a] = "hook" /\ hook[a].deps # <<>>
    BY <1>7, Zenon DEF ReleaseSynthetic
  <2>2. d \in Actions
    BY <2>1, DependentIsNext, Zenon
  <2>3. /\ stage' = [stage EXCEPT ![d] = "done"]
        /\ hook' = [hook EXCEPT ![a] = h]
        /\ UNCHANGED <<list, active, failed, initial_admitted, projected, act, accepted,
                       committed, status, terminals, cancel_requested>>
    BY <1>7, Zenon DEF ReleaseSynthetic
  <2>4. h \in HookType
    <3>1. hook[a].deps \in Seq(Actions) /\ hook[a].cascade \in BOOLEAN
      BY <1>1 DEF TypeQueue
    <3>2. Tail(hook[a].deps) \in Seq(Actions) /\ "STATE" \in Outcomes
      BY <2>1, <3>1 DEF Outcomes
    <3> QED
      BY <3>1, <3>2, Zenon DEF HookType
  <2> HIDE DEF h, d
  <2> QED
    BY <1>1, <1>2, <2>2, <2>3, <2>4, Zenon DEF TypeQueue, TypeFlow, HookType
<1> QED
  BY <1>3, <1>4, <1>5, <1>6, <1>7, Zenon DEF Worker

LEMMA TypesStep ==
    ASSUME TypeOK, Shapes, [Next]_vars
    PROVE  TypeQueue' /\ TypeFlow'
<1>1. ASSUME NEW kind \in Kinds, Admits(kind) PROVE TypeQueue' /\ TypeFlow'
  <2>1. /\ list' \in Seq(Actions)
        /\ active' \in BOOLEAN /\ failed' \in BOOLEAN /\ initial_admitted' \in BOOLEAN
        /\ projected' \in FlowView
        /\ accepted' \in 0 .. MaxAccepted
        /\ act' \in [Actions -> Works]
        /\ stage' \in [Actions -> Stages]
    BY <1>1, AcceptType, Zenon DEF Admits, Shapes
  <2> QED
    BY <1>1, <2>1, Zenon DEF Admits, TypeOK, TypeQueue, TypeFlow
<1>2. CASE Quiet
  <2>1. cancel_requested' \in [Actions -> BOOLEAN]
    <3>1. CASE UNCHANGED cancel_requested
      BY <3>1, Zenon DEF TypeOK, TypeQueue
    <3>2. ASSUME NEW a \in Actions, Cancel(a)
          PROVE  cancel_requested' \in [Actions -> BOOLEAN]
      BY <3>2, Zenon DEF TypeOK, TypeQueue, Cancel
    <3>3. ASSUME NEW call \in Calls, Enqueue(call) PROVE UNCHANGED cancel_requested
      BY <3>3, Zenon DEF Enqueue
    <3>4. ASSUME NEW a \in Actions, Worker(a) PROVE UNCHANGED cancel_requested
      BY <3>4, Zenon DEF Worker, Deliver, PostResult, PostResultEnds, DeliverSynthetic,
         ReleaseSynthetic
    <3>5. CASE Finalize \/ AutoDeferStart \/ TimerWakes \/ TimerDefers \/ TimerReleases
               \/ HandlerReturns \/ FlowDestroy
      BY <3>1, <3>5, Zenon DEF Finalize, AutoDeferStart, TimerWakes, TimerDefers,
         TimerReleases, HandlerReturns, FlowDestroy
    <3>6. CASE Environment \/ UNCHANGED vars
      BY <3>1, <3>6, Zenon DEF Environment, OthersReserve, OthersRelease, ClientStop, Over, vars
    <3> QED
      BY <3>1, <3>2, <3>3, <3>4, <3>5, <3>6, Zenon DEF Next
  <2>2. UNCHANGED <<list, active, failed, initial_admitted, projected, act, accepted,
                    committed, stage, status, terminals, hook>>
    BY <1>2, Zenon DEF Quiet, linked, flags, works
  <2> QED
    BY <2>1, <2>2, Zenon DEF TypeOK, TypeQueue, TypeFlow
<1> QED
  BY <1>1, <1>2, TypesWorker, QueueSteps, Zenon

-----------------------------------------------------------------------------
(* The flow's states follow the accepted and the answered actions. *)

LEMMA FlowAdmits ==
    ASSUME TypeOK, Shapes, FlowShape, NEW kind \in Kinds, Admits(kind)
    PROVE  FlowShape'
<1> USE ActionsNat
<1> DEFINE a == accepted + 1
<1>1. TypeQueue /\ TypeFlow /\ TermShape
  BY Zenon DEF TypeOK, Shapes
<1>2. accepted \in Nat /\ Len(terminals) \in Nat /\ Len(terminals) <= accepted
  BY <1>1, Numbers, Zenon DEF TermShape
<1>3. /\ a \in Actions /\ Allowed(kind) /\ accepted' = a /\ failed' = failed
      /\ act' = [act EXCEPT ![a] = Work(kind)]
      /\ projected' = [state |-> Work(kind).state, original |-> Work(kind).original]
      /\ initial_admitted' = NowAdmitted(kind)
      /\ terminals' = terminals /\ committed' = committed
  BY Zenon DEF Admits, Accept
<1>4. /\ ~failed
      /\ Initial(kind) => ~initial_admitted
      /\ kind \in {"edit", "delete"} => projected.original
      /\ kind = "followup" => initial_admitted
  BY <1>3, Zenon DEF Allowed
<1>5. /\ initial_admitted <=> accepted >= 1
      /\ projected = IF accepted = 0 THEN Start ELSE View(accepted)
      /\ committed = IF terminals = <<>> THEN Start ELSE View(Len(terminals))
  BY <1>4, Zenon DEF FlowShape
<1>6. Initial(kind) <=> accepted = 0
  <2>1. ASSUME accepted = 0 PROVE Initial(kind)
    <3>1. ~initial_admitted /\ ~projected.original
      BY <1>2, <1>5, <2>1 DEF Start
    <3> QED
      BY <1>4, <3>1 DEF Kinds, Initial
  <2>2. ASSUME Initial(kind) PROVE accepted = 0
    BY <1>2, <1>4, <1>5, <2>2
  <2> QED
    BY <2>1, <2>2, Zenon
<1>7. /\ act'[a] = Work(kind)
      /\ \A b \in Actions : b # a => act'[b] = act[b]
  BY <1>1, <1>3, Zenon DEF TypeFlow
<1>8. /\ Work(kind).initial <=> Initial(kind)
      /\ Initial(kind) => Work(kind).queued = "QUEUED"
  BY Zenon DEF Work
<1>9. Work(kind).state # "READY"
  <2>1. CASE kind = "delete"
    <3>1. projected.original
      BY <1>4, <2>1
    <3>2. accepted # 0
      BY <1>5, <3>1 DEF Start
    <3>3. accepted \in Actions
      BY <1>1, <1>2, <3>2, Numbers, Sizes
    <3>4. projected.state = act[accepted].state
      BY <1>5, <3>2 DEF View
    <3>5. act[accepted].state # "READY"
      BY <1>2, <3>3 DEF FlowShape
    <3>6. Work(kind).state = projected.state
      BY <2>1 DEF Work
    <3> QED
      BY <3>4, <3>5, <3>6, Zenon
  <2>2. CASE kind # "delete"
    BY <2>2 DEF Work, Kinds
  <2> QED
    BY <2>1, <2>2, Zenon
<1>10. initial_admitted' <=> accepted' >= 1
  <2>1. accepted' >= 1
    BY <1>2, <1>3
  <2>2. initial_admitted'
    <3>1. accepted = 0 \/ accepted >= 1
      BY <1>2, SMTT(30)
    <3> QED
      BY <1>3, <1>5, <1>6, <3>1, Zenon DEF NowAdmitted
  <2> QED
    BY <2>1, <2>2, Zenon
<1>11. ASSUME NEW b \in Actions, b <= accepted'
       PROVE  /\ act'[b].initial <=> b = 1
              /\ act'[b].state # "READY"
              /\ act'[b].initial => act'[b].queued = "QUEUED"
  <2>1. CASE b = a
    <3>1. b = 1 <=> accepted = 0
      BY <1>2, <2>1
    <3> QED
      BY <1>6, <1>7, <1>8, <1>9, <2>1, <3>1, Zenon
  <2>2. CASE b # a
    <3>1. b <= accepted
      BY <1>2, <1>3, <1>11, <2>2
    <3> QED
      BY <1>7, <2>2, <3>1, Zenon DEF FlowShape
  <2> QED
    BY <2>1, <2>2, Zenon
<1>12. projected' = View(accepted)' /\ accepted' # 0
  BY <1>2, <1>3, <1>7 DEF View
<1>13. committed' = IF terminals' = <<>> THEN Start ELSE View(Len(terminals))'
  <2>1. CASE terminals = <<>>
    BY <1>3, <1>5, <2>1, Zenon
  <2>2. CASE terminals # <<>>
    <3>1. Len(terminals) # 0
      BY <1>1, <2>2 DEF TypeQueue
    <3>2. Len(terminals) \in Actions /\ Len(terminals) # a
      BY <1>1, <1>2, <3>1, Numbers, Sizes
    <3>3. act'[Len(terminals)] = act[Len(terminals)]
      BY <1>7, <3>2, Zenon
    <3> QED
      BY <1>3, <1>5, <2>2, <3>3, Zenon DEF View
  <2> QED
    BY <2>1, <2>2, Zenon
<1> QED
  BY <1>10, <1>11, <1>12, <1>13, Zenon DEF FlowShape

LEMMA FlowResult ==
    ASSUME TypeOK, Shapes, FlowShape, NEW a \in Actions, NEW s \in Outcomes, Result(a, s),
           Len(terminals) = a - 1, UNCHANGED <<initial_admitted, accepted, act>>
    PROVE  FlowShape'
<1> USE ActionsNat
<1>1. CASE s = "OK"
  <2>1. /\ committed' = [state |-> act[a].state, original |-> act[a].original]
        /\ failed' = failed /\ projected' = projected
    BY <1>1, Zenon DEF Result
  <2>2. terminals' \in Seq(Actions) /\ Len(terminals') = Len(terminals) + 1
    BY ResultFacts, Zenon
  <2>3. Len(terminals') = a /\ terminals' # <<>>
    BY <2>2
  <2>4. committed' = View(Len(terminals))'
    BY <2>1, <2>3, Zenon DEF View
  <2> QED
    BY <2>1, <2>3, <2>4, Zenon DEF FlowShape, View
<1>2. CASE s # "OK"
  <2>1. failed' = TRUE
    BY <1>2, Zenon DEF Result
  <2> QED
    BY <2>1, Zenon DEF FlowShape
<1> QED
  BY <1>1, <1>2, Zenon

LEMMA FlowSame ==
    ASSUME FlowShape, failed' \in BOOLEAN, failed => failed',
           UNCHANGED <<initial_admitted, projected, accepted, act, committed, terminals>>
    PROVE  FlowShape'
BY Zenon DEF FlowShape, View

LEMMA FlowStep ==
    ASSUME TypeOK, Shapes, FlowShape, [Next]_vars PROVE FlowShape'
<1> USE DEF works, flags, linked
<1>1. ASSUME NEW a \in Actions, Worker(a) PROVE FlowShape'
  <2>1. CASE Deliver(a)
    <3>1. PICK s \in Outcomes : Result(a, s)
      BY <2>1 DEF Deliver, Outcomes
    <3>2. Len(terminals) = a - 1
      BY <2>1, SubmittedIsNext, Zenon DEF Deliver
    <3>3. UNCHANGED <<initial_admitted, accepted, act>>
      BY <2>1, Zenon DEF Deliver
    <3> QED
      BY <3>1, <3>2, <3>3, FlowResult, Zenon
  <2>2. CASE DeliverSynthetic(a)
    <3>1. /\ Head(hook[a].deps) \in Actions
          /\ Len(terminals) = Head(hook[a].deps) - 1
      BY <2>2, DependentIsNext, Zenon DEF DeliverSynthetic
    <3>2. hook[a].answer \in Outcomes
      BY DEF TypeOK, TypeQueue
    <3>3. /\ Result(Head(hook[a].deps), hook[a].answer)
          /\ UNCHANGED <<initial_admitted, accepted, act>>
      BY <2>2, Zenon DEF DeliverSynthetic
    <3> QED
      BY <3>1, <3>2, <3>3, FlowResult, Zenon
  <2>3. CASE PostResult(a)
    <3>1. Detached(a) \/ Advanced(a)
      BY <2>3, PostResultFacts, Zenon DEF Shapes
    <3>2. failed' \in BOOLEAN /\ (failed => failed')
      BY <3>1, Zenon DEF Detached, Advanced
    <3>3. UNCHANGED <<initial_admitted, projected, accepted, act, committed, terminals>>
      BY <2>3, Zenon DEF PostResult
    <3> QED
      BY <3>2, <3>3, FlowSame, Zenon
  <2>4. CASE PostResultEnds(a) \/ ReleaseSynthetic(a)
    <3>1. UNCHANGED <<failed, initial_admitted, projected, accepted, act, committed, terminals>>
      BY <2>4, Zenon DEF PostResultEnds, ReleaseSynthetic
    <3> QED
      BY <3>1, FlowSame, Zenon DEF TypeOK, TypeFlow
  <2> QED
    BY <1>1, <2>1, <2>2, <2>3, <2>4, Zenon DEF Worker
<1>2. CASE Quiet
  <2>1. UNCHANGED <<failed, initial_admitted, projected, accepted, act, committed, terminals>>
    BY <1>2, Zenon DEF Quiet
  <2> QED
    BY <2>1, FlowSame, Zenon DEF TypeOK, TypeFlow
<1> QED
  BY <1>1, <1>2, FlowAdmits, QueueSteps, Zenon

-----------------------------------------------------------------------------
(* The references count the users of the queue. *)

Hooks == {a \in Actions : stage[a] = "hook"}
Owns == IF owner_destroyed THEN 0 ELSE 1
Times == IF timer \in {"armed", "defers", "releases"} THEN 1 ELSE 0
Gone == /\ owner_destroyed
        /\ timer \in {"none", "done"}
        /\ \A a \in Actions : stage[a] \in {"unused", "done"}

LEMMA ReferencesAre ==
    ReferencesExact <=> /\ references = Cardinality(Hooks) + Owns + Times
                        /\ storage # "live" => Gone
BY Zenon DEF ReferencesExact, Hooks, Owns, Times, Gone

LEMMA HooksFinite ==
    ASSUME Laws
    PROVE  /\ Cardinality(Hooks) \in Nat
           /\ Cardinality(Hooks) = 0 => \A a \in Actions : stage[a] # "hook"
<1>1. Hooks \in SUBSET Actions
  BY Zenon DEF Hooks
<1>2. Cardinality(Hooks) \in Nat /\ (Cardinality(Hooks) = 0 => Hooks = {})
  BY <1>1, Zenon DEF Laws, CountLaws
<1> QED
  BY <1>2, Zenon DEF Hooks

(* A released queue has no user left, so whoever acts on it finds it live. *)
LEMMA UsedIsLive ==
    ASSUME TypeOK, ReferencesExact, OwnerShape,
           \/ handler # "gone"
           \/ timer \in {"armed", "defers", "releases"}
           \/ \E a \in Actions : stage[a] \notin {"unused", "done"}
    PROVE  storage = "live"
BY Zenon DEF ReferencesExact, OwnerShape

(* Steps that leave the number of users and the storage alone. *)
LEMMA ReferencesKept ==
    ASSUME ReferencesExact, storage = "live", UNCHANGED <<references, storage>>,
           Owns' = Owns, Times' = Times,
           \A a \in Actions : stage'[a] = "hook" <=> stage[a] = "hook"
    PROVE  ReferencesExact'
<1>1. Hooks' = Hooks
  BY Zenon DEF Hooks
<1>2. references' = Cardinality(Hooks') + Owns' + Times' /\ (storage' # "live" => Gone')
  BY <1>1, ReferencesAre, Zenon
<1>3. ReferencesExact' <=> /\ references' = Cardinality(Hooks') + Owns' + Times'
                           /\ storage' # "live" => Gone'
  BY Zenon DEF ReferencesExact, Hooks, Owns, Times, Gone
<1> QED
  BY <1>2, <1>3, Zenon

(* Once nothing is listed and nobody is a dependent, what is not in a      *)
(* post-hook is over.                                                      *)
LEMMA RestIsOver ==
    ASSUME TypeOK, Shapes, list = <<>>,
           \A b \in Actions : stage[b] \notin {"dependent", "finalized"}
    PROVE  \A b \in Actions : stage[b] \in {"unused", "done", "hook"}
<1> SUFFICES ASSUME NEW b \in Actions PROVE stage[b] \in {"unused", "done", "hook"}
  BY Zenon
<1>1. Len(list) = 0 /\ accepted \in Nat /\ stage[b] \in Stages /\ b \in Nat
  BY Numbers, ActionsNat DEF TypeOK
<1>2. ~Listed(b)
  BY <1>1 DEF Listed, First
<1>3. stage[b] \notin {"submitted", "delivered", "queued"}
  BY <1>2, Zenon DEF Shapes, StageShape, StageOf
<1> QED
  BY <1>1, <1>3, Zenon DEF Stages

(* An idle queue has no dependents. *)
LEMMA IdleIsOver ==
    ASSUME TypeOK, Shapes, ~active
    PROVE  list = <<>> /\ \A b \in Actions : stage[b] \in {"unused", "done", "hook"}
<1>1. list = <<>> /\ \A b \in Actions : stage[b] \notin {"dependent", "finalized"}
  BY Zenon DEF Shapes, CascadeShape, CascadeOf
<1> QED
  BY <1>1, RestIsOver, Zenon

LEMMA OneLess ==
    ASSUME NEW c \in Nat, NEW o \in Nat, NEW t \in Nat
    PROVE  \A p, u \in Nat :
             /\ p + u = o + t - 1 => (c + o + t) - 1 = c + p + u
             /\ c + p + u = 0 => c = 0 /\ p = 0 /\ u = 0
OBVIOUS

(* A user that is not in a post-hook leaves: the flow's owner or the timer. *)
LEMMA ReferencesDrop ==
    ASSUME Laws, TypeOK, Shapes, ReferencesExact, storage = "live", Drop(active),
           Owns' + Times' = Owns + Times - 1, UNCHANGED <<stage, active, list>>,
           timer' \in {"none", "armed", "defers", "releases", "done"}
    PROVE  ReferencesExact'
<1>1. Hooks' = Hooks
  BY Zenon DEF Hooks
<1>2. /\ Owns \in Nat /\ Times \in Nat /\ Owns' \in Nat /\ Times' \in Nat
      /\ Owns' = 0 => owner_destroyed'
      /\ Times' = 0 => timer' \notin {"armed", "defers", "releases"}
  BY DEF Owns, Times
<1>3. references = Cardinality(Hooks) + Owns + Times /\ Cardinality(Hooks) \in Nat
  BY ReferencesAre, HooksFinite, Zenon
<1>4. references' = references - 1
  BY Zenon DEF Drop
<1>8. \A p, u \in Nat :
         /\ p + u = Owns + Times - 1 =>
              (Cardinality(Hooks) + Owns + Times) - 1 = Cardinality(Hooks) + p + u
         /\ Cardinality(Hooks) + p + u = 0 => Cardinality(Hooks) = 0 /\ p = 0 /\ u = 0
  <2>1. Cardinality(Hooks) \in Nat /\ Owns \in Nat /\ Times \in Nat
    BY <1>2, <1>3, Zenon
  <2> QED
    BY <2>1, OneLess
<1>5. references' = Cardinality(Hooks') + Owns' + Times'
  BY <1>1, <1>2, <1>3, <1>4, <1>8, Zenon
<1>6. ASSUME storage' # "live" PROVE Gone'
  <2>1. references - 1 = 0 /\ ~active
    BY <1>6, Zenon DEF Drop
  <2>2. Cardinality(Hooks) = 0 /\ Owns' = 0 /\ Times' = 0
    <3>1. Cardinality(Hooks) + Owns' + Times' = 0
      BY <1>1, <1>4, <1>5, <2>1, Zenon
    <3>2. Owns' \in Nat /\ Times' \in Nat
      BY <1>2, Zenon
    <3> QED
      BY <1>8, <3>1, <3>2, Zenon
  <2>3. \A a \in Actions : stage[a] \in {"unused", "done"}
    BY <2>1, <2>2, HooksFinite, IdleIsOver, Zenon
  <2> QED
    BY <1>2, <2>2, <2>3, Zenon DEF Gone
<1>7. ReferencesExact' <=> /\ references' = Cardinality(Hooks') + Owns' + Times'
                           /\ storage' # "live" => Gone'
  BY Zenon DEF ReferencesExact, Hooks, Owns, Times, Gone
<1> QED
  BY <1>5, <1>6, <1>7, Zenon

LEMMA ReferencesWorker ==
    ASSUME Laws, TypeOK, Shapes, ReferencesExact, OwnerShape, NEW a \in Actions, Worker(a)
    PROVE  ReferencesExact'
<1>1. stage[a] \in {"submitted", "delivered", "hook"}
  BY Zenon DEF Worker, Deliver, PostResult, PostResultEnds, DeliverSynthetic, ReleaseSynthetic
<1>2. storage = "live"
  BY <1>1, UsedIsLive, Zenon
<1>3. UNCHANGED <<owner_destroyed, timer>>
  BY Zenon DEF Worker, Deliver, PostResult, PostResultEnds, DeliverSynthetic, ReleaseSynthetic
<1>4. Owns' = Owns /\ Times' = Times /\ Owns \in Nat /\ Times \in Nat
  BY <1>3 DEF Owns, Times
<1>5. stage \in [Actions -> Stages]
  BY Zenon DEF TypeOK, TypeQueue
<1>6. references = Cardinality(Hooks) + Owns + Times /\ Cardinality(Hooks) \in Nat
      /\ Hooks \in SUBSET Actions
  BY ReferencesAre, HooksFinite, Zenon DEF Hooks
<1>7. ReferencesExact' <=> /\ references' = Cardinality(Hooks') + Owns' + Times'
                           /\ storage' # "live" => Gone'
  BY Zenon DEF ReferencesExact, Hooks, Owns, Times, Gone
<1>8. CASE Deliver(a)
  <2>1. \A b \in Actions : stage'[b] = "hook" <=> stage[b] = "hook"
    BY <1>5, <1>8 DEF Deliver
  <2> QED
    BY <1>2, <1>4, <1>8, <2>1, ReferencesKept, Zenon DEF Deliver
<1>9. CASE DeliverSynthetic(a)
  <2>1. Head(hook[a].deps) \in Actions
    BY <1>9, DependentIsNext, Zenon DEF DeliverSynthetic
  <2>2. /\ stage' = [stage EXCEPT ![Head(hook[a].deps)] = "finalized"]
        /\ stage[Head(hook[a].deps)] = "dependent"
    BY <1>9, Zenon DEF DeliverSynthetic
  <2>3. \A b \in Actions : stage'[b] = "hook" <=> stage[b] = "hook"
    BY <1>5, <2>1, <2>2
  <2> QED
    BY <1>2, <1>4, <1>9, <2>3, ReferencesKept, Zenon DEF DeliverSynthetic
<1>10. CASE ReleaseSynthetic(a)
  <2>1. Head(hook[a].deps) \in Actions
    BY <1>10, DependentIsNext, Zenon DEF ReleaseSynthetic
  <2>2. /\ stage' = [stage EXCEPT ![Head(hook[a].deps)] = "done"]
        /\ stage[Head(hook[a].deps)] = "finalized"
    BY <1>10, Zenon DEF ReleaseSynthetic
  <2>3. \A b \in Actions : stage'[b] = "hook" <=> stage[b] = "hook"
    BY <1>5, <2>1, <2>2
  <2> QED
    BY <1>2, <1>4, <1>10, <2>3, ReferencesKept, Zenon DEF ReleaseSynthetic
<1>11. CASE PostResult(a)
  <2>1. Detached(a) \/ Advanced(a)
    BY <1>11, PostResultFacts, Zenon DEF Shapes
  <2>2. stage[a] = "delivered" /\ references' = references + 1 /\ storage' = storage
    BY <1>11, Zenon DEF PostResult, Retain
  <2>3. \A b \in Actions : b # a => (stage'[b] = "hook" <=> stage[b] = "hook")
    <3>1. CASE Advanced(a)
      <4>1. ASSUME NEW b \in Actions, b # a PROVE stage'[b] = "hook" <=> stage[b] = "hook"
        <5>1. stage'[b] = stage[b] \/ (stage'[b] = "submitted" /\ a < accepted /\ b = a + 1)
          BY <3>1, <4>1, Zenon DEF Advanced
        <5>2. a < accepted /\ b = a + 1 => stage[b] # "hook"
          <6>1. TypeQueue /\ accepted = a + Len(list) - 1 /\ a = First
            BY <2>2, DeliveredIsAlone, Zenon DEF TypeOK
          <6>2. accepted \in Nat /\ Len(list) \in Nat /\ a \in Nat
            BY <6>1, Numbers, ActionsNat
          <6>3. a < accepted /\ b = a + 1 => Listed(b) /\ b # First
            BY <6>1, <6>2 DEF Listed, First
          <6>4. Listed(b) /\ b # First => stage[b] = "queued"
            BY Zenon DEF Shapes, StageShape, StageOf
          <6> QED
            BY <6>3, <6>4
        <5> QED
          BY <5>1, <5>2
      <4> QED
        BY <4>1, Zenon
    <3>2. CASE Detached(a)
      <4>1. ASSUME NEW b \in Actions, b # a PROVE stage'[b] = "hook" <=> stage[b] = "hook"
        <5>1. \/ stage'[b] = stage[b]
              \/ stage'[b] = "dependent" /\ a < b /\ b <= accepted
          BY <3>2, <4>1, Zenon DEF Detached
        <5>2. a < b /\ b <= accepted => stage[b] # "hook"
          <6>1. TypeQueue /\ a = First
            BY <2>2, DeliveredIsAlone, Zenon DEF TypeOK
          <6>2. accepted \in Nat /\ a \in Nat /\ b \in Nat
            BY <6>1, Numbers, ActionsNat
          <6>3. a < b /\ b <= accepted => Listed(b) /\ b # First
            BY <6>1, <6>2 DEF Listed
          <6>4. Listed(b) /\ b # First => stage[b] = "queued"
            BY Zenon DEF Shapes, StageShape, StageOf
          <6> QED
            BY <6>3, <6>4
        <5> QED
          BY <5>1, <5>2
      <4> QED
        BY <4>1, Zenon
    <3> QED
      BY <2>1, <3>1, <3>2, Zenon
  <2>4. stage'[a] = "hook"
    BY <2>1, Zenon DEF Detached, Advanced
  <2>5. Hooks' = Hooks \cup {a} /\ a \notin Hooks
    BY <2>2, <2>3, <2>4 DEF Hooks
  <2>6. Cardinality(Hooks') = Cardinality(Hooks) + 1
    BY <1>6, <2>5, Zenon DEF Laws, CountLaws
  <2>7. references' = Cardinality(Hooks') + Owns' + Times'
    BY <1>4, <1>6, <2>2, <2>6
  <2> QED
    BY <1>2, <1>7, <2>2, <2>7, Zenon
<1>12. CASE PostResultEnds(a)
  <2>1. /\ stage[a] = "hook" /\ hook[a].deps = <<>>
        /\ active' = (active /\ ~hook[a].cascade) /\ Drop(active')
        /\ stage' = [stage EXCEPT ![a] = "done"]
    BY <1>12, Zenon DEF PostResultEnds
  <2>2. Hooks' = Hooks \ {a} /\ a \in Hooks
    BY <1>5, <2>1 DEF Hooks
  <2>3. Cardinality(Hooks') = Cardinality(Hooks) - 1
    BY <1>6, <2>2, Zenon DEF Laws, CountLaws
  <2>4. references' = references - 1
    BY <2>1, Zenon DEF Drop
  <2>5. references' = Cardinality(Hooks') + Owns' + Times'
    BY <1>4, <1>6, <2>3, <2>4
  <2>6. ASSUME storage' # "live" PROVE Gone'
    <3>1. references - 1 = 0 /\ ~active' /\ list = <<>>
      BY <1>2, <2>1, <2>6, Zenon DEF Drop
    <3>2. Cardinality(Hooks) = 1 /\ Owns = 0 /\ Times = 0
      <4>1. Cardinality(Hooks) # 0
        BY <2>1, HooksFinite, Zenon
      <4> QED
        BY <1>4, <1>6, <3>1, <4>1
    <3>3. \A b \in Actions : b # a => stage[b] # "hook"
      <4>1. Cardinality(Hooks') = 0 /\ Hooks' \in SUBSET Actions
        BY <1>6, <2>2, <2>3, <3>2
      <4>2. Hooks' = {}
        BY <4>1, Zenon DEF Laws, CountLaws
      <4> QED
        BY <2>2, <4>2 DEF Hooks
    <3>4. \A b \in Actions : stage[b] \notin {"dependent", "finalized"}
      <4>1. CASE ~active
        BY <4>1, Zenon DEF Shapes, CascadeShape, CascadeOf
      <4>2. CASE active
        <5>1. Cascading(a)
          BY <2>1, <3>1, <4>2, Zenon DEF Cascading
        <5>2. CascadeOf(a)
          BY <5>1, Zenon DEF Shapes, CascadeShape
        <5>3. Len(hook[a].deps) = 0 /\ accepted \in Nat
          BY <2>1, Numbers, Zenon DEF TypeOK
        <5>4. \A b \in Actions : ~Owed(a, b)
          BY <5>3, ActionsNat DEF Owed
        <5> QED
          BY <5>2, <5>4, Zenon DEF CascadeOf
      <4> QED
        BY <4>1, <4>2, Zenon
    <3>5. \A b \in Actions : stage[b] \in {"unused", "done", "hook"}
      BY <3>1, <3>4, RestIsOver, Zenon
    <3>6. \A b \in Actions : stage'[b] \in {"unused", "done"}
      BY <1>5, <2>1, <3>3, <3>5
    <3>7. owner_destroyed /\ timer \notin {"armed", "defers", "releases"}
      BY <3>2 DEF Owns, Times
    <3>8. timer \in {"none", "done"}
      BY <3>7, Zenon DEF TypeOK, TypeUse
    <3> QED
      BY <1>3, <3>6, <3>7, <3>8, Zenon DEF Gone
  <2> QED
    BY <1>7, <2>5, <2>6, Zenon
<1> QED
  BY <1>8, <1>9, <1>10, <1>11, <1>12, Zenon DEF Worker

(* The post-hooks are the same after a call, which acts on a live queue.   *)
LEMMA ReferencesCall ==
    ASSUME TypeOK, Shapes, ReferencesExact, OwnerShape,
           handler = "running" \/ timer = "defers",
           (\E kind \in Kinds : Admits(kind)) \/ Quiet,
           Times' = Times, UNCHANGED <<references, owner_destroyed, storage>>
    PROVE  ReferencesExact'
<1>1. storage = "live"
  BY UsedIsLive
<1>2. Owns' = Owns
  BY Zenon DEF Owns
<1>3. \A b \in Actions : stage'[b] = "hook" <=> stage[b] = "hook"
  <2>1. ASSUME NEW kind \in Kinds, Admits(kind)
        PROVE  \A b \in Actions : stage'[b] = "hook" <=> stage[b] = "hook"
    <3>1. accepted + 1 \in Actions /\ Accept(accepted + 1, kind)
      BY <2>1, Zenon DEF Admits
    <3>2. stage' = [b \in Actions |->
                      IF b = accepted + 1 THEN IF active THEN "queued" ELSE "submitted"
                      ELSE stage[b]]
      BY <3>1, AcceptFacts, Zenon DEF TypeOK, Shapes
    <3>3. stage[accepted + 1] = "unused"
      <4>1. accepted < accepted + 1
        BY Numbers DEF TypeOK
      <4> QED
        BY <3>1, <4>1, Zenon DEF Shapes, StageShape, StageOf
    <3> QED
      BY <3>1, <3>2, <3>3
  <2>2. CASE Quiet
    BY <2>2, Zenon DEF Quiet
  <2> QED
    BY <2>1, <2>2, Zenon
<1> QED
  BY <1>1, <1>2, <1>3, ReferencesKept, Zenon

LEMMA ReferencesStep ==
    ASSUME Laws, TypeOK, Shapes, ReferencesExact, OwnerShape, [Next]_vars
    PROVE  ReferencesExact'
<1>1. ASSUME UNCHANGED <<stage, references, owner_destroyed, timer>>,
             storage' # "live" => storage # "live"
      PROVE  ReferencesExact'
  BY <1>1, Zenon DEF ReferencesExact
<1>2. CASE UNCHANGED vars
  BY <1>1, <1>2, Zenon DEF vars
<1>3. ASSUME NEW call \in Calls, Enqueue(call) PROVE ReferencesExact'
  <2>1. Times' = Times
    BY <1>3, EnqueueStep, Zenon DEF Times
  <2> QED
    BY <1>3, <2>1, EnqueueStep, ReferencesCall, Zenon
<1>4. CASE TimerDefers
  <2>1. timer = "defers" /\ timer' = "releases"
    BY <1>4, TimerDefersStep, Zenon
  <2>2. Times' = Times
    BY <2>1 DEF Times
  <2> QED
    BY <1>4, <2>1, <2>2, TimerDefersStep, ReferencesCall, Zenon
<1>5. ASSUME NEW a \in Actions, Cancel(a) PROVE ReferencesExact'
  BY <1>1, <1>5, Zenon DEF Cancel
<1>6. ASSUME NEW a \in Actions, Worker(a) PROVE ReferencesExact'
  BY <1>6, ReferencesWorker, Zenon
<1>7. CASE Finalize
  <2>1. storage # "live"
    BY <1>7 DEF Finalize
  <2> QED
    BY <1>1, <1>7, <2>1, Zenon DEF Finalize
<1>8. CASE AutoDeferStart
  <2>1. handler = "starting" /\ timer = "none" /\ UNCHANGED <<stage, owner_destroyed, storage>>
    BY <1>8, Zenon DEF AutoDeferStart, OwnerShape
  <2>2. CASE UNCHANGED <<timer, references>>
    BY <1>1, <2>1, <2>2, Zenon
  <2>3. CASE timer' = "armed" /\ Retain
    <3>1. storage = "live"
      BY <2>1, UsedIsLive
    <3>2. Hooks' = Hooks /\ Owns' = Owns
      BY <2>1, Zenon DEF Hooks, Owns
    <3>3. Times = 0 /\ Times' = 1 /\ Owns \in Nat
      BY <2>1, <2>3 DEF Times, Owns
    <3>4. references = Cardinality(Hooks) + Owns + Times /\ Cardinality(Hooks) \in Nat
      BY ReferencesAre, HooksFinite, Zenon
    <3>5. references' = references + 1
      BY <2>3, Zenon DEF Retain
    <3>6. references' = Cardinality(Hooks) + Owns + 1
      BY <3>3, <3>4, <3>5
    <3>7. references' = Cardinality(Hooks') + Owns' + Times'
      BY <3>2, <3>3, <3>6, Zenon
    <3> QED
      BY <2>1, <3>1, <3>7, Zenon DEF ReferencesExact, Hooks, Owns, Times
  <2> QED
    BY <1>8, <2>2, <2>3, Zenon DEF AutoDeferStart
<1>9. CASE TimerWakes
  <2>1. timer = "armed" /\ timer' \in {"defers", "releases"}
        /\ UNCHANGED <<stage, references, owner_destroyed, storage>>
    BY <1>9, Zenon DEF TimerWakes
  <2>2. storage = "live"
    BY <2>1, UsedIsLive
  <2>3. Times' = Times
    BY <2>1 DEF Times
  <2>4. Owns' = Owns
    BY <2>1, Zenon DEF Owns
  <2> QED
    BY <2>1, <2>2, <2>3, <2>4, ReferencesKept, Zenon
<1>10. CASE TimerReleases
  <2>1. timer = "releases" /\ timer' = "done" /\ Drop(active)
        /\ UNCHANGED <<stage, active, list, owner_destroyed>>
    BY <1>10, Zenon DEF TimerReleases, linked
  <2>2. storage = "live"
    BY <2>1, UsedIsLive
  <2>3. Owns' = Owns /\ Times = 1 /\ Times' = 0 /\ Owns \in Nat
    BY <2>1 DEF Owns, Times
  <2>4. Owns' + Times' = Owns + Times - 1
    BY <2>3
  <2>5. timer' \in {"none", "armed", "defers", "releases", "done"}
    BY <2>1, Zenon
  <2> QED
    BY <2>1, <2>2, <2>4, <2>5, ReferencesDrop, Zenon
<1>11. CASE HandlerReturns
  BY <1>1, <1>11, Zenon DEF HandlerReturns
<1>12. CASE FlowDestroy
  <2>1. handler = "finished" /\ owner_destroyed' = TRUE /\ Drop(active)
        /\ UNCHANGED <<stage, active, list, timer>>
    BY <1>12, Zenon DEF FlowDestroy, linked
  <2>2. storage = "live" /\ ~owner_destroyed
    BY <2>1, UsedIsLive DEF OwnerShape
  <2>3. Owns = 1 /\ Owns' = 0 /\ Times' = Times /\ Times \in Nat
    BY <2>1, <2>2 DEF Owns, Times
  <2>4. Owns' + Times' = Owns + Times - 1
    BY <2>3
  <2>5. timer' \in {"none", "armed", "defers", "releases", "done"}
    BY <2>1, Zenon DEF TypeOK, TypeUse
  <2> QED
    BY <2>1, <2>2, <2>4, <2>5, ReferencesDrop, Zenon
<1>13. CASE Environment
  BY <1>1, <1>2, <1>13, Zenon DEF Environment, OthersReserve, OthersRelease, ClientStop, Over
<1> QED
  BY <1>2, <1>3, <1>4, <1>5, <1>6, <1>7, <1>8, <1>9, <1>10, <1>11, <1>12, <1>13, Zenon DEF Next

LEMMA OwnerStep ==
    ASSUME TypeOK, Shapes, OwnerShape, [Next]_vars PROVE OwnerShape'
<1>1. CASE UNCHANGED <<owner_destroyed, handler, timer>>
  BY <1>1, Zenon DEF OwnerShape
<1>2. ASSUME NEW call \in Calls, Enqueue(call) PROVE OwnerShape'
  BY <1>1, <1>2, EnqueueStep, Zenon
<1>3. CASE TimerDefers
  BY <1>3, TimerDefersStep DEF OwnerShape
<1>4. ASSUME NEW a \in Actions, Cancel(a) \/ Worker(a)
      PROVE  UNCHANGED <<owner_destroyed, handler, timer>>
  BY <1>4, Zenon DEF Cancel, Worker, Deliver, PostResult, PostResultEnds, DeliverSynthetic,
     ReleaseSynthetic
<1>5. CASE Finalize \/ Environment \/ UNCHANGED vars
  BY <1>1, <1>5, Zenon DEF Finalize, Environment, OthersReserve, OthersRelease, ClientStop,
     Over, vars
<1>6. CASE AutoDeferStart
  BY <1>6 DEF AutoDeferStart, OwnerShape
<1>7. CASE TimerWakes
  BY <1>7 DEF TimerWakes, OwnerShape
<1>8. CASE TimerReleases
  BY <1>8 DEF TimerReleases, OwnerShape
<1>9. CASE HandlerReturns
  BY <1>9 DEF HandlerReturns, OwnerShape
<1>10. CASE FlowDestroy
  BY <1>10 DEF FlowDestroy, OwnerShape
<1> QED
  BY <1>1, <1>2, <1>3, <1>4, <1>5, <1>6, <1>7, <1>8, <1>9, <1>10, Zenon DEF Next

LEMMA ReferencesNat == Laws /\ ReferencesExact => references \in Nat
<1> SUFFICES ASSUME Laws, ReferencesExact PROVE references \in Nat
  OBVIOUS
<1>1. Owns \in Nat /\ Times \in Nat
  BY DEF Owns, Times
<1>2. Cardinality(Hooks) \in Nat
  BY HooksFinite, Zenon
<1>3. Cardinality(Hooks) + Owns + Times \in Nat
  BY <1>1, <1>2
<1> QED
  BY <1>3, ReferencesAre, Zenon

LEMMA ReferencesNatNext == (Laws /\ ReferencesExact => references \in Nat)'
BY ReferencesNat, PTL

(* The users of the queue keep their types. *)
LEMMA UseType ==
    ASSUME Laws, TypeOK, Shapes, ReferencesExact', [Next]_vars PROVE TypeUse'
<1>1. references' \in Nat
  BY ReferencesNatNext, Zenon
<1>2. /\ owner_destroyed \in BOOLEAN /\ stopping \in BOOLEAN
      /\ handler \in {"starting", "running", "finished", "gone"}
      /\ timer \in {"none", "armed", "defers", "releases", "done"}
      /\ storage \in {"live", "released", "freed"}
  BY Zenon DEF TypeOK, TypeUse
<1> SUFFICES /\ owner_destroyed' \in BOOLEAN /\ stopping' \in BOOLEAN
             /\ handler' \in {"starting", "running", "finished", "gone"}
             /\ timer' \in {"none", "armed", "defers", "releases", "done"}
             /\ storage' \in {"live", "released", "freed"}
  BY <1>1, Zenon DEF TypeUse
<1>3. CASE UNCHANGED <<owner_destroyed, stopping, handler, timer, storage>>
  BY <1>2, <1>3, Zenon
<1>4. ASSUME NEW call \in Calls, Enqueue(call)
      PROVE  UNCHANGED <<owner_destroyed, stopping, handler, timer, storage>>
  BY <1>4, EnqueueStep, Zenon
<1>5. CASE TimerDefers
  BY <1>2, <1>5, TimerDefersStep, Zenon
<1>6. ASSUME NEW a \in Actions, Cancel(a) \/ Worker(a)
      PROVE  /\ UNCHANGED <<owner_destroyed, stopping, handler, timer>>
             /\ storage' \in {"live", "released", "freed"}
  BY <1>2, <1>6, Zenon DEF Cancel, Worker, Deliver, PostResult, PostResultEnds, DeliverSynthetic,
     ReleaseSynthetic, Drop
<1>7. CASE UNCHANGED vars \/ Finalize \/ Environment
  BY <1>2, <1>3, <1>7, Zenon DEF vars, Finalize, Environment, OthersReserve, OthersRelease,
     ClientStop, Over
<1>8. CASE AutoDeferStart \/ TimerWakes \/ HandlerReturns
  BY <1>2, <1>8, Zenon DEF AutoDeferStart, TimerWakes, HandlerReturns
<1>9. CASE TimerReleases \/ FlowDestroy
  BY <1>2, <1>9, Zenon DEF TimerReleases, FlowDestroy, Drop
<1> QED
  BY <1>2, <1>3, <1>4, <1>5, <1>6, <1>7, <1>8, <1>9, Zenon DEF Next

-----------------------------------------------------------------------------
(* The byte counters. *)

HeldSet == {a \in Actions : Held(a)}
Weight == [n \in 1 .. MaxAccepted |-> IF Held(n) THEN Cost[n] ELSE 0]

(* CostOf is the partial sums of the costs of the actions still held. *)
LEMMA CostIsSum ==
    Laws => /\ Weight \in [1 .. MaxAccepted -> Nat]
            /\ PartialSums(CostOf, Weight, MaxAccepted)
<1> SUFFICES ASSUME Laws
             PROVE  /\ Weight \in [1 .. MaxAccepted -> Nat]
                    /\ PartialSums(CostOf, Weight, MaxAccepted)
  OBVIOUS
<1> DEFINE P(f) == f = [n \in 0 .. MaxAccepted |->
                          IF n = 0 THEN 0
                          ELSE f[n - 1] + (IF Held(n) THEN Cost[n] ELSE 0)]
<1>1. MaxAccepted \in Nat
  BY Sizes, Zenon
<1>2. Weight \in [1 .. MaxAccepted -> Nat]
  <2>1. \A n \in 1 .. MaxAccepted : Cost[n] \in Nat
    BY Sizes
  <2> QED
    BY <2>1 DEF Weight
<1>3. \A n \in 0 .. MaxAccepted : n # 0 => n \in 1 .. MaxAccepted
  BY <1>1
<1>4. ASSUME NEW f PROVE PartialSums(f, Weight, MaxAccepted) <=> P(f)
  <2>1. \A n \in 0 .. MaxAccepted : n # 0 => Weight[n] = IF Held(n) THEN Cost[n] ELSE 0
    BY <1>3, Zenon DEF Weight
  <2>2. [n \in 0 .. MaxAccepted |-> IF n = 0 THEN 0 ELSE f[n - 1] + Weight[n]]
          = [n \in 0 .. MaxAccepted |->
               IF n = 0 THEN 0 ELSE f[n - 1] + (IF Held(n) THEN Cost[n] ELSE 0)]
    BY <2>1, Zenon
  <2> QED
    BY <2>2, Zenon DEF PartialSums
<1>5. CostOf = CHOOSE f : P(f)
  BY Zenon DEF CostOf
<1> HIDE DEF P
<1>6. \E f : P(f)
  BY <1>2, <1>4, Zenon DEF Laws, SumLaws
<1> QED
  BY <1>2, <1>4, <1>5, <1>6, Zenon

LEMMA CostIsSumNext ==
    (Laws => /\ Weight \in [1 .. MaxAccepted -> Nat]
             /\ PartialSums(CostOf, Weight, MaxAccepted))'
BY CostIsSum, PTL

LEMMA HeldFinite ==
    ASSUME Laws PROVE HeldSet \in SUBSET Actions /\ Cardinality(HeldSet) \in Nat
BY Zenon DEF HeldSet, Laws, CountLaws

(* At most one action starts or stops being held. *)
LEMMA CostChange ==
    ASSUME Laws, NEW a \in Actions, \A b \in Actions : b # a => (Held(b)' <=> Held(b))
    PROVE  /\ CostOf[MaxAccepted] \in Nat /\ CostOf'[MaxAccepted] \in Nat
           /\ Cost[a] \in Nat
           /\ Held(a)' /\ ~Held(a) => CostOf'[MaxAccepted] = CostOf[MaxAccepted] + Cost[a]
           /\ ~Held(a)' /\ Held(a) => CostOf'[MaxAccepted] = CostOf[MaxAccepted] - Cost[a]
           /\ (Held(a)' <=> Held(a)) => CostOf'[MaxAccepted] = CostOf[MaxAccepted]
<1>1. MaxAccepted \in Nat /\ Actions = 1 .. MaxAccepted /\ Cost[a] \in Nat
  BY Sizes
<1>2. Weight \in [1 .. MaxAccepted -> Nat] /\ PartialSums(CostOf, Weight, MaxAccepted)
  BY CostIsSum, Zenon
<1>3. Weight' \in [1 .. MaxAccepted -> Nat] /\ PartialSums(CostOf', Weight', MaxAccepted)
  BY CostIsSumNext, Zenon
<1>4. \A n \in 1 .. MaxAccepted : n # a => Weight'[n] = Weight[n]
  BY <1>1, Zenon DEF Weight
<1>5. /\ CostOf[MaxAccepted] \in Nat /\ CostOf'[MaxAccepted] \in Nat
      /\ CostOf'[MaxAccepted] - Weight'[a] = CostOf[MaxAccepted] - Weight[a]
  <2>1. a \in 1 .. MaxAccepted /\ MaxAccepted \in Nat
    BY <1>1, Zenon
  <2>3. \A w, v \in [1 .. MaxAccepted -> Nat] :
          (\A n \in 1 .. MaxAccepted : n # a => v[n] = w[n]) =>
             \A f, g : PartialSums(f, w, MaxAccepted) /\ PartialSums(g, v, MaxAccepted) =>
                /\ f[MaxAccepted] \in Nat /\ g[MaxAccepted] \in Nat
                /\ g[MaxAccepted] - v[a] = f[MaxAccepted] - w[a]
    BY <2>1, Zenon DEF Laws, SumLaws
  <2>2. \A f, g : /\ PartialSums(f, Weight, MaxAccepted)
                  /\ PartialSums(g, Weight', MaxAccepted)
                  => /\ f[MaxAccepted] \in Nat /\ g[MaxAccepted] \in Nat
                     /\ g[MaxAccepted] - Weight'[a] = f[MaxAccepted] - Weight[a]
    BY <1>2, <1>3, <1>4, <2>3, Zenon
  <2> QED
    BY <1>2, <1>3, <2>2, Zenon
<1>6. /\ Held(a) => Weight[a] = Cost[a]
      /\ ~Held(a) => Weight[a] = 0
      /\ Held(a)' => Weight'[a] = Cost[a]
      /\ ~Held(a)' => Weight'[a] = 0
  BY <1>1, Zenon DEF Weight
<1>7. /\ CostOf'[MaxAccepted] - Cost[a] = CostOf[MaxAccepted] - 0 =>
           CostOf'[MaxAccepted] = CostOf[MaxAccepted] + Cost[a]
      /\ CostOf'[MaxAccepted] - 0 = CostOf[MaxAccepted] - Cost[a] =>
           CostOf'[MaxAccepted] = CostOf[MaxAccepted] - Cost[a]
      /\ CostOf'[MaxAccepted] - Cost[a] = CostOf[MaxAccepted] - Cost[a] =>
           CostOf'[MaxAccepted] = CostOf[MaxAccepted]
      /\ CostOf'[MaxAccepted] - 0 = CostOf[MaxAccepted] - 0 =>
           CostOf'[MaxAccepted] = CostOf[MaxAccepted]
  <2>1. CostOf'[MaxAccepted] \in Nat /\ CostOf[MaxAccepted] \in Nat /\ Cost[a] \in Nat
    BY <1>1, <1>5, Zenon
  <2> QED
    BY <2>1
<1> QED
  BY <1>1, <1>5, <1>6, <1>7, Zenon

LEMMA CountChange ==
    ASSUME Laws, NEW a \in Actions, \A b \in Actions : b # a => (Held(b)' <=> Held(b))
    PROVE  /\ Cardinality(HeldSet) \in Nat
           /\ Held(a)' /\ ~Held(a) => Cardinality(HeldSet') = Cardinality(HeldSet) + 1
           /\ ~Held(a)' /\ Held(a) => Cardinality(HeldSet') = Cardinality(HeldSet) - 1
           /\ (Held(a)' <=> Held(a)) => Cardinality(HeldSet') = Cardinality(HeldSet)
<1>1. HeldSet \in SUBSET Actions /\ Cardinality(HeldSet) \in Nat
  BY HeldFinite, Zenon
<1>2. \A b : /\ b \in HeldSet <=> b \in Actions /\ Held(b)
             /\ b \in HeldSet' <=> b \in Actions /\ Held(b)'
  BY Zenon DEF HeldSet
<1>3. CASE Held(a)' /\ ~Held(a)
  <2>1. HeldSet' = HeldSet \cup {a} /\ a \notin HeldSet
    BY <1>2, <1>3, Zenon
  <2> QED
    BY <1>1, <1>3, <2>1, Zenon DEF Laws, CountLaws
<1>4. CASE ~Held(a)' /\ Held(a)
  <2>1. HeldSet' = HeldSet \ {a} /\ a \in HeldSet
    BY <1>2, <1>4, Zenon
  <2> QED
    BY <1>1, <1>4, <2>1, Zenon DEF Laws, CountLaws
<1>5. CASE Held(a)' <=> Held(a)
  <2>1. HeldSet' = HeldSet
    BY <1>2, <1>5, Zenon
  <2> QED
    BY <1>1, <1>5, <2>1, Zenon
<1> QED
  BY <1>1, <1>3, <1>4, <1>5, Zenon

LEMMA BytesAre ==
    BytesExact <=> /\ reserved = IdentityCharge + CostOf[MaxAccepted]
                   /\ action_count = Cardinality(HeldSet)
                   /\ total = others + (IF storage = "freed" THEN 0 ELSE reserved)
                   /\ reserved <= MaxQueueBytes /\ total <= MaxTotalBytes
BY Zenon DEF BytesExact, HeldSet

LEMMA BytesAreNext ==
    (BytesExact <=> /\ reserved = IdentityCharge + CostOf[MaxAccepted]
                    /\ action_count = Cardinality(HeldSet)
                    /\ total = others + (IF storage = "freed" THEN 0 ELSE reserved)
                    /\ reserved <= MaxQueueBytes /\ total <= MaxTotalBytes)'
BY BytesAre, PTL

(* Nothing starts or stops being held, and the counters stay. *)
LEMMA BytesKept ==
    ASSUME Laws, BytesExact, \A b \in Actions : Held(b)' <=> Held(b),
           UNCHANGED <<reserved, action_count, total, others>>,
           storage' = "freed" <=> storage = "freed"
    PROVE  BytesExact'
<1>1. PICK a \in Actions : TRUE
  <2>1. 1 \in Actions
    BY SizesAssumption DEF Actions
  <2> QED
    BY <2>1, Zenon
<1>2. CostOf'[MaxAccepted] = CostOf[MaxAccepted]
  BY CostChange, Zenon
<1>3. Cardinality(HeldSet') = Cardinality(HeldSet)
  BY CountChange, Zenon
<1> QED
  BY <1>2, <1>3, BytesAre, BytesAreNext, Zenon

(* Action a becomes held, on a queue that is not freed. *)
LEMMA BytesReserved ==
    ASSUME Laws, TypeBytes, BytesExact, NEW a \in Actions, ~Held(a), Held(a)',
           \A b \in Actions : b # a => (Held(b)' <=> Held(b)),
           Room(a), Reserve(a), others' = others, storage = "live", storage' = storage
    PROVE  BytesExact'
<1>1. /\ CostOf[MaxAccepted] \in Nat /\ Cost[a] \in Nat
      /\ CostOf'[MaxAccepted] = CostOf[MaxAccepted] + Cost[a]
  BY CostChange, Zenon
<1>2. Cardinality(HeldSet) \in Nat /\ Cardinality(HeldSet') = Cardinality(HeldSet) + 1
  BY CountChange, Zenon
<1>3. /\ reserved = IdentityCharge + CostOf[MaxAccepted]
      /\ action_count = Cardinality(HeldSet)
      /\ total = others + reserved
  BY BytesAre DEF TypeBytes
<1>4. /\ reserved' = reserved + Cost[a] /\ action_count' = action_count + 1
      /\ total' = total + Cost[a]
      /\ Cost[a] <= MaxQueueBytes - reserved /\ Cost[a] <= MaxTotalBytes - total
  BY Zenon DEF Room, Reserve
<1>5. /\ IdentityCharge \in Nat /\ MaxQueueBytes \in Nat /\ MaxTotalBytes \in Nat
      /\ reserved \in Nat /\ total \in Nat /\ others \in Nat
  BY Sizes, Zenon DEF TypeBytes
<1>6. reserved' = IdentityCharge + CostOf'[MaxAccepted]
  <2>1. IdentityCharge \in Nat /\ CostOf[MaxAccepted] \in Nat /\ Cost[a] \in Nat
    BY <1>1, <1>5, Zenon
  <2>2. (IdentityCharge + CostOf[MaxAccepted]) + Cost[a]
          = IdentityCharge + (CostOf[MaxAccepted] + Cost[a])
    BY <2>1
  <2> QED
    BY <1>1, <1>3, <1>4, <2>2, Zenon
<1>7. action_count' = Cardinality(HeldSet')
  BY <1>2, <1>3, <1>4, Zenon
<1>8. total' = others' + reserved'
  <2>1. others \in Nat /\ reserved \in Nat /\ Cost[a] \in Nat
    BY <1>1, <1>5, Zenon
  <2>2. (others + reserved) + Cost[a] = others + (reserved + Cost[a])
    BY <2>1
  <2> QED
    BY <1>3, <1>4, <2>2, Zenon
<1>9. reserved' <= MaxQueueBytes /\ total' <= MaxTotalBytes
  <2>1. \A c, x, y \in Nat : c <= x - y => y + c <= x
    OBVIOUS
  <2> QED
    BY <1>1, <1>4, <1>5, <2>1, Zenon
<1>10. storage' # "freed"
  OBVIOUS
<1> QED
  BY <1>6, <1>7, <1>8, <1>9, <1>10, BytesAreNext, Zenon

(* Action a stops being held. *)
LEMMA BytesReleased ==
    ASSUME Laws, TypeBytes, BytesExact, NEW a \in Actions, Held(a), ~Held(a)',
           \A b \in Actions : b # a => (Held(b)' <=> Held(b)),
           Release(a), others' = others, storage = "live", storage' = storage
    PROVE  BytesExact'
<1>1. /\ CostOf[MaxAccepted] \in Nat /\ Cost[a] \in Nat /\ CostOf'[MaxAccepted] \in Nat
      /\ CostOf'[MaxAccepted] = CostOf[MaxAccepted] - Cost[a]
  BY CostChange, Zenon
<1>2. Cardinality(HeldSet) \in Nat /\ Cardinality(HeldSet') = Cardinality(HeldSet) - 1
  BY CountChange, Zenon
<1>3. /\ reserved = IdentityCharge + CostOf[MaxAccepted]
      /\ action_count = Cardinality(HeldSet)
      /\ total = others + reserved
      /\ reserved <= MaxQueueBytes /\ total <= MaxTotalBytes
  BY BytesAre DEF TypeBytes
<1>4. /\ reserved' = reserved - Cost[a] /\ action_count' = action_count - 1
      /\ total' = total - Cost[a]
  BY Zenon DEF Release
<1>5. /\ IdentityCharge \in Nat /\ MaxQueueBytes \in Nat /\ MaxTotalBytes \in Nat
      /\ reserved \in Nat /\ total \in Nat /\ others \in Nat
  BY Sizes, Zenon DEF TypeBytes
<1>6. IdentityCharge \in Nat /\ CostOf[MaxAccepted] \in Nat /\ Cost[a] \in Nat
      /\ others \in Nat /\ reserved \in Nat
  BY <1>1, <1>5, Zenon
<1>7. reserved' = IdentityCharge + CostOf'[MaxAccepted]
  <2>1. (IdentityCharge + CostOf[MaxAccepted]) - Cost[a]
          = IdentityCharge + (CostOf[MaxAccepted] - Cost[a])
    BY <1>6
  <2> QED
    BY <1>1, <1>3, <1>4, <2>1, Zenon
<1>8. action_count' = Cardinality(HeldSet')
  BY <1>2, <1>3, <1>4, Zenon
<1>9. total' = others' + reserved'
  <2>1. (others + reserved) - Cost[a] = others + (reserved - Cost[a])
    BY <1>6
  <2> QED
    BY <1>3, <1>4, <2>1, Zenon
<1>10. reserved' <= MaxQueueBytes /\ total' <= MaxTotalBytes
  <2>1. \A c, x, y \in Nat : y <= x => y - c <= x
    OBVIOUS
  <2> QED
    BY <1>1, <1>3, <1>4, <1>5, <2>1, Zenon
<1>11. storage' # "freed"
  OBVIOUS
<1> QED
  BY <1>7, <1>8, <1>9, <1>10, <1>11, BytesAreNext, Zenon

LEMMA BytesCall ==
    ASSUME Laws, TypeOK, Shapes, ReferencesExact, OwnerShape, BytesExact,
           handler = "running" \/ timer = "defers",
           (\E kind \in Kinds : Admits(kind)) \/ (Quiet /\ UNCHANGED bytes),
           UNCHANGED <<others, storage>>
    PROVE  BytesExact'
<1>1. storage = "live"
  BY UsedIsLive
<1>2. ASSUME NEW kind \in Kinds, Admits(kind) PROVE BytesExact'
  <2>1. PICK a \in Actions : a = accepted + 1 /\ Accept(a, kind)
    BY <1>2, Zenon DEF Admits
  <2>2. stage' = [b \in Actions |->
                    IF b = a THEN IF active THEN "queued" ELSE "submitted"
                    ELSE stage[b]]
    BY <2>1, AcceptFacts, Zenon DEF TypeOK, Shapes
  <2>3. stage[a] = "unused"
    <3>1. accepted < a
      BY <2>1, Numbers DEF TypeOK
    <3> QED
      BY <2>1, <3>1, Zenon DEF Shapes, StageShape, StageOf
  <2>4. Room(a) /\ Reserve(a)
    BY <2>1, Zenon DEF Accept
  <2>5. ~Held(a) /\ Held(a)'
    BY <2>1, <2>2, <2>3 DEF Held
  <2>6. \A b \in Actions : b # a => (Held(b)' <=> Held(b))
    BY <2>2, Zenon DEF Held
  <2> QED
    BY <1>1, <2>1, <2>4, <2>5, <2>6, BytesReserved, Zenon DEF TypeOK
<1>3. CASE Quiet /\ UNCHANGED bytes
  <2>1. \A b \in Actions : Held(b)' <=> Held(b)
    BY <1>3, Zenon DEF Quiet, Held
  <2> QED
    BY <1>3, <2>1, BytesKept, Zenon DEF bytes
<1> QED
  BY <1>2, <1>3, Zenon

LEMMA BytesWorker ==
    ASSUME Laws, TypeOK, Shapes, ReferencesExact, OwnerShape, BytesExact,
           NEW a \in Actions, Worker(a)
    PROVE  BytesExact'
<1>1. stage[a] \in {"submitted", "delivered", "hook"} /\ others' = others
  BY Zenon DEF Worker, Deliver, PostResult, PostResultEnds, DeliverSynthetic, ReleaseSynthetic
<1>2. storage = "live"
  BY <1>1, UsedIsLive, Zenon
<1>3. stage \in [Actions -> Stages] /\ TypeBytes
  BY Zenon DEF TypeOK, TypeQueue
<1>4. CASE Deliver(a)
  <2>1. stage[a] = "submitted" /\ stage' = [stage EXCEPT ![a] = "delivered"]
        /\ UNCHANGED <<reserved, action_count, total, storage>>
    BY <1>4, Zenon DEF Deliver, bytes
  <2>2. \A b \in Actions : Held(b)' <=> Held(b)
    BY <1>3, <2>1 DEF Held
  <2> QED
    BY <1>1, <2>1, <2>2, BytesKept, Zenon
<1>5. CASE PostResultEnds(a)
  <2>1. stage[a] = "hook" /\ stage' = [stage EXCEPT ![a] = "done"]
        /\ UNCHANGED <<reserved, action_count, total>> /\ storage' \in {"live", "released"}
    BY <1>2, <1>5, Zenon DEF PostResultEnds, bytes, Drop
  <2>2. \A b \in Actions : Held(b)' <=> Held(b)
    BY <1>3, <2>1 DEF Held
  <2>3. storage' # "freed" /\ storage # "freed"
    BY <1>2, <2>1
  <2> QED
    BY <1>1, <2>1, <2>2, <2>3, BytesKept, Zenon
<1>6. CASE DeliverSynthetic(a)
  <2> DEFINE d == Head(hook[a].deps)
  <2>1. d \in Actions
    BY <1>6, DependentIsNext, Zenon DEF DeliverSynthetic
  <2>2. stage[d] = "dependent" /\ stage' = [stage EXCEPT ![d] = "finalized"]
        /\ UNCHANGED <<reserved, action_count, total, storage>>
    BY <1>6, Zenon DEF DeliverSynthetic, bytes
  <2> HIDE DEF d
  <2>3. \A b \in Actions : Held(b)' <=> Held(b)
    BY <1>3, <2>1, <2>2 DEF Held
  <2> QED
    BY <1>1, <2>2, <2>3, BytesKept, Zenon
<1>7. CASE ReleaseSynthetic(a)
  <2>1. PICK d \in Actions : d = Head(hook[a].deps)
    BY <1>7, DependentIsNext, Zenon DEF ReleaseSynthetic
  <2>2. stage[d] = "finalized" /\ stage' = [stage EXCEPT ![d] = "done"]
        /\ Release(d) /\ UNCHANGED storage
    BY <1>7, <2>1, Zenon DEF ReleaseSynthetic
  <2>3. Held(d) /\ ~Held(d)'
    BY <1>3, <2>1, <2>2 DEF Held
  <2>4. \A b \in Actions : b # d => (Held(b)' <=> Held(b))
    BY <1>3, <2>1, <2>2 DEF Held
  <2> QED
    BY <1>1, <1>2, <1>3, <2>1, <2>2, <2>3, <2>4, BytesReleased, Zenon
<1>8. CASE PostResult(a)
  <2>1. stage[a] = "delivered" /\ Release(a) /\ UNCHANGED storage
    BY <1>8, Zenon DEF PostResult
  <2>2. Detached(a) \/ Advanced(a)
    BY <1>8, PostResultFacts, Zenon DEF Shapes
  <2>3. stage'[a] = "hook"
    BY <2>2, Zenon DEF Detached, Advanced
  <2>4. Held(a) /\ ~Held(a)'
    BY <2>1, <2>3 DEF Held
  <2>5. ASSUME NEW b \in Actions, b # a PROVE Held(b)' <=> Held(b)
    <3>1. TypeQueue /\ accepted = a + Len(list) - 1 /\ a = First
      BY <2>1, DeliveredIsAlone, Zenon DEF TypeOK
    <3>2. accepted \in Nat /\ Len(list) \in Nat /\ a \in Nat /\ b \in Nat
      BY <3>1, Numbers, ActionsNat
    <3>3. Listed(b) /\ b # First => Held(b)
      BY Zenon DEF Shapes, StageShape, StageOf, Held
    <3>4. CASE Advanced(a)
      <4>1. stage'[b] = stage[b] \/ (stage'[b] = "submitted" /\ a < accepted /\ b = a + 1)
        BY <2>5, <3>4, Zenon DEF Advanced
      <4>2. a < accepted /\ b = a + 1 => Listed(b) /\ b # First
        BY <3>1, <3>2 DEF Listed, First
      <4> QED
        BY <3>3, <4>1, <4>2, Zenon DEF Held
    <3>5. CASE Detached(a)
      <4>1. stage'[b] = stage[b] \/ (stage'[b] = "dependent" /\ a < b /\ b <= accepted)
        BY <2>5, <3>5, Zenon DEF Detached
      <4>2. a < b /\ b <= accepted => Listed(b) /\ b # First
        BY <3>1, <3>2 DEF Listed
      <4> QED
        BY <3>3, <4>1, <4>2, Zenon DEF Held
    <3> QED
      BY <2>2, <3>4, <3>5, Zenon
  <2> QED
    BY <1>1, <1>2, <1>3, <2>1, <2>4, <2>5, BytesReleased, Zenon
<1> QED
  BY <1>4, <1>5, <1>6, <1>7, <1>8, Zenon DEF Worker

(* A queue with no user left holds nothing but its identity. *)
LEMMA GoneHoldsNothing ==
    ASSUME Laws, BytesExact, ReferencesExact, storage # "live"
    PROVE  reserved = IdentityCharge
<1>1. \A n \in 1 .. MaxAccepted : Weight[n] = 0
  <2>1. ASSUME NEW n \in 1 .. MaxAccepted PROVE ~Held(n)
    <3>1. n \in Actions
      BY Zenon DEF Actions
    <3>2. stage[n] \in {"unused", "done"}
      BY <3>1, Zenon DEF ReferencesExact
    <3> QED
      BY <3>2 DEF Held
  <2> QED
    BY <2>1, Zenon DEF Weight
<1>2. CostOf[MaxAccepted] = 0
  BY <1>1, CostIsSum, Zenon DEF Laws, SumLaws
<1>3. reserved = IdentityCharge + 0
  BY <1>2, BytesAre, Zenon
<1> QED
  BY <1>3, Sizes

LEMMA BytesStep ==
    ASSUME Laws, TypeOK, Shapes, ReferencesExact, OwnerShape, BytesExact, [Next]_vars
    PROVE  BytesExact'
<1>1. ASSUME UNCHANGED <<stage, reserved, action_count, total, others>>,
             storage' = "freed" <=> storage = "freed"
      PROVE  BytesExact'
  <2>1. \A b \in Actions : Held(b)' <=> Held(b)
    BY <1>1, Zenon DEF Held
  <2> QED
    BY <1>1, <2>1, BytesKept, Zenon
<1>2. CASE UNCHANGED vars
  BY <1>1, <1>2, Zenon DEF vars, bytes
<1>3. ASSUME NEW call \in Calls, Enqueue(call) PROVE BytesExact'
  BY <1>3, EnqueueStep, BytesCall, Zenon
<1>4. CASE TimerDefers
  BY <1>4, TimerDefersStep, BytesCall, Zenon
<1>5. ASSUME NEW a \in Actions, Cancel(a) PROVE BytesExact'
  BY <1>1, <1>5, Zenon DEF Cancel, bytes
<1>6. ASSUME NEW a \in Actions, Worker(a) PROVE BytesExact'
  BY <1>6, BytesWorker, Zenon
<1>7. /\ TypeBytes /\ IdentityCharge \in Nat /\ MaxTotalBytes \in Nat
      /\ reserved \in Nat /\ total \in Nat /\ others \in Nat
  BY Sizes, Zenon DEF TypeOK, TypeBytes
<1>8. ASSUME NEW x \in Int, total' = x, x <= MaxTotalBytes,
             x = others' + (IF storage' = "freed" THEN 0 ELSE reserved),
             UNCHANGED <<stage, reserved, action_count>>
      PROVE  BytesExact'
  <2>1. \A b \in Actions : Held(b)' <=> Held(b)
    BY <1>8, Zenon DEF Held
  <2>2. 1 \in Actions
    BY SizesAssumption DEF Actions
  <2>3. CostOf'[MaxAccepted] = CostOf[MaxAccepted]
    BY <2>1, <2>2, CostChange, Zenon
  <2>4. Cardinality(HeldSet') = Cardinality(HeldSet)
    BY <2>1, <2>2, CountChange, Zenon
  <2> QED
    BY <1>8, <2>3, <2>4, BytesAre, BytesAreNext, Zenon
<1>9. CASE Finalize
  <2>1. /\ storage = "released" /\ storage' = "freed" /\ total' = total - IdentityCharge
        /\ UNCHANGED <<stage, reserved, action_count, others>>
    BY <1>9, Zenon DEF Finalize
  <2>2. reserved = IdentityCharge
    BY <2>1, GoneHoldsNothing
  <2>3. total = others + reserved /\ total <= MaxTotalBytes
    BY <2>1, BytesAre
  <2>4. /\ total - IdentityCharge \in Int /\ total - IdentityCharge <= MaxTotalBytes
        /\ total - IdentityCharge = others + 0
    BY <1>7, <2>2, <2>3
  <2> QED
    BY <1>8, <2>1, <2>4, Zenon
<1>10. CASE AutoDeferStart \/ TimerWakes \/ HandlerReturns \/ ClientStop \/ Over
  BY <1>1, <1>2, <1>10, Zenon DEF AutoDeferStart, TimerWakes, HandlerReturns, ClientStop, Over,
     bytes
<1>11. CASE TimerReleases \/ FlowDestroy
  <2>1. storage = "live"
    BY <1>11, UsedIsLive DEF TimerReleases, FlowDestroy
  <2>2. Drop(active) /\ UNCHANGED <<stage, reserved, action_count, total, others>>
    BY <1>11, Zenon DEF TimerReleases, FlowDestroy, bytes
  <2>3. storage' # "freed" /\ storage # "freed"
    BY <2>1, <2>2 DEF Drop
  <2> QED
    BY <1>1, <2>2, <2>3, Zenon
<1>12. CASE OthersReserve
  <2>1. /\ total < MaxTotalBytes /\ total' = total + 1 /\ others' = others + 1
        /\ UNCHANGED <<stage, reserved, action_count, storage>>
    BY <1>12, Zenon DEF OthersReserve
  <2>2. total = others + (IF storage = "freed" THEN 0 ELSE reserved)
    BY BytesAre, Zenon
  <2>3. total + 1 \in Int /\ total + 1 <= MaxTotalBytes
    BY <1>7, <2>1
  <2>4. total + 1 = (others + 1) + (IF storage = "freed" THEN 0 ELSE reserved)
    BY <1>7, <2>2
  <2> QED
    BY <1>8, <2>1, <2>3, <2>4, Zenon
<1>13. CASE OthersRelease
  <2>1. /\ total' = total - 1 /\ others' = others - 1
        /\ UNCHANGED <<stage, reserved, action_count, storage>>
    BY <1>13, Zenon DEF OthersRelease
  <2>2. /\ total = others + (IF storage = "freed" THEN 0 ELSE reserved)
        /\ total <= MaxTotalBytes
    BY BytesAre, Zenon
  <2>3. total - 1 \in Int /\ total - 1 <= MaxTotalBytes
    BY <1>7, <2>2
  <2>4. total - 1 = (others - 1) + (IF storage = "freed" THEN 0 ELSE reserved)
    BY <1>7, <2>2
  <2> QED
    BY <1>8, <2>1, <2>3, <2>4, Zenon
<1> QED
  BY <1>2, <1>3, <1>4, <1>5, <1>6, <1>9, <1>10, <1>11, <1>12, <1>13, Zenon
  DEF Next, Environment

LEMMA BytesNat == Laws /\ BytesExact /\ others \in Nat => TypeBytes
<1> SUFFICES ASSUME Laws, BytesExact, others \in Nat PROVE TypeBytes
  OBVIOUS
<1>1. 1 \in 1 .. MaxAccepted /\ MaxAccepted \in Nat
  BY SizesAssumption
<1>2. \A w, v \in [1 .. MaxAccepted -> Nat] :
        (\A n \in 1 .. MaxAccepted : n # 1 => v[n] = w[n]) =>
           \A f, g : PartialSums(f, w, MaxAccepted) /\ PartialSums(g, v, MaxAccepted) =>
              /\ f[MaxAccepted] \in Nat /\ g[MaxAccepted] \in Nat
              /\ g[MaxAccepted] - v[1] = f[MaxAccepted] - w[1]
  BY <1>1, Zenon DEF Laws, SumLaws
<1>3. CostOf[MaxAccepted] \in Nat
  BY <1>2, CostIsSum, Zenon
<1>4. Cardinality(HeldSet) \in Nat
  BY HeldFinite, Zenon
<1>5. IdentityCharge \in Nat /\ IdentityCharge + CostOf[MaxAccepted] \in Nat
  BY <1>3, Sizes
<1>6. reserved \in Nat /\ action_count \in Nat
  BY <1>4, <1>5, BytesAre, Zenon
<1>7. total = others + (IF storage = "freed" THEN 0 ELSE reserved)
  BY BytesAre, Zenon
<1>8. total \in Nat
  BY <1>6, <1>7
<1> QED
  BY <1>6, <1>8, Zenon DEF TypeBytes

LEMMA BytesNatNext == (Laws /\ BytesExact /\ others \in Nat => TypeBytes)'
BY BytesNat, PTL

(* The byte counters keep their types. *)
LEMMA BytesType ==
    ASSUME Laws, TypeOK, Shapes, BytesExact', [Next]_vars PROVE TypeBytes'
<1>1. others \in Nat
  BY Zenon DEF TypeOK, TypeBytes
<1>2. ASSUME NEW a \in Actions, Cancel(a) \/ Worker(a) PROVE others' = others
  BY <1>2, Zenon DEF Cancel, Worker, Deliver, PostResult, PostResultEnds, DeliverSynthetic,
     ReleaseSynthetic
<1>3. ASSUME NEW call \in Calls, Enqueue(call) PROVE others' = others
  BY <1>3, Zenon DEF Enqueue
<1>4. CASE \/ UNCHANGED vars \/ Finalize \/ AutoDeferStart \/ TimerWakes \/ TimerDefers
           \/ TimerReleases \/ HandlerReturns \/ FlowDestroy \/ ClientStop \/ Over
  <2>1. others' = others
    BY <1>4, Zenon DEF vars, Finalize, AutoDeferStart, TimerWakes, TimerDefers, TimerReleases,
       HandlerReturns, FlowDestroy, ClientStop, Over
  <2> QED
    BY <1>1, <2>1, BytesNatNext, Zenon
<1>5. CASE OthersReserve \/ OthersRelease
  <2>1. (others' = others + 1) \/ (others > 0 /\ others' = others - 1)
    BY <1>5, Zenon DEF OthersReserve, OthersRelease
  <2>2. others' \in Nat
    BY <1>1, <2>1
  <2> QED
    BY <2>2, BytesNatNext, Zenon
<1> QED
  BY <1>1, <1>2, <1>3, <1>4, <1>5, BytesNatNext, Zenon DEF Next, Environment

-----------------------------------------------------------------------------
(* The invariant and what follows from it. *)

LEMMA IndInit == Laws /\ Init => IndInv
<1> SUFFICES ASSUME Laws, Init PROVE IndInv
  OBVIOUS
<1> USE ActionsNat DEF Init
<1>1. TypeQueue
  <2>1. accepted \in 0 .. MaxAccepted
    BY Sizes
  <2>2. NoHook \in [deps : Seq(Actions), answer : Outcomes, cascade : BOOLEAN]
    BY DEF NoHook, Outcomes
  <2>3. list \in Seq(Actions) /\ terminals \in Seq(Actions)
    OBVIOUS
  <2>4. "unused" \in Stages
    BY DEF Stages
  <2> QED
    BY <2>1, <2>2, <2>3, <2>4, Zenon DEF TypeQueue
<1>2. TypeFlow
  BY Zenon DEF TypeFlow, FlowView, FlowStates, Works, NoWork
<1>3. TypeUse
  <2>1. references \in Nat
    OBVIOUS
  <2> QED
    BY <2>1, Zenon DEF TypeUse
<1>4. TypeBytes
  BY Sizes DEF TypeBytes
<1>5. Len(list) = 0 /\ Len(terminals) = 0 /\ First = 1
  BY DEF First
<1>6. ListShape /\ TermShape
  BY <1>5 DEF ListShape, TermShape
<1>7. StageShape
  BY <1>5, NoneAssumption DEF StageShape, StageOf, Listed
<1>8. CascadeShape
  BY DEF CascadeShape, Cascading, NoHook
<1>9. FailShape
  BY <1>5 DEF FailShape
<1>10. FlowShape
  BY DEF FlowShape, Start
<1>11. OwnerShape
  BY DEF OwnerShape
<1>12. ReferencesExact
  <2>1. Hooks = {}
    BY DEF Hooks
  <2>2. Cardinality(Hooks) = 0 /\ Owns = 1 /\ Times = 0
    BY <2>1 DEF Owns, Times, Laws, CountLaws
  <2>3. references = Cardinality(Hooks) + Owns + Times
    BY <2>2
  <2> QED
    BY <2>3, ReferencesAre, Zenon
<1>13. BytesExact
  <2>1. HeldSet = {}
    BY DEF HeldSet, Held
  <2>2. Cardinality(HeldSet) = 0
    BY <2>1, Zenon DEF Laws, CountLaws
  <2>3. \A n \in 1 .. MaxAccepted : Weight[n] = 0
    BY DEF Weight, Held, Actions
  <2>4. CostOf[MaxAccepted] = 0
    BY <2>3, CostIsSum, Zenon DEF Laws, SumLaws
  <2>5. IdentityCharge = IdentityCharge + 0 /\ IdentityCharge = 0 + IdentityCharge
        /\ IdentityCharge <= MaxTotalBytes /\ IdentityCharge <= MaxQueueBytes
    BY Sizes
  <2>6. storage # "freed"
    OBVIOUS
  <2> QED
    BY <2>2, <2>4, <2>5, <2>6, BytesAre, Zenon
<1> QED
  BY <1>1, <1>2, <1>3, <1>4, <1>6, <1>7, <1>8, <1>9, <1>10, <1>11, <1>12, <1>13, Zenon
  DEF IndInv, TypeOK, Shapes

LEMMA IndStep == Laws /\ IndInv /\ [Next]_vars => IndInv'
<1> SUFFICES ASSUME Laws, IndInv, [Next]_vars PROVE IndInv'
  OBVIOUS
<1>1. TypeOK /\ Shapes /\ FlowShape /\ OwnerShape /\ ReferencesExact /\ BytesExact
  BY Zenon DEF IndInv
<1>2. Shapes'
  BY <1>1, ShapesStep, Zenon
<1>3. TypeQueue' /\ TypeFlow'
  BY <1>1, TypesStep, Zenon
<1>4. FlowShape'
  BY <1>1, FlowStep, Zenon
<1>5. OwnerShape'
  BY <1>1, OwnerStep, Zenon
<1>6. ReferencesExact'
  BY <1>1, ReferencesStep, Zenon
<1>7. BytesExact'
  BY <1>1, BytesStep, Zenon
<1>8. TypeUse'
  BY <1>1, <1>6, UseType, Zenon
<1>9. TypeBytes'
  BY <1>1, <1>7, BytesType, Zenon
<1> QED
  BY <1>2, <1>3, <1>4, <1>5, <1>6, <1>7, <1>8, <1>9, Zenon DEF IndInv, TypeOK

(* The listed actions by number. *)
LEMMA ListedFacts ==
    ASSUME TypeOK, Shapes
    PROVE  /\ First \in Nat \ {0} /\ accepted \in Nat /\ Len(terminals) \in Nat
           /\ list = <<>> <=> First = accepted + 1
           /\ list # <<>> => First \in Actions /\ Listed(First) /\ Head(list) = First
           /\ \A i \in 1 .. Len(list) : list[i] \in Actions /\ Listed(list[i])
                                        /\ (list[i] = First <=> i = 1)
           /\ 1 .. accepted \subseteq Actions
<1> USE ActionsNat
<1>1. TypeQueue /\ ListShape
  BY Zenon DEF TypeOK, Shapes
<1>2. /\ accepted \in Nat /\ Len(list) \in Nat /\ Len(list) <= accepted
      /\ list = <<>> <=> Len(list) = 0
      /\ accepted <= MaxAccepted /\ Len(terminals) \in Nat
  BY <1>1, Numbers, Zenon DEF ListShape
<1>3. First \in Nat \ {0} /\ (list = <<>> <=> First = accepted + 1)
  BY <1>2 DEF First
<1>4. list # <<>> => First \in Actions /\ Listed(First)
  BY <1>2, <1>3, Sizes DEF Listed, First
<1>5. ASSUME NEW i \in 1 .. Len(list)
      PROVE  list[i] \in Actions /\ Listed(list[i]) /\ (list[i] = First <=> i = 1)
  <2>1. list[i] = accepted - Len(list) + i
    BY <1>1, Zenon DEF ListShape
  <2> QED
    BY <1>2, <2>1, Sizes DEF Listed, First
<1>6. list # <<>> => Head(list) = First
  <2>1. list \in Seq(Actions)
    BY <1>1, Zenon DEF TypeQueue
  <2>2. list # <<>> => Head(list) = list[1] /\ 1 \in 1 .. Len(list)
    BY <1>2, <2>1
  <2> QED
    BY <1>5, <2>2, Zenon
<1>7. 1 .. accepted \subseteq Actions
  BY <1>2, Sizes
<1> QED
  BY <1>2, <1>3, <1>4, <1>5, <1>6, <1>7, Zenon

(* A queue that has not failed and lists nothing has answered every call. *)
LEMMA IdleIsAnswered ==
    ASSUME TypeOK, Shapes, ~failed, list = <<>>
    PROVE  ~active /\ Len(terminals) = accepted
<1>1. \A a \in Actions : ~Cascading(a)
  BY Zenon DEF Shapes, CascadeShape, CascadeOf
<1>2. ~active
  BY <1>1, Zenon DEF Shapes, CascadeShape
<1>3. /\ accepted \in Nat /\ Len(terminals) \in Nat /\ Len(terminals) <= accepted
      /\ First = accepted + 1 /\ 1 .. accepted \subseteq Actions
  BY ListedFacts, Zenon DEF Shapes, TermShape
<1>4. ASSUME Len(terminals) < accepted PROVE FALSE
  <2>1. accepted \in Actions /\ ~(accepted < accepted) /\ ~(accepted <= Len(terminals))
        /\ ~Listed(accepted)
    BY <1>3, <1>4 DEF Listed
  <2>2. stage[accepted] \in {"unused", "done", "hook"}
    BY <1>2, <2>1, IdleIsOver, Zenon
  <2> QED
    BY <2>1, <2>2, Zenon DEF Shapes, StageShape, StageOf
<1> QED
  BY <1>2, <1>3, <1>4

LEMMA IndInFlight == IndInv => ActiveMeansInFlight
<1> SUFFICES ASSUME TypeOK, Shapes PROVE ActiveMeansInFlight
  BY Zenon DEF IndInv
<1>1. ~active => list = <<>> /\ \A a \in Actions : ~Cascading(a)
  BY Zenon DEF Shapes, CascadeShape, CascadeOf
<1>2. active /\ list = <<>> => \E a \in Actions : Cascading(a)
  BY Zenon DEF Shapes, CascadeShape
<1>3. list # <<>> => \A a \in Actions : ~Cascading(a)
  BY Zenon DEF Shapes, CascadeShape, CascadeOf
<1>4. list # <<>> => stage[Head(list)] \in {"submitted", "delivered"}
  BY ListedFacts, Zenon DEF Shapes, StageShape, StageOf
<1>5. ASSUME NEW i \in 2 .. Len(list) PROVE stage[list[i]] = "queued"
  <2>1. i \in 1 .. Len(list) /\ i # 1
    BY Numbers DEF TypeOK
  <2>2. list[i] \in Actions /\ Listed(list[i]) /\ list[i] # First
    BY <2>1, ListedFacts, Zenon
  <2> QED
    BY <2>2, Zenon DEF Shapes, StageShape, StageOf
<1> QED
  BY <1>1, <1>2, <1>3, <1>4, <1>5, Zenon DEF ActiveMeansInFlight

LEMMA IndInitialFirst == IndInv => InitialComesFirstOnce
<1> SUFFICES ASSUME IndInv, NEW a \in 1 .. accepted PROVE act[a].initial <=> a = 1
  BY Zenon DEF InitialComesFirstOnce
<1>1. a \in Actions /\ a <= accepted
  BY ListedFacts DEF IndInv
<1> QED
  BY <1>1, Zenon DEF IndInv, FlowShape

LEMMA IndReported == IndInv => ReportedStateTracksCalls
<1> SUFFICES ASSUME TypeOK, Shapes, FlowShape PROVE ReportedStateTracksCalls
  BY Zenon DEF IndInv
<1> USE ActionsNat
<1>1. /\ First \in Nat \ {0} /\ accepted \in Nat /\ Len(terminals) \in Nat
      /\ Len(terminals) <= accepted /\ 1 .. accepted \subseteq Actions
  BY ListedFacts, Zenon DEF Shapes, TermShape
<1>2. terminals = <<>> <=> Len(terminals) = 0
  BY DEF TypeOK, TypeQueue
<1>3. ASSUME initial_admitted, ~failed, terminals = <<>>
      PROVE  /\ active /\ list # <<>> /\ status[Head(list)] = None
             /\ act[Head(list)].queued = "QUEUED"
  <2>1. accepted >= 1
    BY <1>3, Zenon DEF FlowShape
  <2>2. 1 \in Actions /\ ~(accepted < 1) /\ ~(1 <= Len(terminals)) /\ 1 <= accepted
    BY <1>1, <1>2, <1>3, <2>1
  <2>3. \A b \in Actions : stage[b] \notin {"dependent", "finalized"}
    BY <1>3, Zenon DEF Shapes, CascadeShape, CascadeOf
  <2>4. Listed(1)
    <3>1. stage[1] \in Stages
      BY <2>2 DEF TypeOK, TypeQueue
    <3>2. stage[1] \in {"submitted", "queued"}
      BY <2>2, <2>3, <3>1, Zenon DEF Shapes, StageShape, StageOf, Stages
    <3> QED
      BY <2>2, <3>2, Zenon DEF Shapes, StageShape, StageOf
  <2>5. First = 1 /\ First # accepted + 1
    BY <1>1, <2>4 DEF Listed
  <2>6. list # <<>> /\ Head(list) = 1
    BY <2>5, ListedFacts, Zenon
  <2>7. active
    BY <2>6, Zenon DEF Shapes, CascadeShape
  <2>8. status[1] = None
    BY <2>2, Zenon DEF Shapes, StageShape, StageOf
  <2>9. act[1].queued = "QUEUED"
    BY <2>2, Zenon DEF FlowShape
  <2> QED
    BY <2>6, <2>7, <2>8, <2>9, Zenon
<1>4. ASSUME ~failed, terminals # <<>> PROVE committed.state # "READY"
  <2>1. Len(terminals) \in Actions /\ Len(terminals) <= accepted
    BY <1>1, <1>2, <1>4
  <2>2. committed = View(Len(terminals)) /\ act[Len(terminals)].state # "READY"
    BY <1>4, <2>1, Zenon DEF FlowShape
  <2> QED
    BY <2>2 DEF View
<1>5. ASSUME initial_admitted PROVE ReportedState # "READY"
  <2>1. CASE failed
    BY <2>1 DEF ReportedState
  <2>2. CASE ~failed /\ terminals = <<>>
    BY <1>3, <1>5, <2>2 DEF ReportedState
  <2>3. CASE ~failed /\ terminals # <<>>
    BY <1>4, <2>3, Zenon DEF ReportedState
  <2> QED
    BY <2>1, <2>2, <2>3, Zenon
<1>6. ASSUME ~active, ~failed PROVE committed = projected
  <2>1. list = <<>>
    BY <1>6, Zenon DEF Shapes, CascadeShape
  <2>2. Len(terminals) = accepted
    BY <1>6, <2>1, IdleIsAnswered, Zenon
  <2>3. /\ projected = IF accepted = 0 THEN Start ELSE View(accepted)
        /\ committed = IF terminals = <<>> THEN Start ELSE View(Len(terminals))
    BY <1>6, Zenon DEF FlowShape
  <2>4. terminals = <<>> <=> accepted = 0
    BY <1>2, <2>2, Zenon
  <2>5. committed = IF accepted = 0 THEN Start ELSE View(accepted)
    BY <2>2, <2>3, <2>4, Zenon
  <2> QED
    BY <2>3, <2>5, Zenon
<1> QED
  BY <1>5, <1>6, Zenon DEF ReportedStateTracksCalls

-----------------------------------------------------------------------------
(* The refinement of OrderedResponses, in the terms of its mapping. *)

Answers == [i \in 1 .. Len(terminals) |-> status[terminals[i]]]
Running == IF \E a \in Actions : stage[a] \in {"submitted", "delivered"}
           THEN CHOOSE a \in Actions : stage[a] \in {"submitted", "delivered"}
           ELSE 0

(* The running call is the head of the list. *)
LEMMA RunningIs ==
    TypeOK /\ Shapes => /\ list = <<>> => Running = 0
                        /\ list # <<>> => Running = First
<1> SUFFICES ASSUME TypeOK, Shapes
             PROVE  /\ list = <<>> => Running = 0
                    /\ list # <<>> => Running = First
  OBVIOUS
<1>1. \A a \in Actions : stage[a] \in {"submitted", "delivered"} <=> Listed(a) /\ a = First
  BY Zenon DEF Shapes, StageShape, StageOf
<1>2. ASSUME list = <<>> PROVE Running = 0
  <2>1. First = accepted + 1 /\ accepted \in Nat
    BY <1>2, ListedFacts, Zenon
  <2>2. ~Listed(First)
    BY <2>1 DEF Listed
  <2>3. \A a \in Actions : stage[a] \notin {"submitted", "delivered"}
    BY <1>1, <2>2, Zenon
  <2> QED
    BY <2>3, Zenon DEF Running
<1>3. ASSUME list # <<>> PROVE Running = First
  <2>1. First \in Actions /\ Listed(First)
    BY <1>3, ListedFacts, Zenon
  <2>2. stage[First] \in {"submitted", "delivered"}
    BY <1>1, <2>1, Zenon
  <2>3. \E a \in Actions : stage[a] \in {"submitted", "delivered"}
    BY <2>1, <2>2, Zenon
  <2>4. Running = CHOOSE a \in Actions : stage[a] \in {"submitted", "delivered"}
    BY <2>3, Zenon DEF Running
  <2>5. Running \in Actions /\ stage[Running] \in {"submitted", "delivered"}
    BY <2>3, <2>4, Zenon
  <2> QED
    BY <1>1, <2>5, Zenon
<1> QED
  BY <1>2, <1>3, Zenon

LEMMA RunningIsNext ==
    (TypeOK /\ Shapes => /\ list = <<>> => Running = 0
                         /\ list # <<>> => Running = First)'
BY RunningIs, PTL

LEMMA AnswersSeq ==
    ASSUME TypeOK
    PROVE  Answers \in Seq(Outcomes \cup {None}) /\ Len(Answers) = Len(terminals)
<1>1. \A i \in 1 .. Len(terminals) : status[terminals[i]] \in Outcomes \cup {None}
  BY DEF TypeOK, TypeQueue
<1>2. Len(terminals) \in Nat
  BY Numbers, Zenon DEF TypeOK
<1> QED
  BY <1>1, <1>2 DEF Answers

(* A terminal result is one more answer. *)
LEMMA ResultAnswers ==
    ASSUME TypeOK, Shapes, NEW a \in Actions, NEW s \in Outcomes, Result(a, s),
           Len(terminals) = a - 1
    PROVE  Answers' = Append(Answers, s)
<1> USE ActionsNat
<1>1. /\ status' = [b \in Actions |-> IF b = a THEN s ELSE status[b]]
      /\ Len(terminals') = Len(terminals) + 1
      /\ \A i \in 1 .. Len(terminals) : terminals'[i] = terminals[i]
      /\ terminals'[Len(terminals) + 1] = a
  BY ResultFacts, Zenon
<1>2. Answers \in Seq(Outcomes \cup {None}) /\ Len(Answers) = Len(terminals)
  BY AnswersSeq, Zenon
<1>3. Len(terminals) \in Nat /\ \A i \in 1 .. Len(terminals) : terminals[i] = i
  BY Numbers, Zenon DEF TypeOK, Shapes, TermShape
<1>4. Append(Answers, s) = [i \in 1 .. Len(terminals) + 1 |->
                              IF i = Len(terminals) + 1 THEN s ELSE Answers[i]]
  <2> DEFINE q == Append(Answers, s)
  <2>1. /\ q \in Seq(Outcomes \cup {None}) /\ Len(q) = Len(Answers) + 1
        /\ \A i \in 1 .. Len(Answers) : q[i] = Answers[i]
        /\ q[Len(Answers) + 1] = s
    <3>1. s \in Outcomes \cup {None}
      BY Zenon
    <3> QED
      BY <1>2, <3>1
  <2> HIDE DEF q
  <2>2. q = [i \in 1 .. Len(Answers) + 1 |-> q[i]]
    BY <2>1
  <2>3. \A i \in 1 .. Len(Answers) + 1 : i # Len(Answers) + 1 => i \in 1 .. Len(Answers)
    BY <1>2, <1>3
  <2>4. \A i \in 1 .. Len(Answers) + 1 :
          q[i] = IF i = Len(Answers) + 1 THEN s ELSE Answers[i]
    BY <2>1, <2>3, Zenon
  <2>5. q = [i \in 1 .. Len(Answers) + 1 |-> IF i = Len(Answers) + 1 THEN s ELSE Answers[i]]
    BY <2>2, <2>4, Zenon
  <2> QED
    BY <1>2, <2>5, Zenon DEF q
<1>5. ASSUME NEW i \in 1 .. Len(terminals) + 1
      PROVE  status'[terminals'[i]] = IF i = Len(terminals) + 1 THEN s ELSE Answers[i]
  <2>1. CASE i = Len(terminals) + 1
    BY <1>1, <2>1, Zenon
  <2>2. CASE i # Len(terminals) + 1
    <3>1. i \in 1 .. Len(terminals) /\ i # a /\ i \in Actions
      BY <1>3, <2>2, Sizes
    <3>2. terminals'[i] = i /\ terminals[i] = i
      BY <1>1, <1>3, <3>1, Zenon
    <3>3. Answers[i] = status[i]
      BY <3>1, <3>2, Zenon DEF Answers
    <3> QED
      BY <1>1, <2>2, <3>1, <3>2, <3>3, Zenon
  <2> QED
    BY <2>1, <2>2, Zenon
<1>6. Answers' = [i \in 1 .. Len(terminals) + 1 |-> status'[terminals'[i]]]
  BY <1>1, Zenon DEF Answers
<1> QED
  BY <1>4, <1>5, <1>6, Zenon

(* Every step of the queue is a step of the promise or leaves it alone. *)
LEMMA StepImplements ==
    IndInv /\ IndInv' /\ [Next]_vars => [Abstract!Next]_(Abstract!promise)
<1> SUFFICES ASSUME IndInv, IndInv', [Next]_vars
             PROVE  [Abstract!Next]_(Abstract!promise)
  OBVIOUS
<1> USE ActionsNat
<1>1. TypeOK /\ Shapes
  BY Zenon DEF IndInv
<1>2. /\ list = <<>> => Running = 0
      /\ list # <<>> => Running = First
      /\ list' = <<>> => Running' = 0
      /\ list' # <<>> => Running' = First'
  BY <1>1, RunningIs, RunningIsNext, Zenon DEF IndInv
<1>3. Len(Answers) = Len(terminals) /\ failed \in BOOLEAN /\ failed' \in BOOLEAN
  BY <1>1, AnswersSeq, Zenon DEF IndInv, TypeOK, TypeFlow
<1>4. /\ First \in Nat \ {0} /\ accepted \in Nat /\ Len(terminals) \in Nat
      /\ list = <<>> <=> First = accepted + 1
  BY <1>1, ListedFacts, Zenon
<1>5. ASSUME UNCHANGED <<accepted, terminals, status, failed, list>>
      PROVE  UNCHANGED Abstract!promise
  <2>1. Answers' = Answers /\ First' = First
    BY <1>5, Zenon DEF Answers, First
  <2>2. Running' = Running
    BY <1>2, <1>5, <2>1, Zenon
  <2> QED
    BY <1>5, <2>1, <2>2, Zenon DEF Abstract!promise, Answers, Running
<1>6. ASSUME NEW kind \in Kinds, Admits(kind) PROVE Abstract!Accept
  <2>1. /\ accepted + 1 \in Actions /\ Accept(accepted + 1, kind)
        /\ ~failed /\ accepted' = accepted + 1 /\ failed' = failed
        /\ UNCHANGED <<status, terminals>>
    BY <1>6, Zenon DEF Admits, Accept, Allowed
  <2>2. Len(list') = Len(list) + 1 /\ list' \in Seq(Actions)
    BY <1>1, <2>1, AcceptFacts, Zenon DEF TypeOK, Shapes
  <2>3. list' # <<>> /\ First' = First
    <3>1. Len(list) \in Nat
      BY <1>1, Numbers, Zenon DEF TypeOK
    <3>2. list' # <<>>
      BY <2>2, <3>1
    <3> QED
      BY <1>4, <2>1, <2>2, <3>1, <3>2 DEF First
  <2>4. Running' = First
    BY <1>2, <2>3, Zenon
  <2>5. Running = 0 <=> list = <<>>
    BY <1>2, <1>4
  <2>6. Running' = IF Running = 0 THEN accepted + 1 ELSE Running
    BY <1>2, <1>4, <2>4, <2>5, Zenon
  <2>7. Running = 0 => Len(Answers) = accepted
    BY <1>1, <1>3, <2>1, <2>5, IdleIsAnswered, Zenon
  <2>8. Answers' = Answers
    BY <2>1, Zenon DEF Answers
  <2> QED
    BY <2>1, <2>6, <2>7, <2>8, Zenon DEF Abstract!Accept, Answers, Running
<1>7. ASSUME NEW a \in Actions, Deliver(a) PROVE Abstract!Answer
  <2>1. PICK s \in {"OK", "ERROR", "CANCELED"} : Result(a, s)
    BY <1>7, Zenon DEF Deliver
  <2>2. s \in Outcomes
    BY DEF Outcomes
  <2>3. stage[a] = "submitted" /\ UNCHANGED <<list, accepted>>
    BY <1>7, Zenon DEF Deliver, works
  <2>4. Len(terminals) = a - 1 /\ a = First /\ list # <<>> /\ ~failed
    BY <1>1, <2>3, SubmittedIsNext, Zenon
  <2>5. Answers' = Append(Answers, s)
    BY <1>1, <2>1, <2>2, <2>4, ResultAnswers, Zenon
  <2>6. Running = a /\ Running' = a
    <3>1. First' = First
      BY <2>3, Zenon DEF First
    <3> QED
      BY <1>2, <2>3, <2>4, <3>1, Zenon
  <2>7. failed' = (s # "OK")
    <3>1. failed' = IF s = "OK" THEN failed ELSE TRUE
      BY <1>1, <2>1, <2>2, ResultFacts, Zenon
    <3> QED
      BY <1>3, <2>4, <3>1, Zenon
  <2>8. Running # 0 /\ Len(Answers) = Running - 1
    BY <1>3, <2>4, <2>6
  <2>9. Running' = Running
    BY <2>6, Zenon
  <2> QED
    BY <2>3, <2>5, <2>7, <2>8, <2>9, Zenon DEF Abstract!Answer, Answers, Running
<1>8. ASSUME NEW a \in Actions, PostResult(a) PROVE Abstract!Return
  <2>1. stage[a] = "delivered" /\ UNCHANGED <<accepted, status, terminals>>
    BY <1>8, Zenon DEF PostResult, works
  <2>2. Detached(a) \/ Advanced(a)
    BY <1>1, <1>8, PostResultFacts, Zenon DEF Shapes
  <2>3. /\ a = First /\ list # <<>> /\ a <= Len(terminals) /\ a <= accepted
        /\ accepted = a + Len(list) - 1
    BY <1>1, <2>1, DeliveredIsAlone, Zenon
  <2>4. Running = a
    BY <1>2, <2>3, Zenon
  <2>5. Len(terminals) = a
    <3>1. Len(terminals) <= accepted /\ 1 .. accepted \subseteq Actions
      BY <1>1, ListedFacts, Zenon DEF Shapes, TermShape
    <3>2. ASSUME a < Len(terminals) PROVE FALSE
      <4>1. a + 1 \in Actions /\ Listed(a + 1) /\ a + 1 # First /\ a + 1 <= Len(terminals)
        BY <1>4, <2>3, <3>1, <3>2 DEF Listed
      <4>2. stage[a + 1] = "queued"
        BY <1>1, <4>1, Zenon DEF Shapes, StageShape, StageOf
      <4>3. stage[a + 1] \in {"delivered", "hook", "done", "finalized"}
        BY <1>1, <4>1, Zenon DEF Shapes, StageShape, StageOf
      <4> QED
        BY <4>2, <4>3
    <3> QED
      BY <1>4, <2>3, <3>2
  <2>6. Running # 0 /\ Len(Answers) = Running
    BY <1>3, <2>4, <2>5
  <2>7. Answers' = Answers
    BY <2>1, Zenon DEF Answers
  <2>8. CASE Advanced(a)
    <3>1. /\ failed = FALSE /\ failed' = FALSE
          /\ list' \in Seq(Actions) /\ Len(list') = accepted - a
      BY <2>8, Zenon DEF Advanced
    <3>2. CASE a < accepted
      <4>1. list' # <<>>
        BY <1>4, <3>1, <3>2
      <4>2. First' = a + 1
        BY <1>4, <2>1, <3>1 DEF First
      <4>3. Running' = a + 1
        BY <1>2, <4>1, <4>2, Zenon
      <4>4. Running' = Running + 1 /\ Running < accepted
        BY <2>4, <3>2, <4>3, Zenon
      <4> QED
        BY <2>1, <2>6, <2>7, <3>1, <4>4, Zenon DEF Abstract!Return, Answers, Running
    <3>3. CASE a = accepted
      <4>1. list' = <<>>
        BY <1>4, <3>1, <3>3
      <4>2. Running' = 0 /\ Running = accepted
        BY <1>2, <2>4, <3>3, <4>1, Zenon
      <4> QED
        BY <2>1, <2>6, <2>7, <3>1, <4>2, Zenon DEF Abstract!Return, Answers, Running
    <3> QED
      BY <1>4, <2>3, <3>2, <3>3
  <2>9. CASE Detached(a)
    <3>1. failed' = TRUE /\ list' = <<>>
      BY <2>9, Zenon DEF Detached
    <3>2. Running' = 0
      BY <1>2, <3>1, Zenon
    <3>3. CASE failed
      <4>1. failed' = failed
        BY <1>3, <3>1, <3>3, Zenon
      <4> QED
        BY <2>1, <2>6, <2>7, <3>2, <3>3, <4>1, Zenon DEF Abstract!Return, Answers, Running
    <3>4. CASE ~failed
      <4>1. status[a] = "OK"
        BY <1>1, <2>3, <3>4, Zenon DEF Shapes, FailShape
      <4>2. ~PostResultFails(a) /\ ~PostResultIdle(a) /\ ~PostResultStarts(a)
        BY <3>1, <3>4, <4>1, Zenon DEF PostResultFails, PostResultIdle, PostResultStarts
      <4>3. Unlink(a) # <<>>
        BY <1>8, <4>2, Zenon DEF PostResult, PostResultRefused
      <4>4. a # accepted
        BY <1>1, <2>1, <4>3, DeliveredIsHead, Zenon DEF Shapes, TypeOK
      <4>5. a < accepted
        BY <1>4, <2>3, <4>4
      <4>6. Running < accepted
        BY <2>4, <4>5, Zenon
      <4> QED
        BY <2>1, <2>6, <2>7, <3>1, <3>2, <3>4, <4>6, Zenon
        DEF Abstract!Return, Answers, Running
    <3> QED
      BY <3>3, <3>4, Zenon
  <2> QED
    BY <2>2, <2>8, <2>9, Zenon
<1>9. ASSUME NEW a \in Actions, DeliverSynthetic(a) PROVE Abstract!AnswerDependent
  <2>1. /\ stage[a] = "hook" /\ hook[a].deps # <<>>
        /\ stage[Head(hook[a].deps)] = "dependent"
        /\ Result(Head(hook[a].deps), hook[a].answer)
        /\ UNCHANGED <<list, accepted>>
    BY <1>9, Zenon DEF DeliverSynthetic, works
  <2>2. /\ CascadeOf(a) /\ Head(hook[a].deps) \in Actions
        /\ Head(hook[a].deps) = accepted - Len(hook[a].deps) + 1
        /\ Len(hook[a].deps) >= 1 /\ Len(terminals) = Head(hook[a].deps) - 1
    BY <1>1, <2>1, DependentIsNext, Zenon
  <2>3. list = <<>> /\ failed /\ hook[a].answer \in {"STATE", "CANCELED", "REJECTED"}
    BY <2>2, Zenon DEF CascadeOf
  <2>4. hook[a].answer \in Outcomes
    BY <2>3 DEF Outcomes
  <2>5. Answers' = Append(Answers, hook[a].answer)
    BY <1>1, <2>1, <2>2, <2>4, ResultAnswers, Zenon
  <2>6. failed' = failed
    <3>1. failed' = IF hook[a].answer = "OK" THEN failed ELSE TRUE
      BY <1>1, <2>1, <2>2, <2>4, ResultFacts, Zenon
    <3> QED
      BY <1>3, <2>3, <3>1, Zenon
  <2>7. Running = 0 /\ Running' = 0
    BY <1>2, <2>1, <2>3, Zenon
  <2>8. Len(Answers) < accepted
    <3>1. Len(hook[a].deps) \in Nat
      BY <1>1, Numbers, Zenon DEF TypeOK
    <3>2. accepted \in Nat /\ Len(hook[a].deps) >= 1
      BY <1>4, <2>2, Zenon
    <3>3. (accepted - Len(hook[a].deps) + 1) - 1 < accepted
      <4>1. ASSUME NEW x \in Nat, NEW y \in Nat PROVE y >= 1 => (x - y + 1) - 1 < x
        OBVIOUS
      <4> QED
        BY <3>1, <3>2, <4>1, Zenon
    <3> QED
      BY <1>3, <2>2, <3>3, Zenon
  <2> QED
    BY <2>1, <2>3, <2>5, <2>6, <2>7, <2>8, Zenon
    DEF Abstract!AnswerDependent, Answers, Running
<1>10. ASSUME NEW a \in Actions, PostResultEnds(a) \/ ReleaseSynthetic(a)
       PROVE  UNCHANGED <<accepted, terminals, status, failed, list>>
  BY <1>10, Zenon DEF PostResultEnds, ReleaseSynthetic, works, linked
<1>11. CASE Quiet
  BY <1>5, <1>11, Zenon DEF Quiet, works, linked
<1> QED
  BY <1>1, <1>5, <1>6, <1>7, <1>8, <1>9, <1>10, <1>11, QueueSteps, Zenon DEF Abstract!Next, Worker

-----------------------------------------------------------------------------
(* Cardinalities and well-founded orders are needed from here on only. *)
INSTANCE FiniteSetTheorems

-----------------------------------------------------------------------------
(* The laws the steps rest on. *)

(* A nonempty set of naturals has a least element. *)
LEMMA LeastElement == LeastLaw
<1> SUFFICES ASSUME NEW T \in SUBSET Nat, T # {} PROVE \E x \in T : \A y \in T : x <= y
  BY Zenon DEF LeastLaw
<1>1. PICK x \in T : \A y \in T : ~(<<y, x>> \in OpToRel(<, Nat))
  BY NatLessThanWellFounded, WFMin, Zenon
<1>2. \A y \in T : ~(y < x)
  BY <1>1, Zenon DEF OpToRel
<1>3. x \in Nat
  BY Zenon
<1>4. ASSUME NEW y \in T PROVE x <= y
  <2>1. y \in Nat /\ ~(y < x)
    BY <1>2, Zenon
  <2> QED
    BY <1>3, <2>1
<1> QED
  BY <1>4, Zenon

LEMMA CountLawsHold == CountLaws
<1>1. IsFiniteSet(Actions)
  <2>1. 1 \in Int /\ MaxAccepted \in Int
    BY Sizes
  <2> QED
    BY <2>1, FS_Interval, Zenon DEF Actions
<1>2. ASSUME NEW S \in SUBSET Actions PROVE IsFiniteSet(S)
  BY <1>1, FS_Subset, Zenon
<1>3. ASSUME NEW S \in SUBSET Actions
      PROVE  /\ Cardinality(S) \in Nat
             /\ Cardinality(S) = 0 <=> S = {}
  BY <1>2, FS_CardinalityType, FS_EmptySet, Zenon
<1>4. ASSUME NEW S \in SUBSET Actions, NEW a \in Actions, a \notin S
      PROVE  Cardinality(S \cup {a}) = Cardinality(S) + 1
  BY <1>2, <1>4, FS_AddElement, Zenon
<1>5. ASSUME NEW S \in SUBSET Actions, NEW a \in S
      PROVE  Cardinality(S \ {a}) = Cardinality(S) - 1
  BY <1>2, <1>5, FS_RemoveElement, Zenon
<1> QED
  BY <1>3, <1>4, <1>5, Zenon DEF CountLaws

LEMMA SumLawsHold == SumLaws
<1>1. MaxAccepted \in Nat
  BY Sizes, Zenon
<1>2. \A w \in [1 .. MaxAccepted -> Nat] : \E f : PartialSums(f, w, MaxAccepted)
  BY <1>1, LeastElement, SumsExist, Zenon
<1>3. ASSUME NEW a \in 1 .. MaxAccepted
      PROVE  \A w, v \in [1 .. MaxAccepted -> Nat] :
               (\A n \in 1 .. MaxAccepted : n # a => v[n] = w[n]) =>
                  \A f, g : PartialSums(f, w, MaxAccepted) /\ PartialSums(g, v, MaxAccepted) =>
                     /\ f[MaxAccepted] \in Nat /\ g[MaxAccepted] \in Nat
                     /\ g[MaxAccepted] - v[a] = f[MaxAccepted] - w[a]
  BY <1>1, LeastElement, SumsChange, Zenon
<1>4. \A w, f :
        PartialSums(f, w, MaxAccepted) /\ (\A n \in 1 .. MaxAccepted : w[n] = 0) =>
           f[MaxAccepted] = 0
  BY <1>1, LeastElement, SumsZero, Zenon
<1> QED
  BY <1>2, <1>3, <1>4, Zenon DEF SumLaws

LEMMA Inductive == Spec => []IndInv
<1>1. Laws
  BY CountLawsHold, SumLawsHold, Zenon DEF Laws
<1>2. Init => IndInv
  BY <1>1, IndInit, Zenon
<1>3. IndInv /\ [Next]_vars => IndInv'
  BY <1>1, IndStep, Zenon
<1> QED
  BY <1>2, <1>3, PTL DEF Spec

-----------------------------------------------------------------------------
(* Results. *)

(* The counters of the queue never go below zero: the guards against       *)
(* underflow in action_release and in the reference drops never act.       *)
THEOREM QueueTypesAreKept == Spec => []TypeOK
<1>1. IndInv => TypeOK BY Zenon DEF IndInv
<1> QED BY <1>1, Inductive, PTL

(* queue->active, read outside the lock, means that the head is with REST  *)
(* or that a post-hook answers the dependents; an idle queue is empty, so  *)
(* the rollback of a refused first head, which clears the list, loses no   *)
(* action.                                                                 *)
THEOREM ActiveIsInFlight == Spec => []ActiveMeansInFlight
BY Inductive, IndInFlight, PTL

(* However handler, callbacks and auto-defer timer interleave, the first   *)
(* accepted action is the initial response and no later one is.            *)
THEOREM InitialIsFirstAndOnce == Spec => []InitialComesFirstOnce
BY Inductive, IndInitialFirst, PTL

(* queue->references counts the owner, the timer and the post-hooks under  *)
(* way, and the thread that drops the last one of an idle queue leaves     *)
(* nobody behind who would touch it: no use after finalize.                *)
THEOREM ReferencesAreExact == Spec => []ReferencesExact
<1>1. IndInv => ReferencesExact BY Zenon DEF IndInv
<1> QED BY <1>1, Inductive, PTL

(* The reserved bytes of the queue are its identity and the cost of the    *)
(* actions it still has, the client's total is that and the other queues', *)
(* and both stay within their limits, for every number of actions and      *)
(* every cost.                                                             *)
THEOREM BytesAreExact == Spec => []BytesExact
<1>1. IndInv => BytesExact BY Zenon DEF IndInv
<1> QED BY <1>1, Inductive, PTL

(* What dcc_app_interaction_queue_state reports: never READY again once an *)
(* initial response was admitted; and the projections of an idle queue     *)
(* that has not failed have all been committed.                            *)
THEOREM ReportedStateIsTrue == Spec => []ReportedStateTracksCalls
BY Inductive, IndReported, PTL

(* The queue implements the ordered responses: one call at a time, in the  *)
(* order of acceptance, each started after the callbacks of the one before *)
(* it, and nothing started after a failure.                                *)
THEOREM QueueImplementsOrderedResponses == Spec => ImplementsOrderedResponses
<1>1. Init => Abstract!Init
  <2> SUFFICES ASSUME Init PROVE Abstract!Init
    OBVIOUS
  <2>1. \A a \in Actions : stage[a] \notin {"submitted", "delivered"}
    BY DEF Init
  <2>2. Running = 0
    BY <2>1, Zenon DEF Running
  <2>3. Answers = <<>>
    BY DEF Init, Answers
  <2>4. accepted = 0 /\ failed = FALSE
    BY Zenon DEF Init
  <2> QED
    BY <2>2, <2>3, <2>4, Zenon DEF Abstract!Init, Answers, Running
<1> QED
  BY <1>1, Inductive, StepImplements, PTL DEF Spec, ImplementsOrderedResponses, Abstract!Spec

=============================================================================
