--------------------------- MODULE HotReloadProof ---------------------------
(***************************************************************************)
(* Proofs about HotReload, for any number of dispatchers, reloaders and     *)
(* workers and any scenario: no worker is owned twice, freed while it is    *)
(* owned or left running without an owner (OwnedOnce), and a reload frees   *)
(* only what no dispatch and no probe has copied (ReloadFreesIdle).  Most   *)
(* leaves are set reasoning without arithmetic and name Zenon for it.       *)
(***************************************************************************)
EXTENDS HotReload, FiniteSetTheorems, TLAPS

(* The tasks that copy the slots and use what they copied.                 *)
Users == Dispatchers \cup {Supervisor}

Pcs ==
    {"idle", "primary", "record", "decide", "fallback", "promote", "retry", "retireretry",
     "retire", "stop", "active", "last_good", "candidate", "judge", "spawn", "install",
     "undo", "drain", "stopping", "off", "gone"}

PartyType ==
    [pc : Pcs, active : Workers \cup {None}, last_good : Workers \cup {None},
     candidate : Workers \cup {None}, ok : BOOLEAN, failed : BOOLEAN,
     alive : SUBSET (Workers \cup {None}), hand : SUBSET Workers]

Typed == TypeOK /\ party \in [Parties -> PartyType]

(* Where a party is decides what it has copied and holds.                  *)
NoCopies(p) == p.active = None /\ p.last_good = None /\ p.candidate = None

DispatcherIs(p) ==
    /\ p.pc \in {"idle", "primary", "record", "decide", "fallback", "promote",
                 "retry", "retireretry", "retire", "stop"}
    /\ p.pc = "idle" => p.hand = {} /\ NoCopies(p)
    /\ p.pc \in {"record", "decide"} => p.candidate # None
    /\ p.pc \in {"fallback", "promote", "retry", "retireretry", "retire"} => p.active # None
    /\ p.pc \in {"promote", "retry", "retireretry"} => p.last_good \notin {None, p.active}

SupervisorIs(p) ==
    /\ p.pc \in {"idle", "active", "last_good", "candidate", "judge", "stop"}
    /\ p.pc # "stop" => p.hand = {}
    /\ p.pc \in {"idle", "stop"} => NoCopies(p)

ReloaderIs(p) ==
    /\ p.pc \in {"idle", "spawn", "install", "undo", "drain", "stop"}
    /\ p.pc \in {"idle", "spawn"} => p.hand = {}
    /\ p.pc = "install" => \E w \in Workers : p.hand = {w}

OwnerIs(p) ==
    /\ p.pc \in {"idle", "stopping", "off", "stop", "gone"}
    /\ p.pc # "stop" => p.hand = {}

Shape ==
    /\ \A x \in Dispatchers : DispatcherIs(party[x])
    /\ SupervisorIs(party[Supervisor])
    /\ \A r \in Reloaders : ReloaderIs(party[r])
    /\ OwnerIs(party[Owner])

(* No worker is owned twice, and what is owned is not freed.               *)
SlotsApart ==
    /\ active_worker # None => active_worker \notin {last_good_worker, candidate_worker}
    /\ last_good_worker # None => last_good_worker # candidate_worker

HandsApart ==
    /\ \A a \in Parties : party[a].hand \cap Slots = {}
    /\ \A a, b \in Parties : a # b => party[a].hand \cap party[b].hand = {}

Allocated ==
    /\ \A w \in Slots : mem[w] = "live"
    /\ \A a \in Parties : \A w \in party[a].hand : mem[w] \in {"live", "closed"}
    /\ \A a \in Users : \A w \in Copied(a) : mem[w] # "none"

Held ==
    \A w \in Workers : proc[w] \in {"up", "bad"} =>
        w \in Slots \/ \E a \in Parties : w \in party[a].hand

(* active_calls is the number of calls under way.                          *)
Inside(a, p) == p.pc # "idle" /\ (a = Supervisor => p.pc # "stop")
Entered == {a \in Users : Inside(a, party[a])}
Counted == IsFiniteSet(Entered) /\ active_calls = Cardinality(Entered)

(* What the copies of a dispatch say about the slots of now.               *)
NewIsUncopied ==
    \A r \in Reloaders : At(r, "install") =>
        \A x \in Dispatchers : party[r].hand \cap Copied(x) = {}

NewIsLive ==
    \A r \in Reloaders : At(r, "install") => \A w \in party[r].hand : mem[w] = "live"

CandidateIsNew ==
    \A x \in Dispatchers :
        candidate_worker # None => candidate_worker \notin {party[x].active, party[x].last_good}

CopyIsRecent ==
    \A x \in Dispatchers : active_worker # None =>
        /\ active_worker = party[x].active => last_good_worker \in {None, party[x].last_good}
        /\ active_worker = party[x].last_good => last_good_worker = None

RetiredIsDead ==
    \A x \in Dispatchers :
        /\ party[x].pc \in {"retry", "retireretry", "retire"}
        /\ active_worker = party[x].active
        /\ last_good_worker # None
        => proc[last_good_worker] = "dead"

Ownership == SlotsApart /\ HandsApart /\ Allocated /\ Held
Views == NewIsUncopied /\ NewIsLive /\ CandidateIsNew /\ CopyIsRecent

(* The inductive invariant.                                                *)
IndInv ==
    /\ Typed /\ Shape /\ Ownership /\ Counted
    /\ Views /\ RetiredIsDead /\ ReloadFreesIdle

-----------------------------------------------------------------------------
(* Most steps are of one kind: a party changes its own record, ...         *)
OnlyParty(a) ==
    /\ \A b \in Parties \ {a} : party'[b] = party[b]
    /\ mem' = mem
    /\ \A w \in Workers : proc[w] = "dead" => proc'[w] = "dead"
    /\ \A w \in Workers : proc'[w] \in {"up", "bad"} => proc[w] \in {"up", "bad"}

(* ... the slots stay, are emptied or move up, ...                         *)
Moves ==
    /\ candidate_worker' \in {candidate_worker, None}
    /\ \/ active_worker' = active_worker /\ last_good_worker' \in {last_good_worker, None}
       \/ active_worker' \in {last_good_worker, None} /\ last_good_worker' = None
       \/ /\ candidate_worker # None
          /\ active_worker' = candidate_worker /\ candidate_worker' = None
          /\ last_good_worker' \in {active_worker, None}

(* ... what leaves the slots goes to its hand unless the process is dead,  *)
Takes(a) ==
    /\ party[a].hand \subseteq party'[a].hand
    /\ party'[a].hand \subseteq party[a].hand \cup (Slots \ Slots')
    /\ \A w \in Slots \ Slots' : w \in party'[a].hand \/ proc[w] \notin {"up", "bad"}

(* ... a copy of the slots is made, kept or given up, ...                  *)
Copies(a) ==
    \/ /\ party'[a].active = party[a].active /\ party'[a].last_good = party[a].last_good
       /\ party'[a].candidate = party[a].candidate
    \/ /\ party'[a].active = None /\ party'[a].last_good = None /\ party'[a].candidate = None
    \/ /\ UNCHANGED slots
       /\ party'[a].active = active_worker /\ party'[a].last_good = last_good_worker
       /\ party'[a].candidate \in {candidate_worker, None}

(* ... a reloader or the owner begins to stop workers when no call is      *)
(* active, and a dispatch to retire when nothing can be recovered.         *)
Begins(a) ==
    /\ a \in Reloaders \cup {Owner} =>
         party'[a].pc # "install" /\ (party'[a].pc = "stop" => active_calls = 0)
    /\ a \in Dispatchers /\ party'[a].pc \in {"retry", "retireretry", "retire"} =>
         \/ active_worker' # party'[a].active
         \/ last_good_worker' = None
         \/ proc'[last_good_worker'] = "dead"

Step(a) == OnlyParty(a) /\ Moves /\ Takes(a) /\ (a \in Users => Copies(a)) /\ Begins(a)

LEMMA MovesShrinks ==
    ASSUME SlotsApart, Moves
    PROVE  SlotsApart' /\ Slots' \subseteq Slots
BY Zenon DEF SlotsApart, Moves, Slots

LEMMA StepKeepsOwnership ==
    ASSUME Typed, Ownership, NEW a \in Parties, Step(a)
    PROVE  Ownership'
<1> USE DEF Step, OnlyParty, Takes
<1>0. SlotsApart' /\ Slots' \subseteq Slots
    BY MovesShrinks, Zenon DEF Ownership
<1>1. HandsApart'
    <2>1. ASSUME NEW b \in Parties PROVE party'[b].hand \cap Slots' = {}
        BY <1>0, ZenonT(40) DEF Ownership, HandsApart
    <2>2. ASSUME NEW b \in Parties, NEW c \in Parties, b # c
          PROVE  party'[b].hand \cap party'[c].hand = {}
        BY <2>2 DEF Ownership, HandsApart
    <2> QED BY <2>1, <2>2, Zenon DEF HandsApart
<1>2. Allocated'
    <2>1. \A w \in Slots' : mem'[w] = "live"
        BY <1>0, Zenon DEF Ownership, Allocated
    <2>2. ASSUME NEW b \in Parties, NEW w \in party'[b].hand
          PROVE  mem'[w] \in {"live", "closed"}
        BY Zenon DEF Ownership, Allocated
    <2>3. ASSUME NEW b \in Users, NEW w \in Copied(b)' PROVE mem'[w] # "none"
        <3>1. b \in Parties BY Zenon DEF Users, Parties
        <3>2. CASE b = a
            <4>1. Copied(a)' \subseteq Copied(a) \cup Slots
                BY <3>2, Zenon DEF Copies, Copied, Real, Slots
            <4> QED BY <4>1, <3>2, ZenonT(40) DEF Ownership, Allocated
        <3>3. CASE b # a
            <4>1. Copied(b)' = Copied(b) BY <3>1, <3>3, Zenon DEF Copied, Real
            <4> QED BY <4>1 DEF Ownership, Allocated
        <3> QED BY <3>2, <3>3, Zenon
    <2> QED BY <2>1, <2>2, <2>3, Zenon DEF Allocated
<1>3. Held'
    <2> SUFFICES ASSUME NEW w \in Workers, proc'[w] \in {"up", "bad"}
                 PROVE  w \in Slots' \/ \E b \in Parties : w \in party'[b].hand
        BY Zenon DEF Held
    <2>1. w \in Slots \/ \E b \in Parties : w \in party[b].hand
        BY Zenon DEF Ownership, Held
    <2>2. CASE w \in Slots BY <2>2, Zenon
    <2>3. ASSUME NEW b \in Parties, w \in party[b].hand
          PROVE  w \in party'[b].hand
        BY <2>3, Zenon
    <2> QED BY <2>1, <2>2, <2>3, Zenon
<1> QED BY <1>0, <1>1, <1>2, <1>3, Zenon DEF Ownership

LEMMA PartyDisjoint ==
    /\ Users \subseteq Parties /\ Reloaders \cup {Owner} \subseteq Parties
    /\ Users \cap (Reloaders \cup {Owner}) = {}
    /\ Supervisor \notin Dispatchers /\ Owner \notin Reloaders
BY HotReloadAssumption, Zenon DEF Users, Parties

LEMMA StepKeepsViews ==
    ASSUME Typed, Ownership, Views, RetiredIsDead, NEW a \in Parties, Step(a)
    PROVE  Views' /\ RetiredIsDead'
<1> USE PartyDisjoint DEF Step, Users
<1>1. NewIsUncopied'
    <2> SUFFICES ASSUME NEW r \in Reloaders, At(r, "install")', NEW x \in Dispatchers
                 PROVE  party'[r].hand \cap Copied(x)' = {}
        BY Zenon DEF NewIsUncopied
    <2>1. r # a /\ At(r, "install") /\ party'[r].hand = party[r].hand
        BY Zenon DEF OnlyParty, Begins, At
    <2>2. Copied(x)' \subseteq Copied(x) \cup Slots
        BY Zenon DEF OnlyParty, Copies, Copied, Real, Slots
    <2> QED BY <2>1, <2>2, Zenon DEF Views, NewIsUncopied, Ownership, HandsApart
<1>2. CandidateIsNew'
    <2> SUFFICES ASSUME NEW x \in Dispatchers, candidate_worker' # None
                 PROVE  candidate_worker' \notin {party'[x].active, party'[x].last_good}
        BY Zenon DEF CandidateIsNew
    <2>1. candidate_worker' = candidate_worker BY Zenon DEF Moves
    <2>2. candidate_worker \notin {party[x].active, party[x].last_good}
        BY <2>1, Zenon DEF Views, CandidateIsNew
    <2>3. candidate_worker \notin {active_worker, last_good_worker}
        BY <2>1 DEF Ownership, SlotsApart
    <2> QED BY <2>1, <2>2, <2>3, ZenonT(40) DEF OnlyParty, Copies
<1>3. CopyIsRecent'
    <2> SUFFICES ASSUME NEW x \in Dispatchers, active_worker' # None
                 PROVE  /\ active_worker' = party'[x].active =>
                              last_good_worker' \in {None, party'[x].last_good}
                        /\ active_worker' = party'[x].last_good => last_good_worker' = None
        BY Zenon DEF CopyIsRecent
    <2>1. /\ candidate_worker # None => candidate_worker \notin {party[x].active, party[x].last_good}
          /\ active_worker # None /\ active_worker = party[x].active =>
                last_good_worker \in {None, party[x].last_good}
          /\ active_worker # None /\ active_worker = party[x].last_good =>
                last_good_worker = None
        BY Zenon DEF Views, CandidateIsNew, CopyIsRecent
    <2>2. \/ party'[x].active = party[x].active /\ party'[x].last_good = party[x].last_good
          \/ party'[x].active = None /\ party'[x].last_good = None
          \/ /\ UNCHANGED slots
             /\ party'[x].active = active_worker /\ party'[x].last_good = last_good_worker
        BY Zenon DEF OnlyParty, Copies
    <2> QED BY <2>1, <2>2, Zenon DEF Moves, slots, Ownership, SlotsApart
<1>4. RetiredIsDead'
    <2> SUFFICES ASSUME NEW x \in Dispatchers,
                        party'[x].pc \in {"retry", "retireretry", "retire"},
                        active_worker' = party'[x].active, last_good_worker' # None
                 PROVE  proc'[last_good_worker'] = "dead"
        BY Zenon DEF RetiredIsDead
    <2>1. CASE x = a BY <2>1, Zenon DEF Begins
    <2>2. CASE x # a
        <3>1. party'[x] = party[x] BY <2>2, Zenon DEF OnlyParty
        <3>2. candidate_worker # None => candidate_worker # party[x].active
            BY Zenon DEF Views, CandidateIsNew
        <3>3. active_worker' = active_worker /\ last_good_worker' = last_good_worker
            BY <3>1, <3>2, Zenon DEF Moves
        <3>4. proc[last_good_worker] = "dead" BY <3>1, <3>3, Zenon DEF RetiredIsDead
        <3>5. last_good_worker \in Workers BY <3>3, Zenon DEF Typed, TypeOK
        <3> QED BY <3>3, <3>4, <3>5, Zenon DEF OnlyParty
    <2> QED BY <2>1, <2>2, Zenon
<1>5. NewIsLive' BY ZenonT(40) DEF OnlyParty, Begins, At, Views, NewIsLive
<1> QED BY <1>1, <1>2, <1>3, <1>4, <1>5, Zenon DEF Views

LEMMA NoCallNoCopy ==
    ASSUME Typed, Shape, Counted, active_calls = 0, NEW a \in Users
    PROVE  Copied(a) = {}
<1>1. a \notin Entered BY FS_EmptySet, Zenon DEF Counted
<1>2. NoCopies(party[a])
    BY <1>1, Zenon DEF Entered, Inside, Shape, DispatcherIs, SupervisorIs, Users
<1> QED BY <1>2, Zenon DEF NoCopies, Copied, Real

LEMMA StepKeepsFreesIdle ==
    ASSUME IndInv, NEW a \in Parties, Step(a)
    PROVE  ReloadFreesIdle'
<1> USE PartyDisjoint DEF Step, IndInv
<1> SUFFICES ASSUME NEW r \in Reloaders \cup {Owner}, At(r, "stop")', NEW b \in Users
             PROVE  Copied(b)' \cap party'[r].hand = {}
    BY Zenon DEF ReloadFreesIdle, Users
<1>1. CASE r = a
    <2>1. active_calls = 0 BY <1>1, Zenon DEF Begins, At
    <2>2. Copied(b) = {} BY <2>1, NoCallNoCopy, Zenon
    <2>3. Copied(b)' = Copied(b) BY <1>1, Zenon DEF OnlyParty, Copied, Real
    <2> QED BY <2>2, <2>3, Zenon
<1>2. CASE r # a
    <2>1. party'[r] = party[r] BY <1>2, Zenon DEF OnlyParty
    <2>2. Copied(b) \cap party[r].hand = {}
        BY <2>1, Zenon DEF ReloadFreesIdle, At, Users
    <2>3. Copied(b)' \subseteq Copied(b) \cup Slots
        BY Zenon DEF OnlyParty, Copies, Copied, Real, Slots
    <2>4. party[r].hand \cap Slots = {} BY Zenon DEF Ownership, HandsApart
    <2> QED BY <2>1, <2>2, <2>3, <2>4, Zenon
<1> QED BY <1>1, <1>2, Zenon

(* The step of one party keeps the invariant if it keeps the types, the    *)
(* party's own shape and the count of the calls.                           *)
Fits(a, p) ==
    /\ p \in PartyType
    /\ a \in Dispatchers => DispatcherIs(p)
    /\ a = Supervisor => SupervisorIs(p)
    /\ a \in Reloaders => ReloaderIs(p)
    /\ a = Owner => OwnerIs(p)

LEMMA OthersFit ==
    ASSUME Shape, NEW a \in Parties, Fits(a, party'[a]),
           \A b \in Parties \ {a} : party'[b] = party[b]
    PROVE  Shape'
BY PartyDisjoint, Zenon DEF Shape, Fits, Parties

LEMMA CountedKept ==
    ASSUME Counted, NEW a \in Parties, \A b \in Parties \ {a} : party'[b] = party[b],
           \/ /\ a \in Users => (Inside(a, party'[a]) <=> Inside(a, party[a]))
              /\ active_calls' = active_calls
           \/ /\ a \in Users /\ ~Inside(a, party[a]) /\ Inside(a, party'[a])
              /\ active_calls' = active_calls + 1
           \/ /\ a \in Users /\ Inside(a, party[a]) /\ ~Inside(a, party'[a])
              /\ active_calls' = active_calls - 1
    PROVE  Counted'
<1> USE PartyDisjoint
<1>1. CASE (a \in Users => (Inside(a, party'[a]) <=> Inside(a, party[a])))
           /\ active_calls' = active_calls
    <2>1. Entered' = Entered BY <1>1, Zenon DEF Entered, Inside
    <2> QED BY <2>1, <1>1, Zenon DEF Counted
<1>2. CASE /\ a \in Users /\ ~Inside(a, party[a]) /\ Inside(a, party'[a])
           /\ active_calls' = active_calls + 1
    <2>1. Entered' = Entered \cup {a} /\ a \notin Entered BY <1>2, Zenon DEF Entered, Inside
    <2> QED BY <2>1, <1>2, FS_AddElement, Zenon DEF Counted
<1>3. CASE /\ a \in Users /\ Inside(a, party[a]) /\ ~Inside(a, party'[a])
           /\ active_calls' = active_calls - 1
    <2>1. Entered' = Entered \ {a} /\ a \in Entered BY <1>3, Zenon DEF Entered, Inside
    <2> QED BY <2>1, <1>3, FS_RemoveElement, Zenon DEF Counted
<1> QED BY <1>1, <1>2, <1>3, Zenon

LEMMA StepKeeps ==
    ASSUME IndInv, NEW a \in Parties, Step(a), TypeOK', Fits(a, party'[a]), Counted',
           party' = [party EXCEPT ![a] = party'[a]]
    PROVE  IndInv'
<1>1. Typed' BY Zenon DEF Typed, IndInv, Fits
<1>2. Shape' BY OthersFit, Zenon DEF IndInv, Step, OnlyParty
<1>3. Ownership' /\ Views' /\ RetiredIsDead'
    BY StepKeepsOwnership, StepKeepsViews, Zenon DEF IndInv
<1> QED BY <1>1, <1>2, <1>3, StepKeepsFreesIdle, Zenon DEF IndInv

(* What Set does.                                                          *)
LEMMA SetParty ==
    ASSUME Typed, NEW a \in Parties, NEW q, Set(a, q)
    PROVE  /\ party' = [party EXCEPT ![a] = party'[a]] /\ party'[a] = q
           /\ \A b \in Parties \ {a} : party'[b] = party[b]
BY Zenon DEF Typed, Set

(* The calls a step of party a begins, goes on with or ends.               *)
Counts(a, q) ==
    \/ /\ a \in Users => (Inside(a, q) <=> Inside(a, party[a]))
       /\ active_calls' = active_calls
    \/ /\ a \in Users /\ ~Inside(a, party[a]) /\ Inside(a, q)
       /\ active_calls' = active_calls + 1
    \/ /\ a \in Users /\ Inside(a, party[a]) /\ ~Inside(a, q)
       /\ active_calls' = active_calls - 1

(* A step that moves the slots, and one that does not even do that.        *)
LEMMA MovingStep ==
    ASSUME IndInv, NEW a \in Parties, NEW q, Set(a, q), Fits(a, q), TypeOK',
           UNCHANGED <<mem, proc>>, Moves, Takes(a), a \in Users => Copies(a), Begins(a),
           Counts(a, q)
    PROVE  IndInv'
<1>1. /\ party' = [party EXCEPT ![a] = party'[a]] /\ party'[a] = q
      /\ \A b \in Parties \ {a} : party'[b] = party[b]
    BY SetParty, Zenon DEF IndInv
<1>2. OnlyParty(a) BY <1>1, Zenon DEF OnlyParty
<1>3. Counted' BY <1>1, CountedKept, Zenon DEF IndInv, Counts
<1> QED BY <1>1, <1>2, <1>3, StepKeeps, Zenon DEF Step

LEMMA QuietStep ==
    ASSUME IndInv, NEW a \in Parties, NEW q, Set(a, q), Fits(a, q), TypeOK',
           UNCHANGED <<slots, mem, proc>>, q.hand = party[a].hand,
           a \in Users => Copies(a), Begins(a), Counts(a, q)
    PROVE  IndInv'
<1>1. Moves BY Zenon DEF Moves, slots
<1>2. Takes(a)
    <2>1. Slots' = Slots BY Zenon DEF Slots, slots
    <2>2. party'[a] = q BY SetParty, Zenon DEF IndInv
    <2> QED BY <2>1, <2>2, Zenon DEF Takes
<1> QED BY <1>1, <1>2, MovingStep, Zenon DEF slots

LEMMA DispatcherFacts ==
    ASSUME IndInv, NEW x \in Dispatchers
    PROVE  /\ x \in Parties /\ x \in Users /\ x # Supervisor /\ x # Owner /\ x \notin Reloaders
           /\ party[x] \in PartyType /\ DispatcherIs(party[x])
           /\ active_worker # None /\ active_worker = party[x].active
                /\ party[x].last_good \in {None, party[x].active} => last_good_worker = None
<1>1. /\ x \in Parties /\ x \in Users /\ x # Supervisor /\ x # Owner /\ x \notin Reloaders
    BY PartyDisjoint, Zenon DEF Users
<1>2. party[x] \in PartyType /\ DispatcherIs(party[x])
    BY <1>1, Zenon DEF IndInv, Typed, Shape
<1>3. active_worker # None /\ active_worker = party[x].active
        /\ party[x].last_good \in {None, party[x].active} => last_good_worker = None
    BY Zenon DEF IndInv, Views, CopyIsRecent, Ownership, SlotsApart
<1> QED BY <1>1, <1>2, <1>3, Zenon

(* What a party's record is after a change of some of its fields.          *)
SameBut(p, q) ==
    /\ q \in PartyType /\ q.active = p.active /\ q.last_good = p.last_good
    /\ q.candidate = p.candidate

LEMMA AttemptsFacts ==
    ASSUME NEW w, NEW o \in Attempts(w)
    PROVE  o.ok \in BOOLEAN /\ o.failed \in BOOLEAN /\ (w = None => ~o.failed)
<1>1. o \in {Handled, Refused, WorkerFailed} /\ (w = None => o = Refused) BY Zenon DEF Attempts
<1>2. Handled.ok = TRUE /\ Handled.failed = FALSE BY Zenon DEF Handled
<1>3. Refused.ok = FALSE /\ Refused.failed = FALSE BY Zenon DEF Refused
<1>4. WorkerFailed.ok = FALSE /\ WorkerFailed.failed = TRUE BY Zenon DEF WorkerFailed
<1> QED BY <1>1, <1>2, <1>3, <1>4, Zenon


(* The steps of a dispatch.                                                *)
LEMMA QuietDispatch ==
    ASSUME IndInv, NEW x \in Dispatchers, NEW q, Set(x, q), TypeOK',
           SameBut(party[x], q), q.hand = party[x].hand, DispatcherIs(q),
           party[x].pc # "idle", q.pc # "idle",
           UNCHANGED <<slots, active_calls, mem, proc>>,
           q.pc \in {"retry", "retireretry", "retire"} =>
              \/ active_worker # q.active \/ last_good_worker = None
              \/ proc[last_good_worker] = "dead"
    PROVE  IndInv'
<1>1. Fits(x, q) BY DispatcherFacts, Zenon DEF Fits, SameBut
<1>2. party'[x] = q BY SetParty, DispatcherFacts, Zenon DEF IndInv
<1>3. Copies(x) BY <1>2, Zenon DEF Copies, SameBut
<1>4. Begins(x) BY <1>2, DispatcherFacts, Zenon DEF Begins, slots
<1>5. Counts(x, q) BY DispatcherFacts, Zenon DEF Counts, Inside
<1> QED BY <1>1, <1>3, <1>4, <1>5, QuietStep, DispatcherFacts, Zenon

LEMMA RecoversFacts ==
    ASSUME NEW p \in PartyType
    PROVE  /\ Retires(p) \in {"retire", "stop"} /\ Recovers(p) \in {"promote", "retire", "stop"}
           /\ Retires(p) = "retire" => p.failed
           /\ Recovers(p) # "stop" => p.failed
           /\ Recovers(p) = "promote" => p.last_good \notin {None, p.active}
           /\ Recovers(p) = "retire" => p.last_good \in {None, p.active}
BY Zenon DEF Recovers, Retires, PartyType

LEMMA TryPrimaryKeeps == ASSUME IndInv, NEW x \in Dispatchers, TryPrimary(x) PROVE IndInv'
<1> DEFINE p == party[x]
<1>1. PICK o \in Attempts(Primary(p)) :
         LET t == [p EXCEPT !.ok = o.ok, !.failed = o.failed]
         IN Set(x, [t EXCEPT !.pc = IF t.candidate # None THEN "record" ELSE Recovers(t)])
    BY Zenon DEF TryPrimary
<1> DEFINE t == [p EXCEPT !.ok = o.ok, !.failed = o.failed]
           s == IF t.candidate # None THEN "record" ELSE Recovers(t)
           q == [t EXCEPT !.pc = s]
<1>2. o.ok \in BOOLEAN /\ o.failed \in BOOLEAN /\ (Primary(p) = None => ~o.failed)
    BY AttemptsFacts, Zenon
<1>3. SameBut(p, t) /\ t.hand = p.hand /\ t.failed = o.failed
    BY <1>2, DispatcherFacts, Zenon DEF SameBut, PartyType
<1>4. s \in {"record", "promote", "retire", "stop"} /\ (s # "record" => s = Recovers(t))
      /\ (s = "record" <=> p.candidate # None)
    BY <1>3, RecoversFacts, Zenon DEF SameBut
<1>5. SameBut(p, q) /\ q.pc = s /\ q.hand = p.hand
    <2> HIDE DEF t, s
    <2> QED BY <1>3, <1>4, Zenon DEF SameBut, PartyType, Pcs
<1>6. Set(x, q) BY <1>1, Zenon
<1> HIDE DEF t, s, q
<1>7. p.pc = "primary" /\ UNCHANGED <<slots, worker_canary, active_calls, reloading, proc, mem, env>>
    BY Zenon DEF TryPrimary, At
<1>8. TypeOK' BY <1>7, Zenon DEF IndInv, Typed, TypeOK, slots
<1>9. DispatcherIs(q)
    BY <1>2, <1>3, <1>4, <1>5, RecoversFacts, DispatcherFacts, Zenon
       DEF DispatcherIs, Primary, SameBut
<1>10. q.pc = "retire" => active_worker # q.active \/ last_good_worker = None
    BY <1>3, <1>4, <1>5, <1>9, RecoversFacts, DispatcherFacts DEF DispatcherIs, SameBut
<1> QED BY <1>4, <1>5, <1>6, <1>7, <1>8, <1>9, <1>10, QuietDispatch, Zenon

LEMMA TryFallbackKeeps == ASSUME IndInv, NEW x \in Dispatchers, TryFallback(x) PROVE IndInv'
<1> DEFINE p == party[x]
<1>1. PICK o \in Attempts(p.active) :
         LET t == [p EXCEPT !.ok = o.ok, !.failed = o.failed]
         IN Set(x, [t EXCEPT !.pc = Recovers(t)])
    BY Zenon DEF TryFallback
<1> DEFINE t == [p EXCEPT !.ok = o.ok, !.failed = o.failed]
           s == Recovers(t)
           q == [t EXCEPT !.pc = s]
<1>2. o.ok \in BOOLEAN /\ o.failed \in BOOLEAN
    BY AttemptsFacts, Zenon
<1>3. SameBut(p, t) /\ t.hand = p.hand /\ t.failed = o.failed
    BY <1>2, DispatcherFacts, Zenon DEF SameBut, PartyType
<1>4. s \in {"promote", "retire", "stop"}
    BY <1>3, RecoversFacts, Zenon DEF SameBut
<1>5. SameBut(p, q) /\ q.pc = s /\ q.hand = p.hand
    <2> HIDE DEF t, s
    <2> QED BY <1>3, <1>4, Zenon DEF SameBut, PartyType, Pcs
<1>6. Set(x, q) BY <1>1, Zenon
<1>7. p.pc = "fallback" /\ UNCHANGED <<slots, worker_canary, active_calls, reloading, proc, mem, env>>
    BY Zenon DEF TryFallback, At
<1>8. TypeOK' BY <1>7, Zenon DEF IndInv, Typed, TypeOK, slots
<1>9. (s = "promote" => p.last_good \notin {None, p.active})
      /\ (s = "retire" => p.last_good \in {None, p.active})
    BY <1>3, RecoversFacts, Zenon DEF SameBut
<1> HIDE DEF t, s, q
<1>10. DispatcherIs(q)
    BY <1>4, <1>5, <1>7, <1>9, DispatcherFacts, Zenon DEF DispatcherIs, SameBut
<1>11. q.pc = "retire" => active_worker # q.active \/ last_good_worker = None
    BY <1>5, <1>9, <1>10, DispatcherFacts, Zenon DEF DispatcherIs, SameBut
<1> QED BY <1>4, <1>5, <1>6, <1>7, <1>8, <1>10, <1>11, QuietDispatch, Zenon

LEMMA RecordKeeps == ASSUME IndInv, NEW x \in Dispatchers, Record(x) PROVE IndInv'
<1> DEFINE p == party[x]
           q == [p EXCEPT !.pc = "decide"]
<1>1. p.pc = "record" /\ Set(x, q) /\ UNCHANGED <<slots, active_calls, reloading, proc, mem, env>>
    BY Zenon DEF Record, At
<1>2. SameBut(p, q) /\ q.pc = "decide" /\ q.hand = p.hand
    BY DispatcherFacts, ZenonT(40) DEF SameBut, PartyType, Pcs
<1>3. worker_canary' \in [active : BOOLEAN, routed : Nat, failures : Nat, consecutive : Nat]
    <2>1. worker_canary \in [active : BOOLEAN, routed : Nat, failures : Nat, consecutive : Nat]
        BY Zenon DEF IndInv, Typed, TypeOK
    <2>2. Recorded(worker_canary, p.ok) \in
             [active : BOOLEAN, routed : Nat, failures : Nat, consecutive : Nat]
        <3> DEFINE f == IF p.ok THEN worker_canary.failures ELSE worker_canary.failures + 1
                   c == IF p.ok THEN 0 ELSE worker_canary.consecutive + 1
        <3>1. f \in Nat /\ c \in Nat /\ worker_canary.routed + 1 \in Nat BY <2>1
        <3>2. Recorded(worker_canary, p.ok) =
                [worker_canary EXCEPT !.routed = worker_canary.routed + 1,
                                      !.failures = f, !.consecutive = c]
            BY <2>1, Zenon DEF Recorded
        <3> HIDE DEF f, c
        <3> QED BY <2>1, <3>1, <3>2, Zenon
    <2>3. worker_canary' \in {worker_canary, Recorded(worker_canary, p.ok)}
        BY Zenon DEF Record
    <2> QED BY <2>1, <2>2, <2>3, Zenon
<1>4. TypeOK' BY <1>1, <1>3, Zenon DEF IndInv, Typed, TypeOK, slots
<1> HIDE DEF q
<1>5. DispatcherIs(q) BY <1>1, <1>2, DispatcherFacts, Zenon DEF DispatcherIs, SameBut
<1> QED BY <1>1, <1>2, <1>4, <1>5, QuietDispatch, Zenon

LEMMA TryLastGoodKeeps == ASSUME IndInv, NEW x \in Dispatchers, TryLastGood(x) PROVE IndInv'
<1> DEFINE p == party[x]
<1>1. PICK o \in Attempts(p.last_good) :
         LET t == [p EXCEPT !.ok = o.ok]
         IN Set(x, [t EXCEPT !.pc = IF o.failed THEN "retireretry" ELSE Retires(t)])
    BY Zenon DEF TryLastGood
<1> DEFINE t == [p EXCEPT !.ok = o.ok]
           s == IF o.failed THEN "retireretry" ELSE Retires(t)
           q == [t EXCEPT !.pc = s]
<1>2. o.ok \in BOOLEAN /\ o.failed \in BOOLEAN
    BY AttemptsFacts, Zenon
<1>3. SameBut(p, t) /\ t.hand = p.hand
    BY <1>2, DispatcherFacts, Zenon DEF SameBut, PartyType
<1>4. s \in {"retireretry", "retire", "stop"}
    BY <1>2, <1>3, RecoversFacts, Zenon DEF SameBut
<1>5. SameBut(p, q) /\ q.pc = s /\ q.hand = p.hand
    <2> HIDE DEF t, s
    <2> QED BY <1>3, <1>4, Zenon DEF SameBut, PartyType, Pcs
<1>6. Set(x, q) BY <1>1, Zenon
<1>7. p.pc = "retry" /\ UNCHANGED <<slots, worker_canary, active_calls, reloading, proc, mem, env>>
    BY Zenon DEF TryLastGood, At
<1>8. TypeOK' BY <1>7, Zenon DEF IndInv, Typed, TypeOK, slots
<1> HIDE DEF t, s, q
<1>9. DispatcherIs(q) BY <1>4, <1>5, <1>7, DispatcherFacts, Zenon DEF DispatcherIs, SameBut
<1>10. \/ active_worker # q.active \/ last_good_worker = None
       \/ proc[last_good_worker] = "dead"
    BY <1>5, <1>7, Zenon DEF IndInv, RetiredIsDead, SameBut
<1> QED BY <1>4, <1>5, <1>6, <1>7, <1>8, <1>9, <1>10, QuietDispatch, Zenon

LEMMA LeaveKeeps == ASSUME IndInv, NEW x \in Dispatchers, Leave(x) PROVE IndInv'
<1>1. /\ party[x].pc = "stop" /\ party[x].hand = {} /\ Set(x, Idle)
      /\ active_calls' = active_calls - 1
      /\ UNCHANGED <<slots, worker_canary, reloading, proc, mem, env>>
    BY Zenon DEF Leave, At
<1>2. Fits(x, Idle) BY DispatcherFacts, Zenon DEF Fits, Idle, PartyType, Pcs, DispatcherIs, NoCopies
<1>3. party'[x] = Idle BY <1>1, SetParty, DispatcherFacts, Zenon DEF IndInv
<1>4. Copies(x) /\ Begins(x) /\ Idle.hand = {}
    BY <1>3, DispatcherFacts DEF Copies, Begins, Idle
<1>5. Counts(x, Idle) BY <1>1, DispatcherFacts, Zenon DEF Counts, Inside, Idle
<1>6. active_calls' \in Nat
    <2>1. x \in Entered BY <1>1, DispatcherFacts, Zenon DEF Entered, Inside
    <2>2. IsFiniteSet(Entered) /\ active_calls = Cardinality(Entered) /\ active_calls \in Nat
        BY Zenon DEF IndInv, Counted, Typed, TypeOK
    <2>3. active_calls # 0 BY <2>1, <2>2, FS_EmptySet, Zenon
    <2> QED BY <1>1, <2>2, <2>3
<1>7. TypeOK' BY <1>1, <1>6, Zenon DEF IndInv, Typed, TypeOK, slots
<1> QED BY <1>1, <1>2, <1>4, <1>5, <1>7, QuietStep, DispatcherFacts, Zenon

LEMMA EnterKeeps == ASSUME IndInv, NEW x \in Dispatchers, Enter(x) PROVE IndInv'
<1>1. PICK c \in {candidate_worker, None} :
        Set(x, [Idle EXCEPT !.pc = "primary", !.active = active_worker,
                            !.last_good = last_good_worker, !.candidate = c])
    BY Zenon DEF Enter
<1> DEFINE q == [Idle EXCEPT !.pc = "primary", !.active = active_worker,
                             !.last_good = last_good_worker, !.candidate = c]
<1>2. /\ party[x].pc = "idle" /\ active_calls' = active_calls + 1
      /\ UNCHANGED <<slots, worker_canary, reloading, proc, mem>>
    BY Zenon DEF Enter, At
<1>3. env' \in Environment
    BY DEF Enter, IndInv, Typed, TypeOK, Environment
<1>4. TypeOK' BY <1>2, <1>3 DEF IndInv, Typed, TypeOK, slots
<1>5. /\ q.pc = "primary" /\ q.active = active_worker /\ q.last_good = last_good_worker
      /\ q.candidate = c /\ q.hand = {} /\ q \in PartyType
    BY Zenon DEF Idle, PartyType, Pcs, IndInv, Typed, TypeOK
<1>6. Set(x, q) BY <1>1, Zenon
<1> HIDE DEF q
<1>7. Fits(x, q) BY <1>5, DispatcherFacts, Zenon DEF Fits, DispatcherIs
<1>8. party'[x] = q BY <1>6, SetParty, DispatcherFacts, Zenon DEF IndInv
<1>9. Copies(x) /\ Begins(x)
    BY <1>2, <1>5, <1>8, DispatcherFacts, Zenon DEF Copies, Begins
<1>10. Counts(x, q) BY <1>2, <1>5, DispatcherFacts, Zenon DEF Counts, Inside
<1>11. q.hand = party[x].hand BY <1>2, <1>5, DispatcherFacts, Zenon DEF DispatcherIs
<1> QED BY <1>2, <1>4, <1>6, <1>7, <1>9, <1>10, <1>11, QuietStep, DispatcherFacts, Zenon

(* A dispatch that takes workers out of the slots.                         *)
LEMMA MovingDispatch ==
    ASSUME IndInv, NEW x \in Dispatchers, NEW q, Set(x, q), TypeOK',
           SameBut(party[x], q), DispatcherIs(q), party[x].pc # "idle", q.pc # "idle",
           UNCHANGED <<active_calls, mem, proc>>, Moves,
           party[x].hand \subseteq q.hand,
           q.hand \subseteq party[x].hand \cup (Slots \ Slots'),
           \A w \in Slots \ Slots' : w \in q.hand \/ proc[w] = "dead",
           q.pc \in {"retry", "retireretry", "retire"} => last_good_worker' = None
    PROVE  IndInv'
<1>1. Fits(x, q) BY DispatcherFacts, Zenon DEF Fits, SameBut
<1>2. party'[x] = q BY SetParty, DispatcherFacts, Zenon DEF IndInv
<1>3. Copies(x) BY <1>2, Zenon DEF Copies, SameBut
<1>4. Begins(x) BY <1>2, DispatcherFacts, Zenon DEF Begins
<1>5. Counts(x, q) BY DispatcherFacts, Zenon DEF Counts, Inside
<1>6. Takes(x) BY <1>2, Zenon DEF Takes
<1> QED BY <1>1, <1>3, <1>4, <1>5, <1>6, MovingStep, DispatcherFacts, Zenon

LEMMA SlotFacts ==
    ASSUME IndInv
    PROVE  /\ active_worker \in Workers \cup {None} /\ last_good_worker \in Workers \cup {None}
           /\ candidate_worker \in Workers \cup {None} /\ None \notin Workers
           /\ active_worker # None => active_worker \notin {last_good_worker, candidate_worker}
           /\ last_good_worker # None => last_good_worker # candidate_worker
           /\ worker_canary \in [active : BOOLEAN, routed : Nat, failures : Nat, consecutive : Nat]
           /\ [worker_canary EXCEPT !.active = FALSE] \in
                [active : BOOLEAN, routed : Nat, failures : Nat, consecutive : Nat]
           /\ [NoCanary EXCEPT !.active = TRUE] \in
                [active : BOOLEAN, routed : Nat, failures : Nat, consecutive : Nat]
<1>1. worker_canary \in [active : BOOLEAN, routed : Nat, failures : Nat, consecutive : Nat]
    BY Zenon DEF IndInv, Typed, TypeOK
<1>2. [worker_canary EXCEPT !.active = FALSE] \in
        [active : BOOLEAN, routed : Nat, failures : Nat, consecutive : Nat]
    BY <1>1, Zenon
<1>3. [NoCanary EXCEPT !.active = TRUE] \in
        [active : BOOLEAN, routed : Nat, failures : Nat, consecutive : Nat]
    BY Zenon DEF NoCanary
<1> QED BY <1>1, <1>2, <1>3, HotReloadAssumption, Zenon
    DEF IndInv, Typed, TypeOK, Ownership, SlotsApart

LEMMA DecideKeeps == ASSUME IndInv, NEW x \in Dispatchers, Decide(x) PROVE IndInv'
<1> DEFINE p == party[x]
           falls == ~p.ok /\ p.active # None /\ p.active # p.candidate
           q == IF falls THEN [p EXCEPT !.pc = "fallback"]
                ELSE [p EXCEPT !.pc = "stop", !.failed = FALSE]
           current == candidate_worker = p.candidate /\ worker_canary.active
<1>1. p.pc = "decide" /\ UNCHANGED <<active_calls, reloading, proc, mem, env>>
    BY Zenon DEF Decide, At
<1>2. /\ SameBut(p, q) /\ q.hand = p.hand /\ q.pc \in {"fallback", "stop"}
      /\ q.pc = "fallback" => p.active # None
    <2>1. CASE falls
        <3>1. q = [p EXCEPT !.pc = "fallback"] /\ p.active # None BY <2>1, Zenon
        <3> HIDE DEF q
        <3> QED BY <3>1, DispatcherFacts, ZenonT(40) DEF SameBut, PartyType, Pcs
    <2>2. CASE ~falls
        <3>1. q = [p EXCEPT !.pc = "stop", !.failed = FALSE] BY <2>2, Zenon
        <3> HIDE DEF q
        <3> QED BY <3>1, DispatcherFacts, ZenonT(40) DEF SameBut, PartyType, Pcs
    <2> QED BY <2>1, <2>2, Zenon
<1>3. PICK d \in IF current THEN Decisions(worker_canary) ELSE {"keep"} :
            \/ /\ d = "promote"
               /\ PromoteCandidate
               /\ Set(x, [q EXCEPT !.hand = @ \cup Real({last_good_worker})])
            \/ /\ d = "rollback"
               /\ RollbackCandidate
               /\ Set(x, [q EXCEPT !.hand = @ \cup {candidate_worker}])
               /\ UNCHANGED <<active_worker, last_good_worker>>
            \/ /\ d = "keep"
               /\ Set(x, q)
               /\ UNCHANGED <<slots, worker_canary>>
    BY Zenon DEF Decide
<1>4. p.candidate # None BY <1>1, DispatcherFacts, Zenon DEF DispatcherIs
<1>5. d # "keep" => candidate_worker # None BY <1>3, <1>4, Zenon
<1> HIDE DEF q, falls, current
<1>6. DispatcherIs(q) BY <1>2, DispatcherFacts, Zenon DEF DispatcherIs, SameBut
<1>7. CASE /\ d = "promote" /\ PromoteCandidate
           /\ Set(x, [q EXCEPT !.hand = @ \cup Real({last_good_worker})])
    <2> DEFINE h == q.hand \cup Real({last_good_worker})
               r == [q EXCEPT !.hand = h]
    <2>1. h \in SUBSET Workers BY <1>2, SlotFacts, Zenon DEF SameBut, PartyType, Real
    <2>2. SameBut(p, r) /\ r.pc = q.pc /\ r.hand = h
        <3> HIDE DEF h
        <3> QED BY <1>2, <2>1, Zenon DEF SameBut, PartyType
    <2>3. Set(x, r) BY <1>7, Zenon
    <2> HIDE DEF r
    <2>4. DispatcherIs(r) BY <1>2, <1>6, <2>2, Zenon DEF DispatcherIs, SameBut
    <2>5. Moves BY <1>5, <1>7, Zenon DEF Moves, PromoteCandidate
    <2>6. TypeOK'
        BY <1>1, <1>7, SlotFacts, Zenon DEF PromoteCandidate, IndInv, Typed, TypeOK
    <2>7. Slots \ Slots' = Real({last_good_worker})
        BY <1>5, <1>7, SlotFacts, Zenon DEF PromoteCandidate, Slots, Real
    <2> QED BY <1>1, <1>2, <2>2, <2>3, <2>4, <2>5, <2>6, <2>7, MovingDispatch, Zenon
<1>8. CASE /\ d = "rollback" /\ RollbackCandidate
           /\ Set(x, [q EXCEPT !.hand = @ \cup {candidate_worker}])
           /\ UNCHANGED <<active_worker, last_good_worker>>
    <2> DEFINE h == q.hand \cup {candidate_worker}
               r == [q EXCEPT !.hand = h]
    <2>1. h \in SUBSET Workers BY <1>2, <1>5, <1>8, SlotFacts, Zenon DEF SameBut, PartyType
    <2>2. SameBut(p, r) /\ r.pc = q.pc /\ r.hand = h
        <3> HIDE DEF h
        <3> QED BY <1>2, <2>1, Zenon DEF SameBut, PartyType
    <2>3. Set(x, r) BY <1>8, Zenon
    <2> HIDE DEF r
    <2>4. DispatcherIs(r) BY <1>2, <1>6, <2>2, Zenon DEF DispatcherIs, SameBut
    <2>5. Moves BY <1>8, Zenon DEF Moves, RollbackCandidate
    <2>6. TypeOK'
        BY <1>1, <1>8, SlotFacts, Zenon DEF RollbackCandidate, IndInv, Typed, TypeOK
    <2>7. Slots \ Slots' = {candidate_worker}
        BY <1>5, <1>8, SlotFacts, Zenon DEF RollbackCandidate, Slots
    <2> QED BY <1>1, <1>2, <2>2, <2>3, <2>4, <2>5, <2>6, <2>7, MovingDispatch, Zenon
<1>9. CASE d = "keep" /\ Set(x, q) /\ UNCHANGED <<slots, worker_canary>>
    <2>1. TypeOK' BY <1>1, <1>9, Zenon DEF IndInv, Typed, TypeOK, slots
    <2> QED BY <1>1, <1>2, <1>6, <1>9, <2>1, QuietDispatch, ZenonT(40)
<1> QED BY <1>3, <1>7, <1>8, <1>9, Zenon

LEMMA PromoteLastGoodKeeps ==
    ASSUME IndInv, NEW x \in Dispatchers, PromoteLastGood(x) PROVE IndInv'
<1> DEFINE p == party[x]
           unchanged == active_worker = p.active /\ last_good_worker = p.last_good
           q == [p EXCEPT !.pc = "retry"]
<1>1. p.pc = "promote"
      /\ UNCHANGED <<candidate_worker, worker_canary, active_calls, reloading, proc, mem, env>>
    BY Zenon DEF PromoteLastGood, At
<1>2. PICK alive \in IsAlive(p.last_good) :
         IF unchanged /\ alive
         THEN /\ active_worker' = p.last_good /\ last_good_worker' = None
              /\ Set(x, [p EXCEPT !.pc = "retry", !.hand = @ \cup {p.active}])
         ELSE Set(x, q) /\ UNCHANGED <<active_worker, last_good_worker>>
    BY Zenon DEF PromoteLastGood
<1>3. p.active # None /\ p.last_good \notin {None, p.active}
    BY <1>1, DispatcherFacts, Zenon DEF DispatcherIs
<1>4. SameBut(p, q) /\ q.pc = "retry" /\ q.hand = p.hand
    BY DispatcherFacts, ZenonT(40) DEF SameBut, PartyType, Pcs
<1>5. CASE unchanged /\ alive
    <2> DEFINE h == p.hand \cup {p.active}
               r == [p EXCEPT !.pc = "retry", !.hand = h]
    <2>1. /\ active_worker' = p.last_good /\ last_good_worker' = None
          /\ active_worker = p.active /\ last_good_worker = p.last_good
        BY <1>2, <1>5, Zenon
    <2>2. h \in SUBSET Workers BY <1>3, DispatcherFacts, Zenon DEF PartyType
    <2>3. Set(x, r) BY <1>2, <1>5, Zenon
    <2>4. SameBut(p, r) /\ r.pc = "retry" /\ r.hand = h
        <3> HIDE DEF h
        <3> QED BY <2>2, DispatcherFacts, ZenonT(40) DEF SameBut, PartyType, Pcs
    <2> HIDE DEF r
    <2>5. DispatcherIs(r) BY <1>3, <2>4, Zenon DEF DispatcherIs, SameBut
    <2>6. Moves BY <1>1, <2>1, Zenon DEF Moves
    <2>7. TypeOK' BY <1>1, <2>1, SlotFacts, Zenon DEF IndInv, Typed, TypeOK
    <2>8. Slots \ Slots' = {p.active}
        BY <1>1, <1>3, <2>1, SlotFacts, Zenon DEF Slots
    <2> QED BY <1>1, <2>1, <2>3, <2>4, <2>5, <2>6, <2>7, <2>8, MovingDispatch, Zenon
<1>6. CASE ~(unchanged /\ alive)
    <2>1. Set(x, q) /\ UNCHANGED <<active_worker, last_good_worker>> BY <1>2, <1>6, Zenon
    <2>2. DispatcherIs(q) BY <1>3, <1>4, Zenon DEF DispatcherIs, SameBut
    <2>3. TypeOK' BY <1>1, <2>1, SlotFacts, Zenon DEF IndInv, Typed, TypeOK
    <2>4. CASE unchanged
        <3>1. ~alive BY <1>6, <2>4, Zenon
        <3>2. mem[last_good_worker] = "live"
            BY <1>3, <2>4, Zenon DEF IndInv, Ownership, Allocated, Slots
        <3>3. proc[last_good_worker] = "dead"
            BY <1>2, <2>4, <3>1, <3>2, Zenon DEF IsAlive
        <3> QED BY <1>1, <1>4, <2>1, <2>2, <2>3, <3>3, QuietDispatch, Zenon DEF slots
    <2>5. CASE ~unchanged
        <3>1. active_worker = p.active => last_good_worker = None
            BY <1>3, <2>5, Zenon DEF IndInv, Views, CopyIsRecent
        <3>2. active_worker # q.active \/ last_good_worker = None
            BY <1>4, <3>1, Zenon DEF SameBut
        <3> QED BY <1>1, <1>4, <2>1, <2>2, <2>3, <3>2, QuietDispatch, Zenon DEF slots
    <2> QED BY <2>4, <2>5, Zenon
<1> QED BY <1>5, <1>6, Zenon

LEMMA RetireKeeps ==
    ASSUME IndInv, NEW x \in Dispatchers, NEW w \in Workers, NEW q, RetireIfActive(x, w, q),
           SameBut(party[x], q), q.hand = party[x].hand, DispatcherIs(q),
           party[x].pc \in {"retireretry", "retire"}, q.pc \in {"retire", "stop"},
           active_worker = w /\ last_good_worker # None => proc[last_good_worker] = "dead"
    PROVE  IndInv'
<1>1. UNCHANGED <<candidate_worker, worker_canary, active_calls, reloading, proc, mem, env>>
    BY Zenon DEF RetireIfActive
<1>2. CASE active_worker = w
    <2> DEFINE h == q.hand \cup {w}
               r == [q EXCEPT !.hand = h]
    <2>1. active_worker' = None /\ last_good_worker' = None /\ Set(x, r)
        BY <1>2, Zenon DEF RetireIfActive
    <2>2. h \in SUBSET Workers BY Zenon DEF SameBut, PartyType
    <2>3. SameBut(party[x], r) /\ r.pc = q.pc /\ r.hand = h
        <3> HIDE DEF h
        <3> QED BY <2>2, Zenon DEF SameBut, PartyType
    <2> HIDE DEF r
    <2>4. DispatcherIs(r) BY <2>3, Zenon DEF DispatcherIs, SameBut
    <2>5. Moves BY <1>1, <2>1, Zenon DEF Moves
    <2>6. TypeOK' BY <1>1, <2>1, SlotFacts, Zenon DEF IndInv, Typed, TypeOK
    <2>7. Slots \ Slots' = {w} \cup Real({last_good_worker})
        BY <1>1, <1>2, <2>1, SlotFacts, Zenon DEF Slots, Real
    <2>8. \A v \in Slots \ Slots' : v \in r.hand \/ proc[v] = "dead"
        BY <1>2, <2>3, <2>7, Zenon DEF Real
    <2>9. party[x].hand \subseteq r.hand /\ r.hand \subseteq party[x].hand \cup (Slots \ Slots')
        BY <2>3, <2>7, Zenon
    <2> QED BY <1>1, <2>1, <2>3, <2>4, <2>5, <2>6, <2>8, <2>9, MovingDispatch, Zenon
<1>3. CASE active_worker # w
    <2>1. Set(x, q) /\ UNCHANGED <<active_worker, last_good_worker>>
        BY <1>3, Zenon DEF RetireIfActive
    <2>2. TypeOK' BY <1>1, <2>1, SlotFacts, Zenon DEF IndInv, Typed, TypeOK
    <2>3. \/ active_worker # q.active \/ last_good_worker = None
          \/ proc[last_good_worker] = "dead"
        BY Zenon DEF IndInv, RetiredIsDead, SameBut
    <2> QED BY <1>1, <2>1, <2>2, <2>3, QuietDispatch, Zenon DEF slots
<1> QED BY <1>2, <1>3, Zenon

LEMMA RetireLastGoodKeeps ==
    ASSUME IndInv, NEW x \in Dispatchers, RetireLastGood(x) PROVE IndInv'
<1> DEFINE p == party[x]
           s == Retires(p)
           q == [p EXCEPT !.pc = s]
<1>1. p.pc = "retireretry" /\ RetireIfActive(x, p.last_good, q) BY Zenon DEF RetireLastGood, At
<1>2. s \in {"retire", "stop"} BY DispatcherFacts, RecoversFacts, Zenon
<1>3. SameBut(p, q) /\ q.pc = s /\ q.hand = p.hand
    <2> HIDE DEF s
    <2> QED BY <1>2, DispatcherFacts, ZenonT(40) DEF SameBut, PartyType, Pcs
<1>4. p.active # None /\ p.last_good # None /\ p.last_good \in Workers
    BY <1>1, DispatcherFacts, Zenon DEF DispatcherIs, PartyType
<1>5. active_worker = p.last_good => last_good_worker = None
    BY <1>4, Zenon DEF IndInv, Views, CopyIsRecent
<1> HIDE DEF q, s
<1>6. DispatcherIs(q) BY <1>2, <1>3, <1>4, Zenon DEF DispatcherIs, SameBut
<1> QED BY <1>1, <1>2, <1>3, <1>4, <1>5, <1>6, RetireKeeps, Zenon

LEMMA RetireActiveKeeps ==
    ASSUME IndInv, NEW x \in Dispatchers, RetireActive(x) PROVE IndInv'
<1> DEFINE p == party[x]
           q == [p EXCEPT !.pc = "stop"]
<1>1. p.pc = "retire" /\ RetireIfActive(x, p.active, q) BY Zenon DEF RetireActive, At
<1>2. SameBut(p, q) /\ q.pc = "stop" /\ q.hand = p.hand
    BY DispatcherFacts, ZenonT(40) DEF SameBut, PartyType, Pcs
<1>3. p.active \in Workers BY <1>1, DispatcherFacts, Zenon DEF DispatcherIs, PartyType
<1>4. active_worker = p.active /\ last_good_worker # None => proc[last_good_worker] = "dead"
    BY <1>1, Zenon DEF IndInv, RetiredIsDead
<1> HIDE DEF q
<1>5. DispatcherIs(q) BY <1>2, Zenon DEF DispatcherIs, SameBut
<1> QED BY <1>1, <1>2, <1>3, <1>4, <1>5, RetireKeeps, Zenon

(* Stopping a worker, and a worker that fails by itself.                   *)
LEMMA CopiedAreWorkers == ASSUME IndInv, NEW b \in Users PROVE Copied(b) \subseteq Workers
<1>1. party[b] \in PartyType BY PartyDisjoint, Zenon DEF IndInv, Typed
<1> QED BY <1>1, Zenon DEF PartyType, Copied, Real

LEMMA CloseKeeps ==
    ASSUME IndInv, NEW a \in Parties, NEW w \in Workers, Close(a, w) PROVE IndInv'
<1>1. /\ w \in party[a].hand /\ mem' = [mem EXCEPT ![w] = "closed"]
      /\ UNCHANGED <<slots, worker_canary, active_calls, reloading, proc, party, env>>
    BY Zenon DEF Close
<1>2. mem \in [Workers -> {"none", "live", "closed", "freed"}] BY Zenon DEF IndInv, Typed, TypeOK
<1>3. Typed' BY <1>1, <1>2, Zenon DEF IndInv, Typed, TypeOK, slots
<1>4. Slots' = Slots /\ \A b \in Users : Copied(b)' = Copied(b)
    BY <1>1, Zenon DEF Slots, slots, Copied
<1>5. Allocated'
    <2>1. ASSUME NEW v \in Slots' PROVE mem'[v] = "live"
        <3>1. v \in Slots /\ v # w BY <1>1, <1>4, <2>1, Zenon DEF IndInv, Ownership, HandsApart
        <3>2. v \in Workers BY <3>1, SlotFacts, Zenon DEF Slots
        <3> QED BY <1>1, <1>2, <3>1, <3>2, Zenon DEF IndInv, Ownership, Allocated
    <2>2. ASSUME NEW b \in Parties, NEW v \in party'[b].hand
          PROVE  mem'[v] \in {"live", "closed"}
        <3>1. v \in Workers BY <1>3, <2>2, Zenon DEF Typed, PartyType
        <3> QED BY <1>1, <1>2, <2>2, <3>1, Zenon DEF IndInv, Ownership, Allocated
    <2>3. ASSUME NEW b \in Users, NEW v \in Copied(b)' PROVE mem'[v] # "none"
        <3>1. v \in Workers /\ v \in Copied(b)
            BY <1>4, <2>3, CopiedAreWorkers, Zenon
        <3> QED BY <1>1, <1>2, <3>1, Zenon DEF IndInv, Ownership, Allocated
    <2> QED BY <2>1, <2>2, <2>3, Zenon DEF Allocated
<1>6. SlotsApart' /\ HandsApart' /\ Held'
    BY <1>1, <1>4, Zenon DEF IndInv, Ownership, SlotsApart, HandsApart, Held, slots
<1>7. Shape' /\ Counted' BY <1>1, Zenon DEF IndInv, Shape, Counted, Entered
<1>8. NewIsLive'
    <2> SUFFICES ASSUME NEW r \in Reloaders, party[r].pc = "install", NEW v \in party[r].hand
                 PROVE  mem'[v] = "live"
        BY <1>1, Zenon DEF NewIsLive, At
    <2>1. r \in Parties /\ r # a BY PartyDisjoint, Zenon DEF Close, Stops
    <2>2. v # w BY <1>1, <2>1, Zenon DEF IndInv, Ownership, HandsApart
    <2>3. v \in Workers BY <2>1, Zenon DEF IndInv, Typed, PartyType
    <2> QED BY <1>1, <1>2, <2>2, <2>3, Zenon DEF IndInv, Views, NewIsLive, At
<1>9. Views' /\ RetiredIsDead' /\ ReloadFreesIdle'
    BY <1>1, <1>8, Zenon DEF IndInv, Views, NewIsUncopied, CandidateIsNew, CopyIsRecent, RetiredIsDead,
                ReloadFreesIdle, slots, At, Copied
<1> QED BY <1>3, <1>5, <1>6, <1>7, <1>9, Zenon DEF IndInv, Ownership

LEMMA FreeKeeps ==
    ASSUME IndInv, NEW a \in Parties, NEW w \in Workers, Free(a, w) PROVE IndInv'
<1> DEFINE p == party[a]
           h == p.hand \ {w}
           q == [p EXCEPT !.hand = h]
<1>1. /\ p.pc \in {"stop", "undo"} /\ w \in p.hand
      /\ mem' = [mem EXCEPT ![w] = "freed"] /\ proc' = [proc EXCEPT ![w] = "dead"]
      /\ Set(a, q)
      /\ UNCHANGED <<slots, worker_canary, active_calls, reloading, env>>
    BY Zenon DEF Free, Stops
<1>2. p \in PartyType BY Zenon DEF IndInv, Typed
<1>3. SameBut(p, q) /\ q.pc = p.pc /\ q.hand = h
    <2>1. h \in SUBSET Workers BY <1>2, Zenon DEF PartyType
    <2> HIDE DEF h
    <2> QED BY <1>2, <2>1, Zenon DEF SameBut, PartyType
<1>4. /\ party' = [party EXCEPT ![a] = party'[a]] /\ party'[a] = q
      /\ \A b \in Parties \ {a} : party'[b] = party[b]
    BY <1>1, SetParty, Zenon DEF IndInv
<1> HIDE DEF q
<1>5. Fits(a, q)
    <2>1. a \in Dispatchers => DispatcherIs(p) BY Zenon DEF IndInv, Shape
    <2>2. a = Supervisor => SupervisorIs(p) BY Zenon DEF IndInv, Shape
    <2>3. a \in Reloaders => ReloaderIs(p) BY Zenon DEF IndInv, Shape
    <2>4. a = Owner => OwnerIs(p) BY Zenon DEF IndInv, Shape
    <2>5. a \in Dispatchers => DispatcherIs(q) BY <1>1, <1>3, <2>1, Zenon DEF DispatcherIs, SameBut
    <2>6. a = Supervisor => SupervisorIs(q)
        BY <1>1, <1>3, <2>2, Zenon DEF SupervisorIs, SameBut, NoCopies
    <2>7. a \in Reloaders => ReloaderIs(q) BY <1>1, <1>3, <2>3, Zenon DEF ReloaderIs
    <2>8. a = Owner => OwnerIs(q) BY <1>1, <1>3, <2>4, Zenon DEF OwnerIs
    <2> QED BY <1>3, <2>5, <2>6, <2>7, <2>8, Zenon DEF Fits, SameBut
<1>6. Shape' BY <1>4, <1>5, OthersFit, Zenon DEF IndInv
<1>7. Typed'
    BY <1>1, <1>4, <1>5, Zenon DEF IndInv, Typed, TypeOK, slots, Fits
<1>8. Counted'
    BY <1>1, <1>3, <1>4, CountedKept, Zenon DEF IndInv, Inside
<1>9. /\ Slots' = Slots /\ \A b \in Users : Copied(b)' = Copied(b)
      /\ \A b \in Parties : party'[b].hand = party[b].hand \ {w} /\ party'[b].pc = party[b].pc
    <2>1. Slots' = Slots BY <1>1, Zenon DEF Slots, slots
    <2>2. \A b \in Users : Copied(b)' = Copied(b)
        BY <1>3, <1>4, PartyDisjoint, Zenon DEF Copied, SameBut
    <2>3. ASSUME NEW b \in Parties, b # a PROVE party[b].hand = party[b].hand \ {w}
        BY <1>1, <2>3, Zenon DEF IndInv, Ownership, HandsApart
    <2> QED BY <1>3, <1>4, <2>1, <2>2, <2>3, Zenon
<1>10. w \notin Slots BY <1>1, Zenon DEF IndInv, Ownership, HandsApart
<1>11. HandsApart' BY <1>9, Zenon DEF IndInv, Ownership, HandsApart
<1>12. Allocated'
    <2>1. mem \in [Workers -> {"none", "live", "closed", "freed"}] BY Zenon DEF IndInv, Typed, TypeOK
    <2>2. \A v \in Slots' : mem'[v] = "live"
        BY <1>1, <1>9, <1>10, <2>1, SMTT(30) DEF IndInv, Ownership, Allocated
    <2>3. \A b \in Parties : \A v \in party'[b].hand : mem'[v] \in {"live", "closed"}
        BY <1>1, <1>9, <2>1, SMTT(30) DEF IndInv, Ownership, Allocated
    <2>4. \A b \in Users : \A v \in Copied(b)' : mem'[v] # "none"
        BY <1>1, <1>9, <2>1 DEF IndInv, Ownership, Allocated
    <2> QED BY <2>2, <2>3, <2>4, Zenon DEF Allocated
<1>13. Held'
    <2> SUFFICES ASSUME NEW v \in Workers, proc'[v] \in {"up", "bad"}
                 PROVE  v \in Slots' \/ \E b \in Parties : v \in party'[b].hand
        BY Zenon DEF Held
    <2>1. proc \in [Workers -> {"none", "up", "bad", "dead"}] BY Zenon DEF IndInv, Typed, TypeOK
    <2>2. v # w /\ proc[v] \in {"up", "bad"} BY <1>1, <2>1, Zenon
    <2> QED BY <1>9, <2>2, Zenon DEF IndInv, Ownership, Held
<1>14. SlotsApart' BY <1>1, Zenon DEF IndInv, Ownership, SlotsApart, slots
<1>15. NewIsUncopied'
    BY <1>9, PartyDisjoint, SMTT(30) DEF IndInv, Views, NewIsUncopied, At, Users
<1>16. NewIsLive'
    <2>1. mem \in [Workers -> {"none", "live", "closed", "freed"}] BY Zenon DEF IndInv, Typed, TypeOK
    <2> QED BY <1>1, <1>9, <2>1, PartyDisjoint DEF IndInv, Views, NewIsLive, At
<1>17. CandidateIsNew' /\ CopyIsRecent'
    <2>1. \A x \in Dispatchers : party'[x].active = party[x].active
                                 /\ party'[x].last_good = party[x].last_good
        BY <1>3, <1>4, PartyDisjoint, Zenon DEF SameBut, Users
    <2> QED BY <1>1, <2>1, Zenon DEF IndInv, Views, CandidateIsNew, CopyIsRecent, slots
<1>18. RetiredIsDead'
    <2>1. \A x \in Dispatchers : party'[x].active = party[x].active
                                 /\ party'[x].pc = party[x].pc
        BY <1>3, <1>4, PartyDisjoint, Zenon DEF SameBut, Users
    <2>2. \A v \in Workers : proc[v] = "dead" => proc'[v] = "dead"
        BY <1>1, Zenon DEF IndInv, Typed, TypeOK
    <2>3. last_good_worker # None => last_good_worker \in Workers BY SlotFacts, Zenon
    <2> QED BY <1>1, <2>1, <2>2, <2>3, Zenon DEF IndInv, RetiredIsDead, slots
<1>19. ReloadFreesIdle'
    BY <1>9, PartyDisjoint DEF IndInv, ReloadFreesIdle, At, Users
<1> QED BY <1>6, <1>7, <1>8, <1>11, <1>12, <1>13, <1>14, <1>15, <1>16, <1>17, <1>18, <1>19, Zenon
        DEF IndInv, Ownership, Views

LEMMA FaultKeeps == ASSUME IndInv, NEW w \in Workers, Fault(w) PROVE IndInv'
<1>1. PICK s \in {"bad", "dead"} : proc' = [proc EXCEPT ![w] = s]
    BY Zenon DEF Fault
<1>2. proc[w] = "up" /\ env' = [env EXCEPT !.faults = @ - 1] /\ env.faults > 0
      /\ UNCHANGED <<slots, worker_canary, active_calls, reloading, mem, party>>
    BY Zenon DEF Fault
<1>3. env' \in Environment BY <1>2 DEF IndInv, Typed, TypeOK, Environment
<1>4. proc \in [Workers -> {"none", "up", "bad", "dead"}] BY Zenon DEF IndInv, Typed, TypeOK
<1>5. TypeOK' BY <1>1, <1>2, <1>3, <1>4, Zenon DEF IndInv, Typed, TypeOK, slots
<1>6. Supervisor \in Parties /\ Supervisor \notin Dispatchers /\ Supervisor \notin Reloaders \cup {Owner}
    BY PartyDisjoint, Zenon DEF Users
<1>7. OnlyParty(Supervisor) BY <1>1, <1>2, <1>4, Zenon DEF OnlyParty
<1>8. Moves /\ Slots' = Slots BY <1>2, Zenon DEF Moves, slots, Slots
<1>9. Takes(Supervisor) /\ Copies(Supervisor) /\ Begins(Supervisor)
    BY <1>2, <1>6, <1>8, Zenon DEF Takes, Copies, Begins
<1>10. Fits(Supervisor, party'[Supervisor])
    BY <1>2, <1>6, Zenon DEF Fits, IndInv, Typed, Shape
<1>11. Counted' BY <1>2, Zenon DEF IndInv, Counted, Entered
<1>12. party' = [party EXCEPT ![Supervisor] = party'[Supervisor]]
    BY <1>2, <1>6, Zenon DEF IndInv, Typed
<1> QED BY <1>5, <1>6, <1>7, <1>8, <1>9, <1>10, <1>11, <1>12, StepKeeps, Zenon DEF Step

(* The steps of the supervisor.                                            *)
LEMMA SupervisorFacts ==
    ASSUME IndInv
    PROVE  /\ Supervisor \in Parties /\ Supervisor \in Users /\ Supervisor \notin Dispatchers
           /\ Supervisor \notin Reloaders /\ Supervisor # Owner
           /\ party[Supervisor] \in PartyType /\ SupervisorIs(party[Supervisor])
<1>1. /\ Supervisor \in Parties /\ Supervisor \in Users /\ Supervisor \notin Dispatchers
      /\ Supervisor \notin Reloaders /\ Supervisor # Owner
    BY PartyDisjoint, Zenon DEF Users
<1> QED BY <1>1, Zenon DEF IndInv, Typed, Shape

LEMMA SuperviseKeeps == ASSUME IndInv, Supervise PROVE IndInv'
<1> DEFINE a == Supervisor
           q == [Idle EXCEPT !.pc = "active", !.active = active_worker,
                             !.last_good = last_good_worker, !.candidate = candidate_worker]
<1>1. /\ party[a].pc = "idle" /\ active_calls' = active_calls + 1 /\ Set(a, q)
      /\ UNCHANGED <<slots, worker_canary, reloading, proc, mem, env>>
    BY Zenon DEF Supervise, At
<1>2. TypeOK' BY <1>1 DEF IndInv, Typed, TypeOK, slots
<1>3. /\ q.pc = "active" /\ q.active = active_worker /\ q.last_good = last_good_worker
      /\ q.candidate = candidate_worker /\ q.hand = {} /\ q \in PartyType
    BY Zenon DEF Idle, PartyType, Pcs, IndInv, Typed, TypeOK
<1> HIDE DEF q
<1>4. Fits(a, q) BY <1>3, SupervisorFacts, Zenon DEF Fits, SupervisorIs
<1>5. party'[a] = q BY <1>1, SetParty, SupervisorFacts, Zenon DEF IndInv
<1>6. Copies(a) /\ Begins(a) BY <1>1, <1>3, <1>5, SupervisorFacts, Zenon DEF Copies, Begins
<1>7. Counts(a, q) BY <1>1, <1>3, SupervisorFacts, Zenon DEF Counts, Inside
<1>8. q.hand = party[a].hand BY <1>1, <1>3, SupervisorFacts, Zenon DEF SupervisorIs
<1> QED BY <1>1, <1>2, <1>4, <1>6, <1>7, <1>8, QuietStep, SupervisorFacts, Zenon

LEMMA ProbeKeeps ==
    ASSUME IndInv, NEW pc \in {"active", "last_good", "candidate"},
           NEW next \in {"last_good", "candidate", "judge"}, Probe(pc, next)
    PROVE  IndInv'
<1> DEFINE a == Supervisor
           p == party[a]
<1>1. PICK b \in Probes(ProbeOf(pc)) :
         Set(a, [p EXCEPT !.pc = next, !.alive = IF b THEN @ \cup {ProbeOf(pc)} ELSE @])
    BY Zenon DEF Probe
<1> DEFINE s == IF b THEN p.alive \cup {ProbeOf(pc)} ELSE p.alive
           q == [p EXCEPT !.pc = next, !.alive = s]
<1>2. /\ p.pc = pc
      /\ UNCHANGED <<slots, worker_canary, active_calls, reloading, proc, mem, env>>
    BY Zenon DEF Probe, At
<1>3. ProbeOf(pc) \in Workers \cup {None}
    BY SupervisorFacts, Zenon DEF ProbeOf, PartyType
<1>4. s \in SUBSET (Workers \cup {None}) BY <1>3, SupervisorFacts, Zenon DEF PartyType
<1>5. Set(a, q) BY <1>1, Zenon
<1>6. SameBut(p, q) /\ q.pc = next /\ q.hand = p.hand
    <2> HIDE DEF s
    <2> QED BY <1>4, SupervisorFacts, Zenon DEF SameBut, PartyType, Pcs
<1> HIDE DEF q
<1>7. TypeOK' BY <1>2, Zenon DEF IndInv, Typed, TypeOK, slots
<1>8. Fits(a, q) BY <1>2, <1>6, SupervisorFacts, Zenon DEF Fits, SupervisorIs, SameBut
<1>9. party'[a] = q BY <1>5, SetParty, SupervisorFacts, Zenon DEF IndInv
<1>10. Copies(a) /\ Begins(a) BY <1>6, <1>9, SupervisorFacts, Zenon DEF Copies, Begins, SameBut
<1>11. Counts(a, q) BY <1>2, <1>6, SupervisorFacts, Zenon DEF Counts, Inside
<1> QED BY <1>2, <1>5, <1>6, <1>7, <1>8, <1>10, <1>11, QuietStep, SupervisorFacts, ZenonT(40)

LEMMA SupervisedKeeps == ASSUME IndInv, Supervised PROVE IndInv'
<1> DEFINE a == Supervisor
<1>1. /\ party[a].pc = "stop" /\ party[a].hand = {} /\ Set(a, Idle)
      /\ UNCHANGED <<slots, worker_canary, active_calls, reloading, proc, mem, env>>
    BY Zenon DEF Supervised, At
<1>2. Fits(a, Idle) BY SupervisorFacts, Zenon DEF Fits, Idle, PartyType, Pcs, SupervisorIs, NoCopies
<1>3. party'[a] = Idle BY <1>1, SetParty, SupervisorFacts, Zenon DEF IndInv
<1>4. Copies(a) /\ Begins(a) /\ Idle.hand = {}
    BY <1>3, SupervisorFacts DEF Copies, Begins, Idle
<1>5. Counts(a, Idle) BY <1>1, SupervisorFacts, Zenon DEF Counts, Inside, Idle
<1>6. TypeOK' BY <1>1, Zenon DEF IndInv, Typed, TypeOK, slots
<1> QED BY <1>1, <1>2, <1>4, <1>5, <1>6, QuietStep, SupervisorFacts, Zenon

LEMMA JudgeMoves ==
    ASSUME IndInv, party[Supervisor].pc = "judge", NEW gone \in SUBSET Slots,
           Set(Supervisor, [Idle EXCEPT !.pc = "stop", !.hand = gone]),
           active_calls' = active_calls - 1, UNCHANGED <<reloading, proc, mem, env>>,
           worker_canary' \in {worker_canary, [worker_canary EXCEPT !.active = FALSE]},
           Moves, gone = Slots \ Slots'
    PROVE  IndInv'
<1> DEFINE a == Supervisor
           q == [Idle EXCEPT !.pc = "stop", !.hand = gone]
<1>1. active_calls' \in Nat
    <2>1. a \in Entered BY SupervisorFacts, Zenon DEF Entered, Inside
    <2>2. IsFiniteSet(Entered) /\ active_calls = Cardinality(Entered) /\ active_calls \in Nat
        BY Zenon DEF IndInv, Counted, Typed, TypeOK
    <2>3. active_calls # 0 BY <2>1, <2>2, FS_EmptySet, Zenon
    <2> QED BY <2>2, <2>3
<1>2. TypeOK'
    <2>1. {active_worker', last_good_worker', candidate_worker'} \subseteq Workers \cup {None}
        BY SlotFacts DEF Moves
    <2>2. worker_canary' \in [active : BOOLEAN, routed : Nat, failures : Nat, consecutive : Nat]
        BY SlotFacts, Zenon
    <2> QED BY <1>1, <2>1, <2>2, Zenon DEF IndInv, Typed, TypeOK
<1>3. /\ q.pc = "stop" /\ q.active = None /\ q.last_good = None
      /\ q.candidate = None /\ q.hand = gone /\ q \in PartyType
    <2>1. gone \in SUBSET Workers BY SlotFacts, Zenon DEF Slots
    <2> QED BY <2>1, Zenon DEF Idle, PartyType, Pcs
<1> HIDE DEF q
<1>4. Set(a, q) BY Zenon DEF q
<1>5. Fits(a, q) BY <1>3, SupervisorFacts, Zenon DEF Fits, SupervisorIs, NoCopies
<1>6. party'[a] = q BY <1>4, SetParty, SupervisorFacts, Zenon DEF IndInv
<1>7. Copies(a) /\ Begins(a) BY <1>3, <1>6, SupervisorFacts, Zenon DEF Copies, Begins
<1>8. Counts(a, q) BY <1>3, SupervisorFacts, Zenon DEF Counts, Inside
<1>9. Takes(a) BY <1>3, <1>6, SupervisorFacts, Zenon DEF Takes, SupervisorIs
<1> QED BY <1>2, <1>4, <1>5, <1>7, <1>8, <1>9, MovingStep, SupervisorFacts, Zenon

LEMMA JudgeKeeps == ASSUME IndInv, Judge PROVE IndInv'
<1> DEFINE a == Supervisor
           p == party[a]
           stopped == [worker_canary EXCEPT !.active = FALSE]
           keep == AfterProbes(active_worker, last_good_worker, p.alive)
           raise == AfterProbes(candidate_worker, active_worker, p.alive)
<1>1. p.pc = "judge" /\ active_calls' = active_calls - 1 /\ UNCHANGED <<reloading, proc, mem, env>>
    BY Zenon DEF Judge, At
<1>2. \/ Set(a, Idle) /\ UNCHANGED <<slots, worker_canary>>
      \/ /\ active_worker' = keep.active /\ last_good_worker' = keep.last_good
         /\ Set(a, [Idle EXCEPT !.pc = "stop", !.hand = {} \cup keep.retired])
         /\ UNCHANGED <<candidate_worker, worker_canary>>
      \/ /\ active_worker' = keep.active /\ last_good_worker' = keep.last_good
         /\ Set(a, [Idle EXCEPT !.pc = "stop", !.hand = {candidate_worker} \cup keep.retired])
         /\ candidate_worker # None /\ candidate_worker' = None /\ worker_canary' = stopped
      \/ /\ active_worker' = raise.active /\ last_good_worker' = raise.last_good
         /\ Set(a, [Idle EXCEPT !.pc = "stop",
                                !.hand = Real({last_good_worker}) \cup raise.retired])
         /\ candidate_worker # None /\ candidate_worker \in p.alive
         /\ candidate_worker' = None /\ worker_canary' = stopped
    BY ZenonT(40) DEF Judge
<1>3. CASE Set(a, Idle) /\ UNCHANGED <<slots, worker_canary>>
    <2>1. Fits(a, Idle)
        BY SupervisorFacts, Zenon DEF Fits, Idle, PartyType, Pcs, SupervisorIs, NoCopies
    <2>2. party'[a] = Idle BY <1>3, SetParty, SupervisorFacts, Zenon DEF IndInv
    <2>3. Copies(a) /\ Begins(a) /\ Idle.hand = party[a].hand
        BY <1>1, <2>2, SupervisorFacts DEF Copies, Begins, Idle, SupervisorIs
    <2>4. Counts(a, Idle) BY <1>1, SupervisorFacts, Zenon DEF Counts, Inside, Idle
    <2>5. active_calls' \in Nat
        <3>1. a \in Entered BY <1>1, SupervisorFacts, Zenon DEF Entered, Inside
        <3>2. IsFiniteSet(Entered) /\ active_calls = Cardinality(Entered) /\ active_calls \in Nat
            BY Zenon DEF IndInv, Counted, Typed, TypeOK
        <3>3. active_calls # 0 BY <3>1, <3>2, FS_EmptySet, Zenon
        <3> QED BY <1>1, <3>2, <3>3, SMTT(30)
    <2>6. TypeOK' BY <1>1, <1>3, <2>5, Zenon DEF IndInv, Typed, TypeOK, slots
    <2> QED BY <1>1, <1>3, <2>1, <2>3, <2>4, <2>6, QuietStep, SupervisorFacts, Zenon
<1>4. /\ \/ keep.active = active_worker /\ keep.last_good \in {last_good_worker, None}
         \/ keep.active \in {last_good_worker, None} /\ keep.last_good = None
      /\ keep.retired = Real({active_worker, last_good_worker}) \ {keep.active, keep.last_good}
    BY Zenon DEF AfterProbes, Real
<1>5. /\ \/ raise.active = candidate_worker /\ raise.last_good \in {active_worker, None}
         \/ raise.active \in {active_worker, None} /\ raise.last_good = None
      /\ raise.retired = Real({candidate_worker, active_worker}) \ {raise.active, raise.last_good}
      /\ candidate_worker # None /\ candidate_worker \in p.alive => raise.active = candidate_worker
    BY Zenon DEF AfterProbes, Real
<1> HIDE DEF keep, raise
<1>6. CASE /\ active_worker' = keep.active /\ last_good_worker' = keep.last_good
           /\ Set(a, [Idle EXCEPT !.pc = "stop", !.hand = {} \cup keep.retired])
           /\ UNCHANGED <<candidate_worker, worker_canary>>
    <2> DEFINE gone == {} \cup keep.retired
    <2>1. Moves BY <1>4, <1>6, Zenon DEF Moves
    <2>2. gone = Slots \ Slots' BY <1>4, <1>6, SlotFacts, Zenon DEF Slots, Real
    <2>3. gone \in SUBSET Slots BY <2>2, Zenon
    <2>4. Set(a, [Idle EXCEPT !.pc = "stop", !.hand = gone]) BY <1>6, Zenon
    <2> HIDE DEF gone
    <2> QED BY <1>1, <1>6, <2>1, <2>2, <2>3, <2>4, JudgeMoves, Zenon
<1>7. CASE /\ active_worker' = keep.active /\ last_good_worker' = keep.last_good
           /\ Set(a, [Idle EXCEPT !.pc = "stop", !.hand = {candidate_worker} \cup keep.retired])
           /\ candidate_worker # None /\ candidate_worker' = None /\ worker_canary' = stopped
    <2> DEFINE gone == {candidate_worker} \cup keep.retired
    <2>1. Moves BY <1>4, <1>7, Zenon DEF Moves
    <2>2. gone = Slots \ Slots' BY <1>4, <1>7, SlotFacts, Zenon DEF Slots, Real
    <2>3. gone \in SUBSET Slots BY <2>2, Zenon
    <2>4. Set(a, [Idle EXCEPT !.pc = "stop", !.hand = gone]) BY <1>7, Zenon
    <2> HIDE DEF gone
    <2> QED BY <1>1, <1>7, <2>1, <2>2, <2>3, <2>4, JudgeMoves, Zenon
<1>8. CASE /\ active_worker' = raise.active /\ last_good_worker' = raise.last_good
           /\ Set(a, [Idle EXCEPT !.pc = "stop",
                                  !.hand = Real({last_good_worker}) \cup raise.retired])
           /\ candidate_worker # None /\ candidate_worker \in p.alive
           /\ candidate_worker' = None /\ worker_canary' = stopped
    <2> DEFINE gone == Real({last_good_worker}) \cup raise.retired
    <2>0. raise.active = candidate_worker /\ raise.last_good \in {active_worker, None}
        BY <1>5, <1>8, Zenon
    <2>1. Moves BY <1>8, <2>0, Zenon DEF Moves
    <2>2. gone = Slots \ Slots' BY <1>5, <1>8, <2>0, SlotFacts, Zenon DEF Slots, Real
    <2>3. gone \in SUBSET Slots BY <2>2, Zenon
    <2>4. Set(a, [Idle EXCEPT !.pc = "stop", !.hand = gone]) BY <1>8, Zenon
    <2> HIDE DEF gone
    <2> QED BY <1>1, <1>8, <2>1, <2>2, <2>3, <2>4, JudgeMoves, Zenon
<1> QED BY <1>2, <1>3, <1>6, <1>7, <1>8, Zenon

(* The steps of a reload.                                                  *)
LEMMA ReloaderFacts ==
    ASSUME IndInv, NEW r \in Reloaders
    PROVE  /\ r \in Parties /\ r \notin Users /\ r \notin Dispatchers /\ r # Supervisor
           /\ r # Owner /\ party[r] \in PartyType /\ ReloaderIs(party[r])
<1>1. r \in Parties /\ r \notin Users /\ r \notin Dispatchers /\ r # Supervisor /\ r # Owner
    BY PartyDisjoint, Zenon DEF Users
<1> QED BY <1>1, Zenon DEF IndInv, Typed, Shape

(* A step of a reload that leaves the slots and its hand alone.            *)
LEMMA QuietReload ==
    ASSUME IndInv, NEW r \in Reloaders, NEW q \in PartyType, Set(r, q), TypeOK',
           q.hand = party[r].hand, ReloaderIs(q), q.pc # "install",
           q.pc = "stop" => active_calls = 0,
           UNCHANGED <<slots, active_calls, mem, proc>>
    PROVE  IndInv'
<1>1. Fits(r, q) BY ReloaderFacts, Zenon DEF Fits
<1>2. party'[r] = q BY SetParty, ReloaderFacts, Zenon DEF IndInv
<1>3. Begins(r) BY <1>2, ReloaderFacts, Zenon DEF Begins
<1>4. Counts(r, q) BY ReloaderFacts, Zenon DEF Counts
<1> QED BY <1>1, <1>3, <1>4, QuietStep, ReloaderFacts, Zenon

LEMMA IdleFacts ==
    /\ Idle \in PartyType /\ Idle.pc = "idle" /\ Idle.hand = {} /\ NoCopies(Idle)
    /\ ReloaderIs(Idle)
BY Zenon DEF Idle, PartyType, Pcs, NoCopies, ReloaderIs

LEMMA ReloadKeeps == ASSUME IndInv, NEW r \in Reloaders, Reload(r) PROVE IndInv'
<1> DEFINE q == [Idle EXCEPT !.pc = "spawn"]
<1>1. /\ party[r].pc = "idle" /\ Set(r, q) /\ reloading' = TRUE
      /\ env' = [env EXCEPT !.reloads = @ - 1] /\ env.reloads > 0
      /\ UNCHANGED <<slots, worker_canary, active_calls, proc, mem>>
    BY Zenon DEF Reload, At
<1>2. env' \in Environment BY <1>1 DEF IndInv, Typed, TypeOK, Environment
<1>3. TypeOK' BY <1>1, <1>2, Zenon DEF IndInv, Typed, TypeOK, slots
<1>4. q \in PartyType /\ q.pc = "spawn" /\ q.hand = {} BY Zenon DEF Idle, PartyType, Pcs
<1> HIDE DEF q
<1>5. ReloaderIs(q) /\ q.hand = party[r].hand BY <1>1, <1>4, ReloaderFacts, Zenon DEF ReloaderIs
<1> QED BY <1>1, <1>3, <1>4, <1>5, QuietReload, Zenon

LEMMA ReloadEndsKeeps ==
    ASSUME IndInv, NEW r \in Reloaders, SpawnFails(r) \/ Undone(r) \/ Reloaded(r) PROVE IndInv'
<1>1. /\ party[r].hand = {} /\ Set(r, Idle) /\ reloading' \in BOOLEAN
      /\ UNCHANGED <<slots, worker_canary, active_calls, proc, mem, env>>
    BY ReloaderFacts, Zenon DEF SpawnFails, Undone, Reloaded, At, ReloaderIs, IndInv, Typed, TypeOK
<1>2. TypeOK' BY <1>1, Zenon DEF IndInv, Typed, TypeOK, slots
<1> QED BY <1>1, <1>2, IdleFacts, QuietReload, Zenon

LEMMA InstallFailsKeeps == ASSUME IndInv, NEW r \in Reloaders, InstallFails(r) PROVE IndInv'
<1> DEFINE q == [party[r] EXCEPT !.pc = "undo"]
<1>1. /\ Set(r, q)
      /\ UNCHANGED <<slots, worker_canary, active_calls, reloading, proc, mem, env>>
    BY Zenon DEF InstallFails
<1>2. TypeOK' BY <1>1, Zenon DEF IndInv, Typed, TypeOK, slots
<1>3. q \in PartyType /\ q.pc = "undo" /\ q.hand = party[r].hand
    BY ReloaderFacts, ZenonT(40) DEF PartyType, Pcs
<1> HIDE DEF q
<1> QED BY <1>1, <1>2, <1>3, QuietReload, Zenon DEF ReloaderIs

LEMMA DrainedKeeps == ASSUME IndInv, NEW r \in Reloaders, Drained(r) PROVE IndInv'
<1> DEFINE q == [party[r] EXCEPT !.pc = "stop"]
<1>1. /\ Set(r, q) /\ active_calls = 0
      /\ UNCHANGED <<slots, worker_canary, active_calls, reloading, proc, mem, env>>
    BY Zenon DEF Drained
<1>2. TypeOK' BY <1>1, Zenon DEF IndInv, Typed, TypeOK, slots
<1>3. q \in PartyType /\ q.pc = "stop" /\ q.hand = party[r].hand
    BY ReloaderFacts DEF PartyType, Pcs
<1> HIDE DEF q
<1> QED BY <1>1, <1>2, <1>3, QuietReload, Zenon DEF ReloaderIs

(* A new worker is in the hand of the reload that started it, and nobody   *)
(* else knows it until it is installed.                                    *)
LEMMA SpawnKeeps == ASSUME IndInv, NEW r \in Reloaders, Spawn(r) PROVE IndInv'
<1> DEFINE p == party[r]
<1>1. PICK w \in Workers :
        /\ mem[w] = "none" /\ mem' = [mem EXCEPT ![w] = "live"]
        /\ proc' = [proc EXCEPT ![w] = "up"]
        /\ Set(r, [p EXCEPT !.pc = "install", !.hand = {w}])
    BY Zenon DEF Spawn
<1> DEFINE h == {w}
           q == [p EXCEPT !.pc = "install", !.hand = h]
<1>2. p.pc = "spawn" /\ UNCHANGED <<slots, worker_canary, active_calls, reloading, env>>
    BY Zenon DEF Spawn, At
<1>3. SameBut(p, q) /\ q.pc = "install" /\ q.hand = {w}
    <2>1. h \in SUBSET Workers BY Zenon
    <2>2. SameBut(p, q) /\ q.pc = "install" /\ q.hand = h
        <3> HIDE DEF h
        <3> QED BY <2>1, ReloaderFacts, ZenonT(40) DEF SameBut, PartyType, Pcs
    <2> QED BY <2>2, Zenon
<1>4. /\ party' = [party EXCEPT ![r] = party'[r]] /\ party'[r] = q
      /\ \A b \in Parties \ {r} : party'[b] = party[b]
    <2>1. Set(r, q) BY <1>1, Zenon
    <2> QED BY <2>1, SetParty, ReloaderFacts, Zenon DEF IndInv
<1> HIDE DEF q
<1>5. Fits(r, q) BY <1>3, ReloaderFacts, Zenon DEF Fits, ReloaderIs, SameBut
<1>6. Shape' BY <1>4, <1>5, OthersFit, ReloaderFacts, Zenon DEF IndInv
<1>7. mem \in [Workers -> {"none", "live", "closed", "freed"}]
      /\ proc \in [Workers -> {"none", "up", "bad", "dead"}]
    BY Zenon DEF IndInv, Typed, TypeOK
<1>8. Typed'
    <2>1. TypeOK' BY <1>1, <1>2, <1>7, Zenon DEF IndInv, Typed, TypeOK, slots
    <2> QED BY <1>4, <1>5, <2>1, Zenon DEF IndInv, Typed, Fits
<1>9. Counted' BY <1>2, <1>4, CountedKept, ReloaderFacts, Zenon DEF IndInv
<1>10. /\ Slots' = Slots /\ w \notin Slots
       /\ \A b \in Parties : w \notin party[b].hand
       /\ \A b \in Users : w \notin Copied(b) /\ Copied(b)' = Copied(b)
    <2>1. Slots' = Slots BY <1>2, Zenon DEF Slots, slots
    <2>2. w \notin Slots /\ (\A b \in Parties : w \notin party[b].hand)
          /\ \A b \in Users : w \notin Copied(b)
        BY <1>1, Zenon DEF IndInv, Ownership, Allocated
    <2>3. \A b \in Users : Copied(b)' = Copied(b)
        BY <1>4, PartyDisjoint, Zenon DEF Copied
    <2> QED BY <2>1, <2>2, <2>3, Zenon
<1>11. \A b \in Parties \ {r} : party'[b].hand = party[b].hand
    BY <1>4, Zenon
<1>12. party'[r].hand = {w} /\ party[r].hand = {}
    BY <1>2, <1>3, <1>4, ReloaderFacts, Zenon DEF ReloaderIs
<1>13. HandsApart'
    <2>1. \A b \in Parties : party'[b].hand \cap Slots' = {}
        BY <1>10, <1>11, <1>12 DEF IndInv, Ownership, HandsApart
    <2>2. \A b, c \in Parties : b # c => party'[b].hand \cap party'[c].hand = {}
        BY <1>10, <1>11, <1>12 DEF IndInv, Ownership, HandsApart
    <2> QED BY <2>1, <2>2, Zenon DEF HandsApart
<1>14. Allocated'
    <2>1. \A v \in Slots' : mem'[v] = "live"
        BY <1>1, <1>7, <1>10 DEF IndInv, Ownership, Allocated
    <2>2. \A b \in Parties : \A v \in party'[b].hand : mem'[v] \in {"live", "closed"}
        BY <1>1, <1>7, <1>11, <1>12 DEF IndInv, Ownership, Allocated
    <2>3. \A b \in Users : \A v \in Copied(b)' : mem'[v] # "none"
        BY <1>1, <1>7, <1>10 DEF IndInv, Ownership, Allocated
    <2> QED BY <2>1, <2>2, <2>3, Zenon DEF Allocated
<1>15. Held'
    <2> SUFFICES ASSUME NEW v \in Workers, proc'[v] \in {"up", "bad"}
                 PROVE  v \in Slots' \/ \E b \in Parties : v \in party'[b].hand
        BY Zenon DEF Held
    <2>1. CASE v = w BY <1>12, <2>1, ReloaderFacts, Zenon
    <2>2. CASE v # w
        <3>1. proc[v] \in {"up", "bad"} BY <1>1, <1>7, <2>2, Zenon
        <3>2. v \in Slots \/ \E b \in Parties : v \in party[b].hand
            BY <3>1, Zenon DEF IndInv, Ownership, Held
        <3> QED BY <1>10, <1>11, <1>12, <3>2, Zenon
    <2> QED BY <2>1, <2>2, Zenon
<1>16. SlotsApart' BY <1>2, Zenon DEF IndInv, Ownership, SlotsApart, slots
<1>17. \A x \in Dispatchers : party'[x] = party[x]
    BY <1>4, PartyDisjoint, Zenon DEF Users
<1>18. NewIsUncopied'
    <2> SUFFICES ASSUME NEW s \in Reloaders, At(s, "install")', NEW x \in Dispatchers
                 PROVE  party'[s].hand \cap Copied(x)' = {}
        BY Zenon DEF NewIsUncopied
    <2>1. x \in Users /\ s \in Parties BY PartyDisjoint, Zenon DEF Users
    <2>2. CASE s = r BY <1>10, <1>12, <2>1, <2>2, Zenon
    <2>3. CASE s # r
        <3>1. party'[s] = party[s] BY <1>4, <2>1, <2>3, Zenon
        <3> QED BY <1>10, <2>1, <3>1, Zenon DEF IndInv, Views, NewIsUncopied, At
    <2> QED BY <2>2, <2>3, Zenon
<1>19. NewIsLive'
    <2> SUFFICES ASSUME NEW s \in Reloaders, At(s, "install")', NEW v \in party'[s].hand
                 PROVE  mem'[v] = "live"
        BY Zenon DEF NewIsLive
    <2>1. s \in Parties BY PartyDisjoint, Zenon
    <2>2. CASE s = r BY <1>1, <1>7, <1>12, <2>2, Zenon
    <2>3. CASE s # r
        <3>1. party'[s] = party[s] BY <1>4, <2>1, <2>3, Zenon
        <3>2. mem[v] = "live" /\ v # w
            BY <1>10, <2>1, <3>1, Zenon DEF IndInv, Views, NewIsLive, At
        <3> QED BY <1>1, <1>7, <3>2
    <2> QED BY <2>2, <2>3, Zenon
<1>20. CandidateIsNew' /\ CopyIsRecent'
    BY <1>2, <1>17, Zenon DEF IndInv, Views, CandidateIsNew, CopyIsRecent, slots
<1>21. RetiredIsDead'
    <2>1. last_good_worker # None => last_good_worker \in Workers /\ last_good_worker # w
        BY <1>10, SlotFacts, Zenon DEF Slots
    <2> QED BY <1>1, <1>2, <1>7, <1>17, <2>1, Zenon DEF IndInv, RetiredIsDead, slots
<1>22. ReloadFreesIdle'
    <2> SUFFICES ASSUME NEW s \in Reloaders \cup {Owner}, At(s, "stop")', NEW b \in Users
                 PROVE  Copied(b)' \cap party'[s].hand = {}
        BY Zenon DEF ReloadFreesIdle, Users
    <2>1. s # r BY <1>3, <1>4, Zenon DEF At
    <2>2. party'[s] = party[s] BY <1>4, <2>1, PartyDisjoint, Zenon
    <2> QED BY <1>10, <2>2, Zenon DEF IndInv, ReloadFreesIdle, At, Users
<1> QED BY <1>6, <1>8, <1>9, <1>13, <1>14, <1>15, <1>16, <1>18, <1>19, <1>20, <1>21, <1>22, Zenon
        DEF IndInv, Ownership, Views

(* The swap: the new worker gets a slot, the hand takes what it replaced.  *)
LEMMA InstallKeeps == ASSUME IndInv, NEW r \in Reloaders, Install(r) PROVE IndInv'
<1> DEFINE p == party[r]
           h == Real({last_good_worker, candidate_worker})
           q == [p EXCEPT !.pc = "drain", !.hand = h]
<1>1. PICK w \in p.hand :
         IF env.canary /\ active_worker # None
         THEN /\ candidate_worker' = w /\ last_good_worker' = None
              /\ worker_canary' = [NoCanary EXCEPT !.active = TRUE]
              /\ UNCHANGED active_worker
         ELSE /\ last_good_worker' = active_worker /\ active_worker' = w
              /\ candidate_worker' = None
              /\ worker_canary' = [worker_canary EXCEPT !.active = FALSE]
    BY Zenon DEF Install
<1>2. p.pc = "install" /\ reloading' = FALSE /\ Set(r, q) /\ UNCHANGED <<active_calls, proc, mem, env>>
    BY Zenon DEF Install, At
<1>3. p.hand = {w} /\ w \in Workers BY <1>1, <1>2, ReloaderFacts, Zenon DEF ReloaderIs
<1>4. SameBut(p, q) /\ q.pc = "drain" /\ q.hand = h
    <2>1. h \in SUBSET Workers BY SlotFacts, Zenon DEF Real
    <2> HIDE DEF h
    <2> QED BY <2>1, ReloaderFacts, ZenonT(30) DEF SameBut, PartyType, Pcs
<1>5. /\ party' = [party EXCEPT ![r] = party'[r]] /\ party'[r] = q
      /\ \A b \in Parties \ {r} : party'[b] = party[b]
    BY <1>2, SetParty, ReloaderFacts, Zenon DEF IndInv
<1> HIDE DEF q
<1>6. Fits(r, q) BY <1>4, ReloaderFacts, Zenon DEF Fits, ReloaderIs, SameBut
<1>7. Shape' BY <1>5, <1>6, OthersFit, ReloaderFacts, Zenon DEF IndInv
<1>8. Typed'
    <2>1. /\ {active_worker', last_good_worker', candidate_worker'} \subseteq Workers \cup {None}
          /\ worker_canary' \in [active : BOOLEAN, routed : Nat, failures : Nat, consecutive : Nat]
        BY <1>1, <1>3, SlotFacts, Zenon
    <2>2. TypeOK' BY <1>2, <2>1, Zenon DEF IndInv, Typed, TypeOK
    <2> QED BY <1>5, <1>6, <2>2, Zenon DEF IndInv, Typed, Fits
<1>9. Counted' BY <1>2, <1>5, CountedKept, ReloaderFacts, Zenon DEF IndInv
<1>10. /\ w \notin Slots /\ mem[w] = "live"
       /\ \A b \in Parties \ {r} : w \notin party[b].hand
       /\ \A x \in Dispatchers : w \notin Copied(x)
    BY <1>2, <1>3, ReloaderFacts, Zenon
    DEF IndInv, Ownership, HandsApart, Views, NewIsUncopied, NewIsLive, At
<1>11. SlotsApart' BY <1>1, <1>3, <1>10, SlotFacts, Zenon DEF SlotsApart, Slots
<1>12. /\ Slots' \cup h = Slots \cup {w} /\ Slots' \cap h = {} /\ h \subseteq Slots
       /\ Slots' \subseteq Slots \cup {w}
    BY <1>1, <1>3, <1>10, SlotFacts, Zenon DEF Slots, Real
<1>13. party'[r].hand = h BY <1>4, <1>5, Zenon
<1> HIDE DEF h
<1>14. HandsApart'
    <2>1. ASSUME NEW b \in Parties PROVE party'[b].hand \cap Slots' = {}
        BY <1>5, <1>10, <1>12, <1>13, SMTT(30) DEF IndInv, Ownership, HandsApart
    <2>2. ASSUME NEW b \in Parties, NEW c \in Parties, b # c
          PROVE  party'[b].hand \cap party'[c].hand = {}
        BY <1>5, <1>12, <1>13, <2>2, SMTT(30) DEF IndInv, Ownership, HandsApart
    <2> QED BY <2>1, <2>2, Zenon DEF HandsApart
<1>15. Allocated'
    <2>1. \A v \in Slots' : mem'[v] = "live"
        BY <1>2, <1>10, <1>12, Zenon DEF IndInv, Ownership, Allocated
    <2>2. ASSUME NEW b \in Parties, NEW v \in party'[b].hand
          PROVE  mem'[v] \in {"live", "closed"}
        BY <1>2, <1>5, <1>12, <1>13, Zenon DEF IndInv, Ownership, Allocated
    <2>3. \A b \in Users : Copied(b)' = Copied(b)
        BY <1>5, PartyDisjoint, ReloaderFacts, Zenon DEF Copied
    <2>4. \A b \in Users : \A v \in Copied(b)' : mem'[v] # "none"
        BY <1>2, <2>3, Zenon DEF IndInv, Ownership, Allocated
    <2> QED BY <2>1, <2>2, <2>4, Zenon DEF Allocated
<1>16. Held'
    <2> SUFFICES ASSUME NEW v \in Workers, proc'[v] \in {"up", "bad"}
                 PROVE  v \in Slots' \/ \E b \in Parties : v \in party'[b].hand
        BY Zenon DEF Held
    <2>1. v \in Slots \/ \E b \in Parties : v \in party[b].hand
        BY <1>2, Zenon DEF IndInv, Ownership, Held
    <2>2. CASE v \in Slots \cup {w} BY <1>12, <1>13, <2>2, ReloaderFacts, Zenon
    <2>3. CASE v \notin Slots \cup {w}
        <3>1. PICK b \in Parties : v \in party[b].hand BY <2>1, <2>3, Zenon
        <3>2. b # r BY <1>3, <2>3, <3>1, Zenon
        <3> QED BY <1>5, <3>1, <3>2, Zenon
    <2> QED BY <2>2, <2>3, Zenon
<1>17. \A x \in Dispatchers : /\ party'[x] = party[x] /\ Copied(x)' = Copied(x)
                              /\ w \notin {party[x].active, party[x].last_good}
    <2> TAKE x \in Dispatchers
    <2>1. party'[x] = party[x] BY <1>5, PartyDisjoint, ReloaderFacts, Zenon DEF Users
    <2>2. w # None BY <1>3, SlotFacts, Zenon
    <2> QED BY <1>10, <2>1, <2>2, Zenon DEF Copied, Real
<1>18. NewIsUncopied' /\ NewIsLive'
    <2>1. \A s \in Reloaders : At(s, "install")' => s # r /\ party'[s] = party[s]
        BY <1>4, <1>5, PartyDisjoint, Zenon DEF At
    <2> QED BY <1>2, <1>17, <2>1, Zenon DEF IndInv, Views, NewIsUncopied, NewIsLive, At
<1>19. CandidateIsNew' /\ CopyIsRecent' /\ RetiredIsDead'
    <2>1. CASE env.canary /\ active_worker # None
        BY <1>1, <1>17, <2>1, Zenon DEF IndInv, Views, CandidateIsNew, CopyIsRecent, RetiredIsDead
    <2>2. CASE ~(env.canary /\ active_worker # None)
        BY <1>1, <1>17, <2>2, Zenon DEF CandidateIsNew, CopyIsRecent, RetiredIsDead
    <2> QED BY <2>1, <2>2, Zenon
<1>20. ReloadFreesIdle'
    <2> SUFFICES ASSUME NEW s \in Reloaders \cup {Owner}, At(s, "stop")', NEW b \in Users
                 PROVE  Copied(b)' \cap party'[s].hand = {}
        BY Zenon DEF ReloadFreesIdle, Users
    <2>1. s # r BY <1>4, <1>5, Zenon DEF At
    <2>2. party'[s] = party[s] BY <1>5, <2>1, PartyDisjoint, Zenon
    <2>3. Copied(b)' = Copied(b) BY <1>5, PartyDisjoint, ReloaderFacts, Zenon DEF Copied
    <2> QED BY <2>2, <2>3, Zenon DEF IndInv, ReloadFreesIdle, At, Users
<1> QED BY <1>7, <1>8, <1>9, <1>11, <1>14, <1>15, <1>16, <1>18, <1>19, <1>20, ZenonT(40)
        DEF IndInv, Ownership, Views

(* The steps of the destruction.                                           *)
LEMMA OwnerFacts ==
    ASSUME IndInv
    PROVE  /\ Owner \in Parties /\ Owner \notin Users /\ Owner \notin Dispatchers
           /\ Owner # Supervisor /\ Owner \notin Reloaders
           /\ party[Owner] \in PartyType /\ OwnerIs(party[Owner])
<1>1. /\ Owner \in Parties /\ Owner \notin Users /\ Owner \notin Dispatchers
      /\ Owner # Supervisor /\ Owner \notin Reloaders
    BY PartyDisjoint, Zenon DEF Users
<1> QED BY <1>1, Zenon DEF IndInv, Typed, Shape

LEMMA OwnerStepsKeep == ASSUME IndInv, Destroy \/ Unlisten \/ Destroyed PROVE IndInv'
<1>1. PICK s \in {"stopping", "off", "gone"} :
        /\ Set(Owner, [Idle EXCEPT !.pc = s]) /\ party[Owner].hand = {}
        /\ UNCHANGED <<slots, worker_canary, active_calls, reloading, proc, mem, env>>
    <2>1. CASE Destroy BY <2>1, OwnerFacts, Zenon DEF Destroy, At, OwnerIs
    <2>2. CASE Unlisten BY <2>2, OwnerFacts, Zenon DEF Unlisten, At, OwnerIs
    <2>3. CASE Destroyed BY <2>3, Zenon DEF Destroyed
    <2> QED BY <2>1, <2>2, <2>3, Zenon
<1> DEFINE q == [Idle EXCEPT !.pc = s]
<1>2. TypeOK' BY <1>1, Zenon DEF IndInv, Typed, TypeOK, slots
<1>3. q \in PartyType /\ q.pc = s /\ q.hand = {} BY Zenon DEF Idle, PartyType, Pcs
<1>4. Set(Owner, q) BY <1>1, Zenon
<1> HIDE DEF q
<1>5. party'[Owner] = q BY <1>4, SetParty, OwnerFacts, Zenon DEF IndInv
<1>6. Fits(Owner, q) BY <1>3, OwnerFacts, Zenon DEF Fits, OwnerIs
<1>7. Begins(Owner) BY <1>3, <1>5, OwnerFacts, Zenon DEF Begins
<1>8. Counts(Owner, q) BY <1>1, OwnerFacts, Zenon DEF Counts
<1> QED BY <1>1, <1>2, <1>3, <1>4, <1>6, <1>7, <1>8, QuietStep, OwnerFacts, ZenonT(40)

LEMMA DestroyAllKeeps == ASSUME IndInv, DestroyAll PROVE IndInv'
<1> DEFINE h == Slots
           q == [Idle EXCEPT !.pc = "stop", !.hand = h]
<1>1. /\ party[Owner].pc = "off" /\ active_calls = 0 /\ Set(Owner, q)
      /\ active_worker' = None /\ last_good_worker' = None /\ candidate_worker' = None
      /\ worker_canary' = [worker_canary EXCEPT !.active = FALSE]
      /\ UNCHANGED <<active_calls, reloading, proc, mem, env>>
    BY Zenon DEF DestroyAll, At
<1>2. TypeOK' BY <1>1, SlotFacts, Zenon DEF IndInv, Typed, TypeOK
<1>3. q \in PartyType /\ q.pc = "stop" /\ q.hand = h
    <2>1. h \in SUBSET Workers BY SlotFacts, Zenon DEF Slots
    <2> HIDE DEF h
    <2> QED BY <2>1, Zenon DEF Idle, PartyType, Pcs
<1> HIDE DEF q
<1>4. party'[Owner] = q BY <1>1, SetParty, OwnerFacts, Zenon DEF IndInv
<1>5. Fits(Owner, q) BY <1>3, OwnerFacts, Zenon DEF Fits, OwnerIs
<1>6. Begins(Owner) BY <1>1, <1>3, <1>4, OwnerFacts, Zenon DEF Begins
<1>7. Counts(Owner, q) BY <1>1, OwnerFacts, Zenon DEF Counts
<1>8. Moves BY <1>1, Zenon DEF Moves
<1>9. Slots' = {} /\ party[Owner].hand = {} BY <1>1, OwnerFacts, Zenon DEF Slots, OwnerIs
<1>10. Takes(Owner) BY <1>3, <1>4, <1>9, Zenon DEF Takes
<1> QED BY <1>1, <1>2, <1>5, <1>6, <1>7, <1>8, <1>10, MovingStep, OwnerFacts, Zenon

-----------------------------------------------------------------------------
(* The invariant is inductive.                                             *)
LEMMA InitIndInv == ASSUME Init PROVE IndInv
<1> USE DEF Init
<1>1. 1 \in Workers /\ None # 1 BY HotReloadAssumption DEF Workers
<1>2. \A a \in Parties : party[a] = Idle BY Zenon
<1>3. TypeOK BY <1>1, HotReloadAssumption, Zenon DEF TypeOK, NoCanary
<1>4. Typed BY <1>3, IdleFacts, Zenon DEF Typed
<1>5. Shape
    <2>1. DispatcherIs(Idle) /\ SupervisorIs(Idle) /\ OwnerIs(Idle)
        BY IdleFacts, Zenon DEF DispatcherIs, SupervisorIs, OwnerIs
    <2> QED BY <1>2, <2>1, IdleFacts, PartyDisjoint, Zenon DEF Shape, Users
<1>6. Slots = {1} BY <1>1, Zenon DEF Slots
<1>7. \A a \in Users : Copied(a) = {}
    BY <1>2, IdleFacts, PartyDisjoint, Zenon DEF Copied, Real, NoCopies
<1>8. Ownership
    <2>1. SlotsApart BY <1>1, Zenon DEF SlotsApart
    <2>2. HandsApart BY <1>2, IdleFacts, Zenon DEF HandsApart
    <2>3. Allocated BY <1>1, <1>2, <1>6, <1>7, IdleFacts, Zenon DEF Allocated
    <2>4. Held BY <1>6, Zenon DEF Held
    <2> QED BY <2>1, <2>2, <2>3, <2>4, Zenon DEF Ownership
<1>9. Counted
    <2>1. Entered = {} BY <1>2, IdleFacts, PartyDisjoint, Zenon DEF Entered, Inside
    <2> QED BY <2>1, FS_EmptySet, Zenon DEF Counted
<1>10. \A a \in Reloaders \cup {Owner} \cup Dispatchers : party[a] = Idle
    BY <1>2, PartyDisjoint, Zenon DEF Users
<1>11. Views BY <1>1, <1>10, IdleFacts, Zenon
    DEF Views, NewIsUncopied, NewIsLive, CandidateIsNew, CopyIsRecent, At, NoCopies
<1>12. RetiredIsDead BY Zenon DEF RetiredIsDead
<1>13. ReloadFreesIdle BY <1>10, IdleFacts, Zenon DEF ReloadFreesIdle, At
<1> QED BY <1>4, <1>5, <1>8, <1>9, <1>11, <1>12, <1>13, ZenonT(40) DEF IndInv

LEMMA NextKeeps == ASSUME IndInv, Next PROVE IndInv'
<1> USE PartyDisjoint
<1>1. ASSUME NEW w \in Workers, Fault(w) PROVE IndInv' BY <1>1, FaultKeeps, Zenon
<1>2. ASSUME NEW a \in Parties, NEW w \in Workers, Close(a, w) \/ Free(a, w) PROVE IndInv'
    BY <1>2, CloseKeeps, FreeKeeps, Zenon
<1>3. ASSUME NEW x \in Dispatchers, Enter(x) \/ Dispatch(x) PROVE IndInv'
    <2>1. x \in Parties BY Zenon DEF Users
    <2> QED BY <1>2, <1>3, <2>1, EnterKeeps, TryPrimaryKeeps, RecordKeeps, DecideKeeps,
               TryFallbackKeeps, PromoteLastGoodKeeps, TryLastGoodKeeps, RetireLastGoodKeeps,
               RetireActiveKeeps, LeaveKeeps, ZenonT(40) DEF Dispatch
<1>4. CASE SupervisorStep
    <2>1. Supervisor \in Parties BY Zenon DEF Users
    <2> QED BY <1>2, <1>4, <2>1, SuperviseKeeps, ProbeKeeps, JudgeKeeps, SupervisedKeeps, ZenonT(40)
            DEF SupervisorStep
<1>5. ASSUME NEW r \in Reloaders, Reload(r) \/ ReloadStep(r) PROVE IndInv'
    BY <1>2, <1>5, ReloadKeeps, SpawnKeeps, ReloadEndsKeeps, InstallFailsKeeps, InstallKeeps,
       DrainedKeeps, ZenonT(30) DEF ReloadStep
<1>6. CASE Destroy \/ OwnerStep
    BY <1>2, <1>6, OwnerStepsKeep, DestroyAllKeeps, ZenonT(40) DEF OwnerStep
<1> QED BY <1>1, <1>3, <1>4, <1>5, <1>6, Zenon DEF Next

LEMMA StutterKeeps == ASSUME IndInv, UNCHANGED vars PROVE IndInv'
BY DEF vars, IndInv, Typed, TypeOK, Shape, Ownership, SlotsApart, HandsApart, Allocated, Held,
       Counted, Entered, Views, NewIsUncopied, NewIsLive, CandidateIsNew, CopyIsRecent,
       RetiredIsDead, ReloadFreesIdle, Slots, Copied, At

LEMMA Inductive == Spec => []IndInv
<1>1. Init => IndInv BY InitIndInv, Zenon
<1>2. IndInv /\ [Next]_vars => IndInv' BY NextKeeps, StutterKeeps, Zenon
<1> QED BY <1>1, <1>2, PTL DEF Spec

(* A set whose members are all equal has at most one.                      *)
LEMMA AtMostOne == ASSUME NEW S, \A a, b \in S : a = b PROVE Cardinality(S) <= 1
<1>1. CASE S = {} BY <1>1, FS_EmptySet
<1>2. CASE S # {}
    <2>1. PICK a : S = {a} BY <1>2
    <2> QED BY <2>1, FS_Singleton
<1> QED BY <1>1, <1>2, Zenon

LEMMA IndInvOwnedOnce == ASSUME IndInv PROVE OwnedOnce
<1> SUFFICES ASSUME NEW w \in Workers
             PROVE  /\ Cardinality(Owners(w)) <= 1
                    /\ Owners(w) # {} => mem[w] \in {"live", "closed"}
                    /\ proc[w] \in {"up", "bad"} => Owners(w) # {}
    BY Zenon DEF OwnedOnce
<1> DEFINE In(s) == \/ s = "active" /\ w = active_worker
                    \/ s = "last_good" /\ w = last_good_worker
                    \/ s = "candidate" /\ w = candidate_worker
           Has(a) == a \in Parties /\ w \in party[a].hand
<1>1. \A s : s \in Owners(w) <=> In(s) \/ Has(s) BY Zenon DEF Owners
<1>2. \A s : In(s) => w \in Slots BY SlotFacts, Zenon DEF Slots
<1>3. \A s, t : In(s) /\ In(t) => s = t BY SlotFacts, Zenon
<1>4. \A s, t : ~(In(s) /\ Has(t)) BY <1>2, Zenon DEF IndInv, Ownership, HandsApart
<1>5. \A s, t : Has(s) /\ Has(t) => s = t BY Zenon DEF IndInv, Ownership, HandsApart
<1>6. w \in Slots => \E s : In(s) BY Zenon DEF Slots
<1> HIDE DEF In, Has
<1>7. \A s, t \in Owners(w) : s = t BY <1>1, <1>3, <1>4, <1>5, Zenon
<1>8. Owners(w) # {} => mem[w] \in {"live", "closed"}
    BY <1>1, <1>2, Zenon DEF IndInv, Ownership, Allocated, Has
<1>9. proc[w] \in {"up", "bad"} => Owners(w) # {}
    BY <1>1, <1>6, Zenon DEF IndInv, Ownership, Held, Has
<1> QED BY <1>7, <1>8, <1>9, AtMostOne, Zenon

(* However dispatches, probes, reloads, canary decisions, failures and the *)
(* destruction interleave, with any number of tasks and workers: no worker *)
(* is in two slots or due to be stopped by two parties, an owned one is    *)
(* not freed, and no running process is left without an owner.             *)
THEOREM WorkersAreOwnedOnce == Spec => []OwnedOnce
BY Inductive, IndInvOwnedOnce, PTL

(* A reload, or the destruction, closes and frees the workers it replaced  *)
(* only when no dispatch and no probe that copied them is under way: what  *)
(* the wait for active_calls = 0 after the swap is for.                    *)
THEOREM ReloadsFreeIdleWorkers == Spec => []ReloadFreesIdle
<1>1. IndInv => ReloadFreesIdle BY Zenon DEF IndInv
<1> QED BY <1>1, Inductive, PTL

(* active_calls is the number of dispatches and probes under way: it never *)
(* goes below zero and every enter is matched by one leave.                *)
THEOREM CallsAreCounted == Spec => []Counted
<1>1. IndInv => Counted BY Zenon DEF IndInv
<1> QED BY <1>1, Inductive, PTL
=============================================================================
