------------------------ MODULE GatewaySessionProof ------------------------
(***************************************************************************)
(* Proofs about the Gateway connection, for any number of threads,         *)
(* connections, calls and starts.                                          *)
(***************************************************************************)
EXTENDS GatewaySession, TLAPS

(* What the gateway task may have left to do, by what it holds: nothing,   *)
(* ...                                                                     *)
Taking(left) == <<"take_requested", "take_resume">> \o left
TakingOne(left) == <<"take_resume">> \o left
WithTake(left) == {left, Taking(left), TakingOne(left)}

Bare ==
    {<<x>> : x \in {"idle", "slot_first", "connect", "backoff"}}
      \cup {<<"decide", "after">>}
      \cup UNION {WithTake(<<x>>) : x \in {"loop", "pick", "after"}}

(* ... a socket, ...                                                       *)
Bound ==
    {<<x>> : x \in {"bind", "hello", "start_heartbeat"}}
      \cup {<<"decide", "clear_ws", "destroy_ws", "after">>,
            <<"finalize", "clear_ws", "finish_ws", "after">>,
            <<"clear_ws", "destroy_ws", "decide", "after">>}
      \cup WithTake(<<"clear_ws", "destroy_ws", "after">>)
      \cup WithTake(<<"clear_ws", "finish_ws", "after">>)

(* ... a socket that gateway_current_ws no longer names, ...               *)
Cleared ==
    {<<"destroy_ws", "after">>, <<"finish_ws", "after">>,
     <<"destroy_ws", "decide", "after">>}

(* ... or a socket and a heartbeat task.                                   *)
Beating ==
    {<<x>> : x \in {"slot_late", "send", "recv_test", "recv", "received", "answer"}}
      \cup WithTake(Exit)
      \cup {GiveUp, <<"join", "finalize", "clear_ws", "finish_ws", "after">>,
            <<"join", "clear_ws", "destroy_ws", "decide", "after">>}

Stage == Head(task.todo)

(* What the task holds is what it has yet to give back.                    *)
Holds ==
    \/ /\ task.todo \in Bare
       /\ task.ws = NONE /\ current_ws = NONE /\ hb = NoBeat
    \/ /\ task.todo \in Bound
       /\ task.ws # NONE /\ current_ws \in {NONE, task.ws} /\ hb = NoBeat
    \/ /\ task.todo \in Cleared
       /\ task.ws # NONE /\ current_ws = NONE /\ hb = NoBeat
    \/ /\ task.todo \in Beating
       /\ task.ws # NONE /\ current_ws \in {NONE, task.ws}
       /\ hb.pc # "none" /\ hb.ws = task.ws
       /\ hb.refs = IF hb.pc = "done" THEN 1 ELSE 2

TaskShape == (task_running <=> Stage # "idle") /\ Holds

(* A call holds a socket only while it sends.                              *)
CallShape ==
    \A t \in Threads : (call[t].ws # NONE) <=> (call[t].pc = "sending")

(* Nothing names a socket or a session that is not opened yet.             *)
Numbered ==
    /\ task.ws <= conns /\ session.id <= conns /\ peer.id <= conns
    /\ \A t \in Threads : call[t].ws <= conns
    /\ invalid \subseteq 1 .. conns

(* The first part of SocketReferences, and that it counts a finite set.    *)
Users(w) == {t \in Threads : call[t].ws = w}

RefsExact ==
    \A w \in Conns :
       /\ IsFiniteSet(Users(w))
       /\ ws[w].refs = Count(task.ws = w) + Count(hb.ws = w) + Cardinality(Users(w))

(* A heartbeat that waits for its ACK was sent, or is about to be.         *)
AckShape ==
    Stage \in {"slot_late", "send", "recv_test", "recv", "received"} =>
       (hb.waiting_ack /\ ~hb.failed => peer.owed > 0 \/ hb.pc = "send")

Connecting == {"connect", "bind", "hello", "start_heartbeat", "send"}
Receiving == {"recv_test", "recv", "received", "answer"}

(* What was received fits what Discord may send.                           *)
GotShape ==
    Stage = "received" =>
       /\ task.got = "ready" => peer.phase = "identify"
       /\ task.got = "event" => peer.phase \in {"resume", "live"}
       /\ task.got = "resumed" => peer.phase = "resume"
       /\ task.got = "ack" => peer.owed > 0

(* The session kept is the one Discord's side of the connection is in, and *)
(* a new connection has an identity that was never declared invalid.       *)
SessionShape ==
    /\ CanResume /\ ~unstored => session.seq = session.id /\ session.id \notin invalid
    /\ Stage \in Connecting /\ task.resume => CanResume
    /\ Stage \in {"slot_first", "slot_late"} => ~task.resume
    /\ Stage \in Receiving => peer.phase # "none"
    /\ Stage \in Receiving /\ peer.phase \in {"resume", "live"} =>
          CanResume /\ session.id = peer.id
    /\ peer.phase \in {"none", "identify"} =>
          peer.id = NONE /\ task.ws \notin invalid
    /\ Stage \in {"bind", "hello", "start_heartbeat", "slot_late", "send"} => peer.phase = "none"

IndInv ==
    /\ TypeOK /\ TaskShape /\ CallShape /\ Numbered /\ RefsExact
    /\ AckShape /\ GotShape /\ SessionShape

-----------------------------------------------------------------------------
(* Counting the threads that send on a socket.  The library's theorems     *)
(* that give these laws come last, where they are needed.                  *)
CountLaws ==
    /\ IsFiniteSet({}) /\ Cardinality({}) = 0
    /\ \A S : IsFiniteSet(S) => Cardinality(S) \in Nat
    /\ \A S, x : IsFiniteSet(S) /\ x \notin S =>
          IsFiniteSet(S \cup {x}) /\ Cardinality(S \cup {x}) = Cardinality(S) + 1
    /\ \A S, x : IsFiniteSet(S) /\ x \in S =>
          IsFiniteSet(S \ {x}) /\ Cardinality(S \ {x}) = Cardinality(S) - 1

LEMMA EmptyCount == ASSUME CountLaws PROVE IsFiniteSet({}) /\ Cardinality({}) = 0
BY Zenon DEF CountLaws

LEMMA FiniteCount ==
    ASSUME CountLaws PROVE \A S : IsFiniteSet(S) => Cardinality(S) \in Nat
BY Zenon DEF CountLaws

LEMMA OneMore ==
    ASSUME CountLaws
    PROVE  \A S, x : IsFiniteSet(S) /\ x \notin S =>
              IsFiniteSet(S \cup {x}) /\ Cardinality(S \cup {x}) = Cardinality(S) + 1
BY Zenon DEF CountLaws

LEMMA OneLess ==
    ASSUME CountLaws
    PROVE  \A S, x : IsFiniteSet(S) /\ x \in S =>
              IsFiniteSet(S \ {x}) /\ Cardinality(S \ {x}) = Cardinality(S) - 1
BY Zenon DEF CountLaws

(* The heads the task goes to when it leaves a session.                    *)
Winding == {"take_requested", "take_resume", "stop_heartbeat", "join", "finalize",
            "clear_ws", "finish_ws", "destroy_ws", "decide", "after", "pick", "loop"}

-----------------------------------------------------------------------------
(* The lists of what is left to do. *)

LEMMA ShortLists ==
    ASSUME NEW S
    PROVE \A a, b \in S :
       /\ <<a>> \in Seq(S) /\ <<a>> # <<>> /\ Head(<<a>>) = a
       /\ <<a, b>> \in Seq(S) /\ <<a, b>> # <<>> /\ Head(<<a, b>>) = a
       /\ Tail(<<a, b>>) = <<b>>
<1> TAKE a, b \in S
<1>1. <<a>> \in Seq(S) /\ <<a>> # <<>> /\ Head(<<a>>) = a
  OBVIOUS
<1>2. [i \in 1 .. 2 |-> IF i = 1 THEN a ELSE b] \in Seq(S)
  OBVIOUS
<1>3. [i \in 1 .. 2 |-> IF i = 1 THEN a ELSE b] = <<a, b>>
  OBVIOUS
<1>4. Head(<<a, b>>) = a /\ <<a, b>> # <<>> /\ Tail(<<a, b>>) = <<b>>
  OBVIOUS
<1> QED
  BY <1>1, <1>2, <1>3, <1>4, Zenon

LEMMA LongLists ==
    ASSUME NEW S
    PROVE
    \A a, b, c, d, e, f \in S :
       /\ <<a, b, c, d, e, f>> \in Seq(S)
       /\ <<a, b, c, d, e>> \in Seq(S)
       /\ <<a, b, c, d>> \in Seq(S)
       /\ <<a, b, c>> \in Seq(S)
<1> TAKE a, b, c, d, e, f \in S
<1> DEFINE F(n) == [i \in 1 .. n |-> IF i = 1 THEN a ELSE IF i = 2 THEN b ELSE IF i = 3 THEN c
                                     ELSE IF i = 4 THEN d ELSE IF i = 5 THEN e ELSE f]
<1>1. F(6) \in Seq(S) /\ F(5) \in Seq(S) /\ F(4) \in Seq(S) /\ F(3) \in Seq(S)
  OBVIOUS
<1>2. F(3) = <<a, b, c>>
  OBVIOUS
<1>3. F(4) = <<a, b, c, d>>
  OBVIOUS
<1>4. F(5) = <<a, b, c, d, e>>
  OBVIOUS
<1>5. F(6) = <<a, b, c, d, e, f>>
  OBVIOUS
<1> HIDE DEF F
<1> QED
  BY <1>1, <1>2, <1>3, <1>4, <1>5, Zenon

LEMMA TakeLists ==
    \A s \in Seq(Stages) :
       /\ Taking(s) \in Seq(Stages) /\ Taking(s) # <<>>
       /\ Head(Taking(s)) = "take_requested" /\ Tail(Taking(s)) = TakingOne(s)
       /\ TakingOne(s) \in Seq(Stages) /\ TakingOne(s) # <<>>
       /\ Head(TakingOne(s)) = "take_resume" /\ Tail(TakingOne(s)) = s
<1> TAKE s \in Seq(Stages)
<1> DEFINE a == "take_requested"
           b == "take_resume"
<1>1. a \in Stages /\ b \in Stages
  BY Zenon DEF Stages
<1> HIDE DEF a, b
<1>2. <<a, b>> \in Seq(Stages) /\ <<b>> \in Seq(Stages)
  BY <1>1, ShortLists, Zenon
<1>3. <<a, b>> \o s \in Seq(Stages) /\ Len(<<a, b>> \o s) = 2 + Len(s)
  BY <1>2
<1>4. /\ (<<a, b>> \o s)[1] = a /\ (<<a, b>> \o s)[2] = b
      /\ \A i \in 1 .. Len(s) : (<<a, b>> \o s)[i + 2] = s[i]
  BY <1>2
<1>5. /\ <<b>> \o s \in Seq(Stages) /\ Len(<<b>> \o s) = 1 + Len(s)
      /\ (<<b>> \o s)[1] = b /\ \A i \in 1 .. Len(s) : (<<b>> \o s)[i + 1] = s[i]
  BY <1>2
<1>6. <<a, b>> \o s # <<>> /\ Head(<<a, b>> \o s) = a
  BY <1>3, <1>4
<1>7. Tail(<<a, b>> \o s) = <<b>> \o s
  BY <1>3, <1>4, <1>5
<1>8. <<b>> \o s # <<>> /\ Head(<<b>> \o s) = b /\ Tail(<<b>> \o s) = s
  BY <1>5
<1> QED
  BY <1>3, <1>5, <1>6, <1>7, <1>8, Zenon DEF Taking, TakingOne, a, b

LEMMA StageNames ==
    /\ "idle" \in Stages /\ "slot_first" \in Stages /\ "connect" \in Stages
    /\ "backoff" \in Stages /\ "loop" \in Stages /\ "pick" \in Stages
    /\ "after" \in Stages /\ "bind" \in Stages /\ "hello" \in Stages
    /\ "start_heartbeat" \in Stages /\ "slot_late" \in Stages /\ "send" \in Stages
    /\ "recv_test" \in Stages /\ "recv" \in Stages /\ "received" \in Stages
    /\ "answer" \in Stages /\ "decide" \in Stages /\ "finalize" \in Stages
    /\ "stop_heartbeat" \in Stages /\ "join" \in Stages /\ "clear_ws" \in Stages
    /\ "destroy_ws" \in Stages /\ "finish_ws" \in Stages
BY Zenon DEF Stages

LEMMA ShortStages ==
    \A a, b \in Stages :
       /\ <<a>> \in Seq(Stages) /\ <<a>> # <<>> /\ Head(<<a>>) = a
       /\ <<a, b>> \in Seq(Stages) /\ <<a, b>> # <<>> /\ Head(<<a, b>>) = a
       /\ Tail(<<a, b>>) = <<b>>
BY ShortLists, Zenon

LEMMA SomeLists ==
    /\ Exit \in Seq(Stages) /\ GiveUp \in Seq(Stages)
    /\ <<"clear_ws", "destroy_ws", "after">> \in Seq(Stages)
    /\ <<"clear_ws", "finish_ws", "after">> \in Seq(Stages)
    /\ <<"decide", "clear_ws", "destroy_ws", "after">> \in Seq(Stages)
    /\ <<"finalize", "clear_ws", "finish_ws", "after">> \in Seq(Stages)
    /\ <<"clear_ws", "destroy_ws", "decide", "after">> \in Seq(Stages)
    /\ <<"destroy_ws", "decide", "after">> \in Seq(Stages)
    /\ <<"join", "finalize", "clear_ws", "finish_ws", "after">> \in Seq(Stages)
    /\ <<"join", "clear_ws", "destroy_ws", "decide", "after">> \in Seq(Stages)
<1>1. Exit \in Seq(Stages)
  BY StageNames, LongLists, Zenon DEF Exit
<1>2. GiveUp \in Seq(Stages)
  BY StageNames, LongLists, Zenon DEF GiveUp
<1>3. /\ Tail(Exit) = <<"join", "finalize", "clear_ws", "finish_ws", "after">>
      /\ Tail(Tail(Exit)) = <<"finalize", "clear_ws", "finish_ws", "after">>
      /\ Tail(Tail(Tail(Exit))) = <<"clear_ws", "finish_ws", "after">>
  BY DEF Exit
<1>4. /\ Tail(GiveUp) = <<"join", "clear_ws", "destroy_ws", "decide", "after">>
      /\ Tail(Tail(GiveUp)) = <<"clear_ws", "destroy_ws", "decide", "after">>
      /\ Tail(Tail(Tail(GiveUp))) = <<"destroy_ws", "decide", "after">>
  BY DEF GiveUp
<1>5. /\ Exit # <<>> /\ Tail(Exit) # <<>> /\ Tail(Tail(Exit)) # <<>>
      /\ GiveUp # <<>> /\ Tail(GiveUp) # <<>> /\ Tail(Tail(GiveUp)) # <<>>
  BY <1>3, <1>4 DEF Exit, GiveUp
<1>6. \A s \in Seq(Stages) : s # <<>> => Tail(s) \in Seq(Stages)
  OBVIOUS
<1>7. /\ Tail(Exit) \in Seq(Stages) /\ Tail(Tail(Exit)) \in Seq(Stages)
      /\ Tail(Tail(Tail(Exit))) \in Seq(Stages)
      /\ Tail(GiveUp) \in Seq(Stages) /\ Tail(Tail(GiveUp)) \in Seq(Stages)
      /\ Tail(Tail(Tail(GiveUp))) \in Seq(Stages)
  BY <1>1, <1>2, <1>5, <1>6, Zenon
<1>8. <<"decide", "clear_ws", "destroy_ws", "after">> \in Seq(Stages)
  BY StageNames, LongLists, Zenon
<1>9. <<"clear_ws", "destroy_ws", "after">> \in Seq(Stages)
  <2> DEFINE d == <<"decide", "clear_ws", "destroy_ws", "after">>
  <2>1. d # <<>> /\ Tail(d) = <<"clear_ws", "destroy_ws", "after">>
    OBVIOUS
  <2> QED
    BY <1>6, <1>8, <2>1, Zenon
<1> QED
  BY <1>1, <1>2, <1>3, <1>4, <1>7, <1>8, <1>9, Zenon

LEMMA BareLists ==
    \A d \in Bare :
       /\ d \in Seq(Stages) /\ d # <<>>
       /\ Head(d) \in {"idle", "loop", "pick", "slot_first", "connect", "after",
                       "backoff", "decide", "take_requested", "take_resume"}
       /\ Head(d) \in {"take_requested", "take_resume", "decide"} =>
             Tail(d) \in Bare /\ Head(Tail(d)) \in Winding
       /\ Head(d) = "decide" => Taking(Tail(d)) \in Bare
<1> TAKE d \in Bare
<1>1. ASSUME NEW x \in {"idle", "slot_first", "connect", "backoff", "loop", "pick", "after"}, d = <<x>>
      PROVE  /\ d \in Seq(Stages) /\ d # <<>> /\ Head(d) = x
  BY <1>1, ShortStages, StageNames, Zenon
<1>2. CASE d = <<"decide", "after">>
  <2>1. d \in Seq(Stages) /\ d # <<>> /\ Head(d) = "decide" /\ Tail(d) = <<"after">> /\ Head(<<"after">>) = "after"
    BY <1>2, ShortStages, StageNames, Zenon
  <2> QED
    <3>1. <<"after">> \in WithTake(<<"after">>) /\ Taking(<<"after">>) \in WithTake(<<"after">>)
      BY Zenon DEF WithTake
    <3>2. <<"after">> \in Bare /\ Taking(<<"after">>) \in Bare
      BY <3>1, Zenon DEF Bare
    <3> QED
      BY <2>1, <3>2, Zenon DEF Winding
<1>3. ASSUME NEW x \in {"loop", "pick", "after"}, d = Taking(<<x>>) \/ d = TakingOne(<<x>>)
      PROVE  /\ d \in Seq(Stages) /\ d # <<>>
             /\ Head(d) \in {"take_requested", "take_resume"}
             /\ Tail(d) \in Bare /\ Head(Tail(d)) \in Winding
  <2>1. <<x>> \in Seq(Stages) /\ Head(<<x>>) = x
    BY <1>3, ShortStages, StageNames, Zenon
  <2>2. Tail(d) = TakingOne(<<x>>) \/ Tail(d) = <<x>>
    BY <1>3, <2>1, TakeLists, Zenon
  <2>3. Tail(d) \in Bare
    <3>1. Tail(d) \in WithTake(<<x>>)
      BY <2>2, Zenon DEF WithTake
    <3> QED
      BY <1>3, <3>1, Zenon DEF Bare
  <2> QED
    BY <1>3, <2>1, <2>2, <2>3, TakeLists, Zenon DEF Winding
<1>4. \/ \E x \in {"idle", "slot_first", "connect", "backoff", "loop", "pick", "after"} : d = <<x>>
      \/ d = <<"decide", "after">>
      \/ \E x \in {"loop", "pick", "after"} : d = Taking(<<x>>) \/ d = TakingOne(<<x>>)
  BY Zenon DEF Bare, WithTake
<1> QED
  BY <1>1, <1>2, <1>3, <1>4, Zenon

LEMMA BoundLists ==
    \A d \in Bound :
       /\ d \in Seq(Stages) /\ d # <<>>
       /\ Head(d) \in {"bind", "hello", "start_heartbeat", "decide", "finalize",
                       "clear_ws", "take_requested", "take_resume"}
       /\ Head(d) \in {"take_requested", "take_resume", "decide", "finalize"} =>
             Tail(d) \in Bound /\ Head(Tail(d)) \in Winding
       /\ Head(d) \in {"decide", "finalize"} => Taking(Tail(d)) \in Bound
       /\ Head(d) = "clear_ws" => Tail(d) \in Cleared /\ Head(Tail(d)) \in Winding
<1> TAKE d \in Bound
<1>1. ASSUME NEW x \in {"bind", "hello", "start_heartbeat"}, d = <<x>>
      PROVE  /\ d \in Seq(Stages) /\ d # <<>> /\ Head(d) = x
  BY <1>1, ShortStages, StageNames, Zenon
<1>2. ASSUME NEW l \in {<<"clear_ws", "destroy_ws", "after">>, <<"clear_ws", "finish_ws", "after">>},
             d = l
      PROVE  /\ d \in Seq(Stages) /\ d # <<>> /\ Head(d) = "clear_ws"
             /\ Tail(d) \in Cleared /\ Head(Tail(d)) \in Winding
  <2>1. d \in Seq(Stages)
    BY <1>2, SomeLists, Zenon
  <2>2. CASE d = <<"clear_ws", "destroy_ws", "after">>
    <3>1. /\ d # <<>> /\ Head(d) = "clear_ws"
          /\ Tail(d) = <<"destroy_ws", "after">> /\ Head(Tail(d)) = "destroy_ws"
      BY <2>2
    <3> QED
      BY <2>1, <3>1, Zenon DEF Cleared, Winding
  <2>3. CASE d = <<"clear_ws", "finish_ws", "after">>
    <3>1. /\ d # <<>> /\ Head(d) = "clear_ws"
          /\ Tail(d) = <<"finish_ws", "after">> /\ Head(Tail(d)) = "finish_ws"
      BY <2>3
    <3> QED
      BY <2>1, <3>1, Zenon DEF Cleared, Winding
  <2> QED
    BY <1>2, <2>2, <2>3, Zenon
<1>3. CASE d = <<"clear_ws", "destroy_ws", "decide", "after">>
  <2>1. d \in Seq(Stages)
    BY <1>3, SomeLists, Zenon
  <2>2. /\ d # <<>> /\ Head(d) = "clear_ws"
        /\ Tail(d) = <<"destroy_ws", "decide", "after">> /\ Head(Tail(d)) = "destroy_ws"
    BY <1>3
  <2> QED
    BY <2>1, <2>2, Zenon DEF Cleared, Winding
<1>4. ASSUME NEW x \in {"decide", "finalize"}, 
             NEW l \in {<<"clear_ws", "destroy_ws", "after">>, <<"clear_ws", "finish_ws", "after">>},
             d \in Seq(Stages), d # <<>>, Head(d) = x, Tail(d) = l
      PROVE  /\ Tail(d) \in Bound /\ Head(Tail(d)) \in Winding /\ Taking(Tail(d)) \in Bound
  <2>1. Head(Tail(d)) = "clear_ws"
    BY <1>4
  <2> QED
    BY <1>4, <2>1, Zenon DEF Bound, WithTake, Winding
<1>5. CASE d = <<"decide", "clear_ws", "destroy_ws", "after">>
  <2>1. d \in Seq(Stages)
    BY <1>5, SomeLists, Zenon
  <2>2. d # <<>> /\ Head(d) = "decide" /\ Tail(d) = <<"clear_ws", "destroy_ws", "after">>
    BY <1>5
  <2> QED
    BY <1>4, <2>1, <2>2, Zenon
<1>6. CASE d = <<"finalize", "clear_ws", "finish_ws", "after">>
  <2>1. d \in Seq(Stages)
    BY <1>6, SomeLists, Zenon
  <2>2. d # <<>> /\ Head(d) = "finalize" /\ Tail(d) = <<"clear_ws", "finish_ws", "after">>
    BY <1>6
  <2> QED
    BY <1>4, <2>1, <2>2, Zenon
<1>7. ASSUME NEW l \in {<<"clear_ws", "destroy_ws", "after">>, <<"clear_ws", "finish_ws", "after">>},
             d = Taking(l) \/ d = TakingOne(l)
      PROVE  /\ d \in Seq(Stages) /\ d # <<>>
             /\ Head(d) \in {"take_requested", "take_resume"}
             /\ Tail(d) \in Bound /\ Head(Tail(d)) \in Winding
  <2>1. l \in Seq(Stages)
    BY <1>7, SomeLists, Zenon
  <2>2. Head(l) = "clear_ws"
    BY <1>7
  <2>3. Tail(d) = TakingOne(l) \/ Tail(d) = l
    BY <1>7, <2>1, TakeLists, Zenon
  <2>4. Tail(d) \in Bound
    BY <2>3, Zenon DEF Bound, WithTake
  <2> QED
    BY <1>7, <2>1, <2>2, <2>3, <2>4, TakeLists, Zenon DEF Winding
<1>8. \/ \E x \in {"bind", "hello", "start_heartbeat"} : d = <<x>>
      \/ d = <<"clear_ws", "destroy_ws", "decide", "after">>
      \/ d = <<"decide", "clear_ws", "destroy_ws", "after">>
      \/ d = <<"finalize", "clear_ws", "finish_ws", "after">>
      \/ \E l \in {<<"clear_ws", "destroy_ws", "after">>, <<"clear_ws", "finish_ws", "after">>} :
            d = l \/ d = Taking(l) \/ d = TakingOne(l)
  BY Zenon DEF Bound, WithTake
<1> QED
  BY <1>1, <1>2, <1>3, <1>5, <1>6, <1>7, <1>8, Zenon

LEMMA ClearedLists ==
    \A d \in Cleared :
       /\ d \in Seq(Stages) /\ d # <<>>
       /\ Head(d) \in {"destroy_ws", "finish_ws"}
       /\ Tail(d) \in Bare /\ Head(Tail(d)) \in Winding
<1> TAKE d \in Cleared
<1>1. ASSUME NEW x \in {"destroy_ws", "finish_ws"}, d = <<x, "after">>
      PROVE  /\ d \in Seq(Stages) /\ d # <<>>
             /\ Head(d) \in {"destroy_ws", "finish_ws"}
             /\ Tail(d) \in Bare /\ Head(Tail(d)) \in Winding
  <2>1. d \in Seq(Stages) /\ d # <<>> /\ Head(d) = x /\ Tail(d) = <<"after">> /\ Head(<<"after">>) = "after"
    <3>1. x \in Stages /\ "after" \in Stages
      BY <1>1, StageNames, Zenon
    <3> QED
      BY <1>1, <3>1, ShortStages, Zenon
  <2> QED
    <3>1. <<"after">> \in WithTake(<<"after">>)
      BY Zenon DEF WithTake
    <3>2. <<"after">> \in Bare
      BY <3>1, Zenon DEF Bare
    <3> QED
      BY <1>1, <2>1, <3>2, Zenon DEF Winding
<1>2. CASE d = <<"destroy_ws", "decide", "after">>
  <2>1. d \in Seq(Stages)
    BY <1>2, SomeLists, Zenon
  <2>2. /\ d # <<>> /\ Head(d) = "destroy_ws"
        /\ Tail(d) = <<"decide", "after">> /\ Head(Tail(d)) = "decide"
    BY <1>2
  <2> QED
    BY <2>1, <2>2, Zenon DEF Bare, Winding
<1> QED
  BY <1>1, <1>2, Zenon DEF Cleared

LEMMA BeatingLists ==
    \A d \in Beating :
       /\ d \in Seq(Stages) /\ d # <<>>
       /\ Head(d) \in {"slot_late", "send", "recv_test", "recv", "received", "answer",
                       "stop_heartbeat", "join", "take_requested", "take_resume"}
       /\ Head(d) \in {"take_requested", "take_resume", "stop_heartbeat"} =>
             Tail(d) \in Beating /\ Head(Tail(d)) \in Winding
       /\ Head(d) = "join" => Tail(d) \in Bound /\ Head(Tail(d)) \in Winding
<1> TAKE d \in Beating
<1>1. ASSUME NEW x \in {"slot_late", "send", "recv_test", "recv", "received", "answer"}, d = <<x>>
      PROVE  /\ d \in Seq(Stages) /\ d # <<>> /\ Head(d) = x
  BY <1>1, ShortStages, StageNames, Zenon
<1>2. CASE d = Exit
  <2>1. d \in Seq(Stages)
    BY <1>2, SomeLists, Zenon
  <2>2. /\ d # <<>> /\ Head(d) = "stop_heartbeat"
        /\ Tail(d) = <<"join", "finalize", "clear_ws", "finish_ws", "after">>
        /\ Head(Tail(d)) = "join"
    BY <1>2 DEF Exit
  <2> QED
    BY <2>1, <2>2, Zenon DEF Beating, Winding
<1>3. CASE d = GiveUp
  <2>1. d \in Seq(Stages)
    BY <1>3, SomeLists, Zenon
  <2>2. /\ d # <<>> /\ Head(d) = "stop_heartbeat"
        /\ Tail(d) = <<"join", "clear_ws", "destroy_ws", "decide", "after">>
        /\ Head(Tail(d)) = "join"
    BY <1>3 DEF GiveUp
  <2> QED
    BY <2>1, <2>2, Zenon DEF Beating, Winding
<1>4. CASE d = <<"join", "finalize", "clear_ws", "finish_ws", "after">>
  <2>1. d \in Seq(Stages)
    BY <1>4, SomeLists, Zenon
  <2>2. /\ d # <<>> /\ Head(d) = "join"
        /\ Tail(d) = <<"finalize", "clear_ws", "finish_ws", "after">>
        /\ Head(Tail(d)) = "finalize"
    BY <1>4
  <2> QED
    BY <2>1, <2>2, Zenon DEF Bound, Winding
<1>5. CASE d = <<"join", "clear_ws", "destroy_ws", "decide", "after">>
  <2>1. d \in Seq(Stages)
    BY <1>5, SomeLists, Zenon
  <2>2. /\ d # <<>> /\ Head(d) = "join"
        /\ Tail(d) = <<"clear_ws", "destroy_ws", "decide", "after">>
        /\ Head(Tail(d)) = "clear_ws"
    BY <1>5
  <2> QED
    BY <2>1, <2>2, Zenon DEF Bound, Winding
<1>6. ASSUME d = Taking(Exit) \/ d = TakingOne(Exit)
      PROVE  /\ d \in Seq(Stages) /\ d # <<>>
             /\ Head(d) \in {"take_requested", "take_resume"}
             /\ Tail(d) \in Beating /\ Head(Tail(d)) \in Winding
  <2>1. Exit \in Seq(Stages)
    BY SomeLists, Zenon
  <2>2. Head(Exit) = "stop_heartbeat"
    BY DEF Exit
  <2>3. Tail(d) = TakingOne(Exit) \/ Tail(d) = Exit
    BY <1>6, <2>1, TakeLists, Zenon
  <2>4. Tail(d) \in Beating
    BY <2>3, Zenon DEF Beating, WithTake
  <2> QED
    BY <1>6, <2>1, <2>2, <2>3, <2>4, TakeLists, Zenon DEF Winding
<1>7. \/ \E x \in {"slot_late", "send", "recv_test", "recv", "received", "answer"} : d = <<x>>
      \/ d = Exit \/ d = GiveUp \/ d = Taking(Exit) \/ d = TakingOne(Exit)
      \/ d = <<"join", "finalize", "clear_ws", "finish_ws", "after">>
      \/ d = <<"join", "clear_ws", "destroy_ws", "decide", "after">>
  BY Zenon DEF Beating, WithTake
<1> QED
  BY <1>1, <1>2, <1>3, <1>4, <1>5, <1>6, <1>7, Zenon

LEMMA Listed ==
    /\ <<"idle">> \in Bare /\ <<"slot_first">> \in Bare /\ <<"connect">> \in Bare
    /\ <<"backoff">> \in Bare /\ <<"loop">> \in Bare /\ <<"pick">> \in Bare
    /\ <<"after">> \in Bare /\ Taking(<<"pick">>) \in Bare /\ Taking(<<"loop">>) \in Bare
    /\ <<"bind">> \in Bound /\ <<"hello">> \in Bound /\ <<"start_heartbeat">> \in Bound
    /\ <<"decide", "clear_ws", "destroy_ws", "after">> \in Bound
    /\ <<"clear_ws", "destroy_ws", "after">> \in Bound
    /\ <<"slot_late">> \in Beating /\ <<"send">> \in Beating /\ <<"recv_test">> \in Beating
    /\ <<"recv">> \in Beating /\ <<"received">> \in Beating /\ <<"answer">> \in Beating
    /\ Exit \in Beating /\ GiveUp \in Beating /\ Taking(Exit) \in Beating
<1>1. /\ <<"idle">> \in Bare /\ <<"slot_first">> \in Bare /\ <<"connect">> \in Bare
      /\ <<"backoff">> \in Bare
  BY Zenon DEF Bare
<1>2. ASSUME NEW x \in {"loop", "pick", "after"} PROVE <<x>> \in Bare /\ Taking(<<x>>) \in Bare
  <2>1. <<x>> \in WithTake(<<x>>) /\ Taking(<<x>>) \in WithTake(<<x>>)
    BY Zenon DEF WithTake
  <2> QED
    BY <2>1, Zenon DEF Bare
<1>3. <<"bind">> \in Bound /\ <<"hello">> \in Bound /\ <<"start_heartbeat">> \in Bound
  BY Zenon DEF Bound
<1>4. <<"decide", "clear_ws", "destroy_ws", "after">> \in Bound
  BY Zenon DEF Bound
<1>5. <<"clear_ws", "destroy_ws", "after">> \in Bound
  BY Zenon DEF Bound, WithTake
<1>6. /\ <<"slot_late">> \in Beating /\ <<"send">> \in Beating /\ <<"recv_test">> \in Beating
      /\ <<"recv">> \in Beating /\ <<"received">> \in Beating /\ <<"answer">> \in Beating
  BY Zenon DEF Beating
<1>7. Exit \in Beating /\ GiveUp \in Beating /\ Taking(Exit) \in Beating
  BY Zenon DEF Beating, WithTake
<1> QED
  BY <1>1, <1>2, <1>3, <1>4, <1>5, <1>6, <1>7, Zenon

LEMMA Heads ==
    /\ Head(<<"idle">>) = "idle" /\ Head(<<"slot_first">>) = "slot_first"
    /\ Head(<<"connect">>) = "connect" /\ Head(<<"backoff">>) = "backoff"
    /\ Head(<<"loop">>) = "loop" /\ Head(<<"pick">>) = "pick" /\ Head(<<"after">>) = "after"
    /\ Head(<<"bind">>) = "bind" /\ Head(<<"hello">>) = "hello"
    /\ Head(<<"start_heartbeat">>) = "start_heartbeat"
    /\ Head(<<"decide", "clear_ws", "destroy_ws", "after">>) = "decide"
    /\ Head(<<"clear_ws", "destroy_ws", "after">>) = "clear_ws"
    /\ Head(<<"slot_late">>) = "slot_late" /\ Head(<<"send">>) = "send"
    /\ Head(<<"recv_test">>) = "recv_test" /\ Head(<<"recv">>) = "recv"
    /\ Head(<<"received">>) = "received" /\ Head(<<"answer">>) = "answer"
    /\ Head(Exit) = "stop_heartbeat" /\ Head(GiveUp) = "stop_heartbeat"
    /\ \A s \in Seq(Stages) : Head(Taking(s)) = "take_requested"
<1>1. \A x : Head(<<x>>) = x
  OBVIOUS
<1>2. Head(Exit) = "stop_heartbeat" /\ Head(GiveUp) = "stop_heartbeat"
  BY DEF Exit, GiveUp
<1>3. /\ Head(<<"decide", "clear_ws", "destroy_ws", "after">>) = "decide"
      /\ Head(<<"clear_ws", "destroy_ws", "after">>) = "clear_ws"
  OBVIOUS
<1> QED
  BY <1>1, <1>2, <1>3, TakeLists, Zenon

-----------------------------------------------------------------------------
(* What a step leaves alone. *)

LEMMA RefsSame ==
    ASSUME RefsExact, \A w \in Conns : ws'[w].refs = ws[w].refs,
           task'.ws = task.ws, hb'.ws = hb.ws,
           \A t \in Threads : call'[t].ws = call[t].ws
    PROVE  RefsExact'
<1>1. \A w \in Conns : Users(w)' = Users(w)
  BY Zenon DEF Users
<1> QED
  BY <1>1, Zenon DEF RefsExact, Count

SameClass(d, e) ==
    /\ d \in Bare => e \in Bare
    /\ d \in Bound => e \in Bound
    /\ d \in Cleared => e \in Cleared
    /\ d \in Beating => e \in Beating

Quiet == Winding \cup {"backoff"}

LEMMA HoldsSame ==
    ASSUME TaskShape, SameClass(task.todo, task'.todo), task'.ws = task.ws,
           UNCHANGED <<current_ws, hb, task_running>>,
           (Head(task'.todo) # "idle") <=> (Stage # "idle")
    PROVE  TaskShape'
BY Zenon DEF TaskShape, Holds, SameClass, Stage

LEMMA QuietSession ==
    ASSUME SessionShape, AckShape, GotShape, Stage' \in Quiet \cup {"idle"},
           UNCHANGED <<session, peer, invalid, unstored>>, task'.ws = task.ws
    PROVE  SessionShape' /\ AckShape' /\ GotShape'
<1>1. /\ Stage' \notin Connecting /\ Stage' \notin Receiving
      /\ Stage' \notin {"slot_first", "bind", "hello", "start_heartbeat", "slot_late", "send",
                        "recv_test", "recv", "received"}
  BY Zenon DEF Quiet, Winding, Connecting, Receiving
<1>2. CanResume' = CanResume
  BY Zenon DEF CanResume
<1>3. SessionShape'
  BY <1>1, <1>2, Zenon DEF SessionShape
<1>4. AckShape' /\ GotShape'
  BY <1>1, Zenon DEF AckShape, GotShape
<1> QED
  BY <1>3, <1>4, Zenon

LEMMA NumberedSame ==
    ASSUME Numbered, UNCHANGED <<session, peer, conns, invalid>>, task'.ws = task.ws,
           \A t \in Threads : call'[t].ws = call[t].ws
    PROVE  Numbered'
BY Zenon DEF Numbered

LEMMA SessionSame ==
    ASSUME SessionShape, UNCHANGED <<session, peer, invalid, unstored>>, task'.ws = task.ws,
           Stage' \in Connecting /\ task'.resume => CanResume,
           Stage' \in {"slot_first", "slot_late"} => ~task'.resume,
           Stage' \in Receiving => Stage \in Receiving,
           Stage' \in {"bind", "hello", "start_heartbeat", "slot_late", "send"} =>
              peer.phase = "none"
    PROVE  SessionShape'
<1>1. CanResume' = CanResume
  BY Zenon DEF CanResume
<1>2. CanResume' /\ ~unstored' => session'.seq = session'.id /\ session'.id \notin invalid'
  BY <1>1, Zenon DEF SessionShape
<1>3. Stage' \in Receiving /\ peer'.phase \in {"resume", "live"} =>
          CanResume' /\ session'.id = peer'.id
  BY <1>1, Zenon DEF SessionShape
<1>4. /\ Stage' \in Receiving => peer'.phase # "none"
      /\ peer'.phase \in {"none", "identify"} =>
            peer'.id = NONE /\ task'.ws \notin invalid'
  BY Zenon DEF SessionShape
<1> HIDE DEF CanResume, Connecting, Receiving, Stage
<1> QED
  BY <1>1, <1>2, <1>3, <1>4, Zenon DEF SessionShape

LEMMA OneCall ==
    ASSUME CallShape, NEW t \in Threads,
           \A u \in Threads : u # t => call'[u] = call[u],
           (call'[t].ws # NONE) <=> (call'[t].pc = "sending")
    PROVE  CallShape'
<1>1. ASSUME NEW u \in Threads
      PROVE  (call'[u].ws # NONE) <=> (call'[u].pc = "sending")
  <2>1. CASE u = t
    BY <2>1, Zenon
  <2>2. CASE u # t
    <3>1. call'[u] = call[u] /\ ((call[u].ws # NONE) <=> (call[u].pc = "sending"))
      BY <2>2, Zenon DEF CallShape
    <3> QED
      BY <3>1, Zenon
  <2> QED
    BY <2>1, <2>2, Zenon
<1> QED
  BY <1>1, Zenon DEF CallShape

(* The task turns to leaving, with what it holds. *)
LEMMA Winds ==
    ASSUME IndInv, TypeTask', TypeFlags', task'.ws = task.ws,
           SameClass(task.todo, task'.todo), Stage' \in Quiet, Stage # "idle",
           UNCHANGED <<task_running, current_ws, ws, session, hb, peer, call, env,
                       conns, invalid, unstored>>
    PROVE  IndInv'
<1>1. Stage' # "idle"
  BY Zenon DEF Quiet, Winding
<1>2. TaskShape'
  BY <1>1, HoldsSame, Zenon DEF IndInv, Stage
<1>3. SessionShape' /\ AckShape' /\ GotShape'
  BY QuietSession, Zenon DEF IndInv
<1>4. RefsExact' /\ Numbered'
  BY RefsSame, NumberedSame, Zenon DEF IndInv
<1>5. TypeBeat' /\ TypePeer'
  <2>1. TypeBeat /\ TypePeer
    BY Zenon DEF IndInv, TypeOK
  <2>2. TypeBeat'
    BY <2>1, Zenon DEF TypeBeat
  <2> QED
    BY <2>1, <2>2, Zenon DEF TypePeer
<1>6. TypeSockets' /\ TypeCalls' /\ CallShape'
  BY Zenon DEF IndInv, TypeOK, TypeSockets, TypeCalls, CallShape
<1> QED
  BY <1>2, <1>3, <1>4, <1>5, <1>6, Zenon DEF IndInv, TypeOK

(* The list the task works on, by its first statement. *)
LEMMA ListsMove ==
    \A d :
       /\ Head(d) \in {"take_requested", "take_resume", "decide", "finalize"} =>
             SameClass(d, Tail(d))
       /\ Head(d) \in {"decide", "finalize"} => SameClass(d, Taking(Tail(d)))
<1> TAKE d
<1>1. ASSUME d \in Bare, Head(d) \in {"take_requested", "take_resume", "decide", "finalize"}
      PROVE  Tail(d) \in Bare /\ (Head(d) \in {"decide", "finalize"} => Taking(Tail(d)) \in Bare)
  BY <1>1, BareLists, Zenon
<1>2. ASSUME d \in Bound, Head(d) \in {"take_requested", "take_resume", "decide", "finalize"}
      PROVE  Tail(d) \in Bound /\ (Head(d) \in {"decide", "finalize"} => Taking(Tail(d)) \in Bound)
  BY <1>2, BoundLists, Zenon
<1>3. d \in Cleared => Head(d) \notin {"take_requested", "take_resume", "decide", "finalize"}
  BY ClearedLists, Zenon
<1>4. ASSUME d \in Beating, Head(d) \in {"take_requested", "take_resume", "decide", "finalize"}
      PROVE  Tail(d) \in Beating /\ Head(d) \notin {"decide", "finalize"}
  BY <1>4, BeatingLists, Zenon
<1> QED
  BY <1>1, <1>2, <1>3, <1>4, Zenon DEF SameClass

LEMMA Stands ==
    ASSUME IndInv
    PROVE  /\ task.todo \in Seq(Stages) /\ task.todo # <<>>
           /\ Stage \in {"idle", "loop", "pick", "slot_first", "connect", "after",
                         "backoff"} =>
                 task.todo \in Bare /\ task.ws = NONE /\ current_ws = NONE /\ hb = NoBeat
           /\ Stage \in {"bind", "hello", "start_heartbeat", "finalize", "clear_ws"} =>
                 /\ task.todo \in Bound /\ task.ws \in Conns
                 /\ current_ws \in {NONE, task.ws} /\ hb = NoBeat
           /\ Stage \in {"destroy_ws", "finish_ws"} =>
                 /\ task.todo \in Cleared /\ task.ws \in Conns
                 /\ current_ws = NONE /\ hb = NoBeat
           /\ Stage \in {"slot_late", "send", "recv_test", "recv", "received", "answer",
                         "stop_heartbeat", "join"} =>
                 /\ task.todo \in Beating /\ task.ws \in Conns
                 /\ current_ws \in {NONE, task.ws}
                 /\ hb.pc # "none" /\ hb.ws = task.ws
                 /\ hb.refs = IF hb.pc = "done" THEN 1 ELSE 2
           /\ Stage \in {"take_requested", "take_resume", "decide", "finalize"} =>
                 Head(Rest) \in Winding
           /\ Rest \in Seq(Stages)
<1>1. task.ws # NONE => task.ws \in Conns
  BY Zenon DEF IndInv, TypeOK, TypeTask
<1>2. Holds
  BY Zenon DEF IndInv, TaskShape
<1>3. CASE task.todo \in Bare /\ task.ws = NONE /\ current_ws = NONE /\ hb = NoBeat
  <2>1. /\ task.todo \in Seq(Stages) /\ task.todo # <<>>
        /\ Head(task.todo) \in {"idle", "loop", "pick", "slot_first", "connect", "after",
                                "backoff", "decide", "take_requested", "take_resume"}
        /\ Head(task.todo) \in {"take_requested", "take_resume", "decide"} =>
              Head(Tail(task.todo)) \in Winding
    BY <1>3, BareLists, Zenon
  <2>2. Tail(task.todo) \in Seq(Stages)
    BY <2>1
  <2> QED
    BY <1>3, <2>1, <2>2, Zenon DEF Stage, Rest
<1>4. CASE /\ task.todo \in Bound
           /\ task.ws # NONE /\ current_ws \in {NONE, task.ws} /\ hb = NoBeat
  <2>1. /\ task.todo \in Seq(Stages) /\ task.todo # <<>>
        /\ Head(task.todo) \in {"bind", "hello", "start_heartbeat", "decide", "finalize",
                                "clear_ws", "take_requested", "take_resume"}
        /\ Head(task.todo) \in {"take_requested", "take_resume", "decide", "finalize"} =>
              Head(Tail(task.todo)) \in Winding
    BY <1>4, BoundLists, Zenon
  <2>2. Tail(task.todo) \in Seq(Stages)
    BY <2>1
  <2> QED
    BY <1>1, <1>4, <2>1, <2>2, Zenon DEF Stage, Rest
<1>5. CASE /\ task.todo \in Cleared
           /\ task.ws # NONE /\ current_ws = NONE /\ hb = NoBeat
  <2>1. /\ task.todo \in Seq(Stages) /\ task.todo # <<>>
        /\ Head(task.todo) \in {"destroy_ws", "finish_ws"}
    BY <1>5, ClearedLists, Zenon
  <2>2. Tail(task.todo) \in Seq(Stages)
    BY <2>1
  <2> QED
    BY <1>1, <1>5, <2>1, <2>2, Zenon DEF Stage, Rest
<1>6. CASE /\ task.todo \in Beating
           /\ task.ws # NONE /\ current_ws \in {NONE, task.ws}
           /\ hb.pc # "none" /\ hb.ws = task.ws
           /\ hb.refs = IF hb.pc = "done" THEN 1 ELSE 2
  <2>1. /\ task.todo \in Seq(Stages) /\ task.todo # <<>>
        /\ Head(task.todo) \in {"slot_late", "send", "recv_test", "recv", "received", "answer",
                                "stop_heartbeat", "join", "take_requested", "take_resume"}
        /\ Head(task.todo) \in {"take_requested", "take_resume"} =>
              Head(Tail(task.todo)) \in Winding
    BY <1>6, BeatingLists, Zenon
  <2>2. Tail(task.todo) \in Seq(Stages)
    BY <2>1
  <2> QED
    BY <1>1, <1>6, <2>1, <2>2, Zenon DEF Stage, Rest
<1> QED
  BY <1>2, <1>3, <1>4, <1>5, <1>6, Zenon DEF Holds

(* The same, for a step that changes nothing but the task. *)
LEMMA Turns ==
    ASSUME IndInv, TypeTask', task'.ws = task.ws,
           SameClass(task.todo, task'.todo), Head(task'.todo) \in Quiet, Stage # "idle",
           OnlyTask
    PROVE  IndInv'
<1>1. UNCHANGED <<task_running, current_ws, ws, session, hb, peer, call, env,
                  conns, invalid, unstored>>
  BY Zenon DEF OnlyTask, OnlyTaskOrEnd, running, ghosts
<1>2. TypeFlags
  BY Zenon DEF IndInv, TypeOK
<1>3. TypeFlags'
  BY <1>2, Zenon DEF TypeFlags, OnlyTask, OnlyTaskOrEnd, running, flags
<1> QED
  BY <1>1, <1>3, Winds, Zenon DEF Stage

(* dcc_gateway_take_reconnect_request begins. *)
LEMMA Takes ==
    ASSUME IndInv, NEW s \in Statuses, NEW left \in Seq(Stages), TakeThen(s, left),
           SameClass(task.todo, Taking(left)), Stage # "idle", OnlyTask
    PROVE  IndInv'
<1>1. Taking(left) \in Seq(Stages) /\ Head(Taking(left)) = "take_requested"
  BY TakeLists, Zenon
<1>2. TypeTask /\ TypeFlags /\ TypePeer
  BY Zenon DEF IndInv, TypeOK
<1>3. (reconnect_resume /\ CanResume) \in BOOLEAN
  BY Zenon
<1>4. TypeTask' /\ task'.ws = task.ws /\ task'.todo = Taking(left)
  <2>1. task' = [task EXCEPT !.taken = reconnect_resume /\ CanResume,
                             !.status = s, !.got = "none", !.todo = Taking(left)]
    BY Zenon DEF TakeThen, Taking
  <2>2. "none" \in Receipts
    BY Zenon DEF Receipts
  <2> HIDE DEF Taking
  <2> QED
    BY <1>1, <1>2, <1>3, <2>1, <2>2, Zenon DEF TypeTask
<1>5. Head(task'.todo) \in Quiet
  BY <1>1, <1>4, Zenon DEF Quiet, Winding
<1> QED
  BY <1>4, <1>5, Turns, Zenon

(* The task goes to the list d, with another outcome or the same. *)
Goes(d) ==
    \/ task' = [task EXCEPT !.todo = d]
    \/ \E s \in Statuses : \/ task' = [task EXCEPT !.status = s, !.todo = d]
                           \/ task' = [task EXCEPT !.status = s, !.got = "none", !.todo = d]
    \/ \E n \in Nexts : task' = [task EXCEPT !.next = n, !.todo = d]
    \/ \E r \in BOOLEAN : task' = [task EXCEPT !.resume = r, !.todo = d]
    \/ \E n \in Nexts, r, b \in BOOLEAN :
          task' = [task EXCEPT !.resume = r, !.next = n, !.beat_failed = b, !.todo = d]
    \/ \E n \in Nexts, s \in Statuses :
          \/ task' = [task EXCEPT !.next = n, !.status = s, !.todo = d]
          \/ task' = [task EXCEPT !.next = n, !.status = s, !.got = "none", !.todo = d]

LEMMA Goals ==
    ASSUME IndInv, NEW d, d \in Bare \cup Bound \cup Cleared \cup Beating, Goes(d)
    PROVE  TypeTask' /\ task'.ws = task.ws /\ task'.todo = d
<1>1. d \in Seq(Stages)
  BY BareLists, BoundLists, ClearedLists, BeatingLists, Zenon
<1>2. TypeTask
  BY Zenon DEF IndInv, TypeOK
<1>3. "none" \in Receipts
  BY Zenon DEF Receipts
<1>4. ASSUME NEW s \in Statuses, NEW n \in Nexts,
             \/ task' = [task EXCEPT !.status = s, !.todo = d]
             \/ task' = [task EXCEPT !.status = s, !.got = "none", !.todo = d]
             \/ task' = [task EXCEPT !.next = n, !.status = s, !.todo = d]
             \/ task' = [task EXCEPT !.next = n, !.status = s, !.got = "none", !.todo = d]
      PROVE  TypeTask' /\ task'.ws = task.ws /\ task'.todo = d
  BY <1>1, <1>2, <1>3, <1>4, Zenon DEF TypeTask
<1>5. ASSUME NEW n \in Nexts, NEW r \in BOOLEAN, NEW b \in BOOLEAN,
             \/ task' = [task EXCEPT !.todo = d]
             \/ task' = [task EXCEPT !.next = n, !.todo = d]
             \/ task' = [task EXCEPT !.resume = r, !.todo = d]
             \/ task' = [task EXCEPT !.resume = r, !.next = n, !.beat_failed = b, !.todo = d]
      PROVE  TypeTask' /\ task'.ws = task.ws /\ task'.todo = d
  BY <1>1, <1>2, <1>5, Zenon DEF TypeTask
<1>6. "FATAL" \in Nexts /\ TRUE \in BOOLEAN
  BY Zenon DEF Nexts
<1> QED
  BY <1>4, <1>5, <1>6, Zenon DEF Goes

LEMMA TurnsTo ==
    ASSUME IndInv, NEW d, d \in Bare \cup Bound \cup Cleared \cup Beating, Goes(d),
           SameClass(task.todo, d), Head(d) \in Quiet, Stage # "idle", OnlyTask
    PROVE  IndInv'
BY Goals, Turns, Zenon

(* Which class a list is in, by its first statement. *)
LEMMA ClassByHead ==
    \A d, e :
       /\ Head(d) \in {"loop", "pick", "slot_first", "connect", "after", "backoff"}
             /\ e \in Bare => SameClass(d, e)
       /\ Head(d) \in {"bind", "hello", "start_heartbeat"} /\ e \in Bound =>
             SameClass(d, e)
       /\ Head(d) \in {"slot_late", "send", "recv_test", "recv", "received", "answer",
                       "stop_heartbeat"}
             /\ e \in Beating => SameClass(d, e)
<1> TAKE d, e
<1>1. d \in Bare => Head(d) \notin {"bind", "hello", "start_heartbeat", "slot_late", "send",
                                    "recv_test", "recv", "received", "answer", "stop_heartbeat"}
  BY BareLists, Zenon
<1>2. d \in Bound => Head(d) \notin {"loop", "pick", "slot_first", "connect", "after", "backoff",
                                     "slot_late", "send", "recv_test", "recv", "received",
                                     "answer", "stop_heartbeat"}
  BY BoundLists, Zenon
<1>3. d \in Cleared => Head(d) \notin {"loop", "pick", "slot_first", "connect", "after", "backoff",
                                       "slot_late", "send", "recv_test", "recv", "received",
                                       "answer", "stop_heartbeat",
                                       "bind", "hello", "start_heartbeat"}
  BY ClearedLists, Zenon
<1>4. d \in Beating => Head(d) \notin {"loop", "pick", "slot_first", "connect", "after", "backoff",
                                       "bind", "hello", "start_heartbeat"}
  BY BeatingLists, Zenon
<1> QED
  BY <1>1, <1>2, <1>3, <1>4, Zenon DEF SameClass

LEMMA QuietHeads ==
    /\ Head(<<"pick">>) \in Quiet /\ Head(<<"after">>) \in Quiet /\ Head(<<"loop">>) \in Quiet
    /\ Head(<<"backoff">>) \in Quiet
    /\ Head(Exit) \in Quiet /\ Head(GiveUp) \in Quiet
    /\ Head(<<"decide", "clear_ws", "destroy_ws", "after">>) \in Quiet
    /\ Head(<<"clear_ws", "destroy_ws", "after">>) \in Quiet
    /\ Winding \subseteq Quiet
BY Heads, Zenon DEF Quiet, Winding

(* dcc_gateway_run returns. *)
LEMMA Ends ==
    ASSUME IndInv, NEW s \in Statuses, EndTask(s), OnlyTaskOrEnd,
           Stage \in {"loop", "pick", "after", "backoff"}
    PROVE  IndInv'
<1>1. /\ UNCHANGED <<stopping, stop_requested, reconnect_requested, reconnect_resume,
                     current_ws, ws, session, hb, peer, env, conns, invalid, unstored,
                     task_completed>>
      /\ last_status' = s /\ task_running' = FALSE /\ task' = IdleTask
      /\ call[Ender].pc = "idle"
      /\ call' = [call EXCEPT ![Ender] = [pc |-> "complete", op |-> s, ws |-> NONE]]
  BY Zenon DEF EndTask, OnlyTaskOrEnd, flags, ghosts
<1>2. task.ws = NONE /\ current_ws = NONE /\ hb = NoBeat
  BY Stands, Zenon
<1>3. /\ task'.ws = NONE /\ task'.todo = <<"idle">> /\ Stage' = "idle"
      /\ task' \in [todo : {<<"idle">>}, resume : {FALSE}, next : {"FATAL"}, status : {"ok"},
                    ws : {NONE}, taken : {FALSE}, got : {"none"}, beat_failed : {FALSE}]
  BY <1>1, Heads, Zenon DEF IdleTask, Stage
<1>4. TypeTask'
  <2>1. <<"idle">> \in Seq(Stages) /\ "FATAL" \in Nexts /\ "ok" \in Statuses /\ "none" \in Receipts
    BY Listed, BareLists, Zenon DEF Nexts, Statuses, Receipts
  <2> QED
    BY <1>1, <2>1, Zenon DEF TypeTask, IdleTask
<1>5. TaskShape'
  BY <1>1, <1>2, <1>3, Listed, Zenon DEF TaskShape, Holds
<1>6. Ender \in Threads /\ call \in [Threads -> [pc : CallStages, op : AllOps \cup Statuses \cup {"none"},
                                                 ws : Conns \cup {NONE}]]
  BY Zenon DEF IndInv, TypeOK, TypeCalls, Threads
<1>7. call[Ender].ws = NONE
  BY <1>1, <1>6, Zenon DEF IndInv, CallShape
<1>8. \A t \in Threads : call'[t].ws = call[t].ws
  BY <1>1, <1>6, <1>7, Zenon
<1>9. TypeCalls' /\ CallShape'
  <2>1. [pc |-> "complete", op |-> s, ws |-> NONE]
           \in [pc : CallStages, op : AllOps \cup Statuses \cup {"none"}, ws : Conns \cup {NONE}]
    BY Zenon DEF CallStages
  <2>2. env' \in Environment
    BY <1>1, Zenon DEF IndInv, TypeOK, TypeCalls
  <2>3. TypeCalls'
    BY <1>1, <1>6, <2>1, <2>2, Zenon DEF TypeCalls
  <2>4. \A t \in Threads : t # Ender => call'[t] = call[t]
    BY <1>1, <1>6, Zenon
  <2>5. CallShape'
    <3>1. call'[Ender].ws = NONE /\ call'[Ender].pc = "complete"
      BY <1>1, <1>6, Zenon
    <3> QED
      BY <1>6, <2>4, <3>1, OneCall, Zenon DEF IndInv
  <2> QED
    BY <2>3, <2>5, Zenon
<1>10. RefsExact' /\ Numbered'
  BY <1>1, <1>2, <1>3, <1>8, RefsSame, NumberedSame, Zenon DEF IndInv
<1>11. SessionShape' /\ AckShape' /\ GotShape'
  BY <1>1, <1>2, <1>3, QuietSession, Zenon DEF IndInv
<1>12. TypeFlags'
  BY <1>1, Zenon DEF IndInv, TypeOK, TypeFlags
<1>13. TypeBeat' /\ TypeSockets'
  BY <1>1, Zenon DEF IndInv, TypeOK, TypeBeat, TypeSockets
<1>14. TypePeer'
  <2>1. TypePeer
    BY Zenon DEF IndInv, TypeOK
  <2> QED
    BY <1>1, <2>1, Zenon DEF TypePeer
<1> QED
  BY <1>4, <1>5, <1>9, <1>10, <1>11, <1>12, <1>13, <1>14, Zenon DEF IndInv, TypeOK

-----------------------------------------------------------------------------
(* The steps of the gateway task that leave a session, or end the task. *)

LEMMA LoopStep == ASSUME IndInv, Loop PROVE IndInv'
<1>1. Stage = "loop" /\ Stage # "idle" /\ OnlyTaskOrEnd
  BY Zenon DEF Loop, At, Stage
<1>2. task.status \in Statuses /\ "ok" \in Statuses
  BY Zenon DEF IndInv, TypeOK, TypeTask, Statuses
<1>3. ASSUME EndTask(IF task.status = "canceled" THEN "ok" ELSE task.status) PROVE IndInv'
  BY <1>1, <1>2, <1>3, Ends, Zenon
<1>4. ASSUME UNCHANGED <<running, call>>, TakeThen(task.status, <<"pick">>) PROVE IndInv'
  <2>1. <<"pick">> \in Seq(Stages) /\ SameClass(task.todo, Taking(<<"pick">>))
    BY <1>1, Listed, BareLists, ClassByHead, Zenon DEF Stage
  <2> QED
    BY <1>1, <1>2, <1>4, <2>1, Takes, Zenon DEF OnlyTask
<1>5. ASSUME UNCHANGED <<running, call>>, task' = Do(<<"pick">>) PROVE IndInv'
  <2>1. SameClass(task.todo, <<"pick">>) /\ <<"pick">> \in Bare
    BY <1>1, Listed, ClassByHead, Zenon DEF Stage
  <2>2. Goes(<<"pick">>)
    BY <1>5, Zenon DEF Goes, Do
  <2> QED
    BY <1>1, <1>5, <2>1, <2>2, QuietHeads, TurnsTo, Zenon DEF OnlyTask
<1> QED
  BY <1>3, <1>4, <1>5, Zenon DEF Loop

LEMMA Names ==
    /\ "ok" \in Statuses /\ "error" \in Statuses /\ "canceled" \in Statuses
    /\ "STOP" \in Nexts /\ "FATAL" \in Nexts /\ "RESUME" \in Nexts /\ "IDENTIFY" \in Nexts
    /\ ReconnectNext \in Nexts
BY Zenon DEF Statuses, Nexts, ReconnectNext

LEMMA Leaves ==
    ASSUME IndInv, NEW n \in Nexts, NEW s \in Statuses, Leave(n, s),
           Stage \in {"received", "answer"}, OnlyTask
    PROVE  IndInv'
<1>1. SameClass(task.todo, Exit) /\ Exit \in Beating
  BY Listed, ClassByHead, Zenon DEF Stage
<1>2. Goes(Exit)
  BY Zenon DEF Goes, Leave
<1>3. Stage # "idle"
  BY Zenon
<1> QED
  BY <1>1, <1>2, <1>3, QuietHeads, TurnsTo, Zenon

LEMMA TakesAndLeaves ==
    ASSUME IndInv, NEW s \in Statuses, TakeThen(s, Exit), Stage = "received", OnlyTask
    PROVE  IndInv'
<1>1. SameClass(task.todo, Taking(Exit)) /\ Exit \in Seq(Stages)
  BY Listed, ClassByHead, SomeLists, Zenon DEF Stage
<1>2. Stage # "idle"
  BY Zenon
<1> QED
  BY <1>1, <1>2, Takes, Zenon

LEMMA DecideStep == ASSUME IndInv, Decide PROVE IndInv'
<1>1. Stage = "decide" /\ Stage # "idle" /\ OnlyTask
  BY Zenon DEF Decide, At, Stage
<1>2. /\ SameClass(task.todo, Rest) /\ SameClass(task.todo, Taking(Rest))
      /\ Rest \in Seq(Stages) /\ Head(Rest) \in Quiet
  BY <1>1, Stands, ListsMove, QuietHeads, Zenon DEF Stage, Rest
<1>3. task.status \in Statuses /\ Rest \in Bare \cup Bound \cup Cleared \cup Beating
  BY <1>2, Zenon DEF IndInv, TypeOK, TypeTask, TaskShape, Holds, SameClass
<1>4. ASSUME TakeThen(task.status, Rest) PROVE IndInv'
  BY <1>1, <1>2, <1>3, <1>4, Takes, Zenon
<1>5. ASSUME Goes(Rest) PROVE IndInv'
  BY <1>1, <1>2, <1>3, <1>5, TurnsTo, Zenon
<1>6. TakeThen(task.status, Rest) \/ Goes(Rest)
  BY Names, Zenon DEF Decide, Goes
<1> QED
  BY <1>4, <1>5, <1>6, Zenon

LEMMA FinalizeStep == ASSUME IndInv, Finalize PROVE IndInv'
<1>1. Stage = "finalize" /\ Stage # "idle" /\ OnlyTask
  BY Zenon DEF Finalize, At, Stage
<1>2. /\ SameClass(task.todo, Rest) /\ SameClass(task.todo, Taking(Rest))
      /\ Rest \in Seq(Stages) /\ Head(Rest) \in Quiet
  BY <1>1, Stands, ListsMove, QuietHeads, Zenon DEF Stage, Rest
<1>3. Rest \in Bare \cup Bound \cup Cleared \cup Beating
  BY <1>2, Zenon DEF IndInv, TaskShape, Holds, SameClass
<1>4. ASSUME TakeThen("canceled", Rest) PROVE IndInv'
  BY <1>1, <1>2, <1>4, Names, Takes, Zenon
<1>5. ASSUME Goes(Rest) PROVE IndInv'
  BY <1>1, <1>2, <1>3, <1>5, TurnsTo, Zenon
<1>6. TakeThen("canceled", Rest) \/ Goes(Rest)
  BY Names, Zenon DEF Finalize, Goes, Do
<1> QED
  BY <1>4, <1>5, <1>6, Zenon

LEMMA ReceiveFailedStep == ASSUME IndInv, ReceiveFailed PROVE IndInv'
<1>1. Stage = "received" /\ OnlyTask
  BY Zenon DEF ReceiveFailed, Got, At, Stage
<1>2. TakeThen("error", Exit) \/ Leave(ReconnectNext, "error")
  BY Zenon DEF ReceiveFailed
<1> QED
  BY <1>1, <1>2, Names, Leaves, TakesAndLeaves, Zenon

LEMMA ReceivedReconnectStep == ASSUME IndInv, ReceivedReconnect PROVE IndInv'
<1>1. Stage = "received" /\ OnlyTask
  BY Zenon DEF ReceivedReconnect, Got, At, Stage
<1>2. \E n \in Nexts : Leave(n, "error")
  BY Names, Zenon DEF ReceivedReconnect
<1> QED
  BY <1>1, <1>2, Names, Leaves, Zenon

LEMMA AfterStep == ASSUME IndInv, After PROVE IndInv'
<1>1. Stage = "after" /\ Stage # "idle" /\ OnlyTaskOrEnd
  BY Zenon DEF After, At, Stage
<1>2. task.status \in Statuses
  BY Zenon DEF IndInv, TypeOK, TypeTask
<1>3. ASSUME NEW s \in Statuses, EndTask(s) PROVE IndInv'
  BY <1>1, <1>3, Ends, Zenon
<1>4. ASSUME UNCHANGED <<running, call>>, Goes(<<"backoff">>) PROVE IndInv'
  <2>1. SameClass(task.todo, <<"backoff">>) /\ <<"backoff">> \in Bare
    BY <1>1, Listed, ClassByHead, Zenon DEF Stage
  <2> QED
    BY <1>1, <1>4, <2>1, QuietHeads, TurnsTo, Zenon DEF OnlyTask
<1>5. \/ \E s \in Statuses : EndTask(s)
      \/ UNCHANGED <<running, call>> /\ Goes(<<"backoff">>)
  BY <1>2, Names, Zenon DEF After, Goes
<1> QED
  BY <1>3, <1>4, <1>5, Zenon

LEMMA BackoffStep == ASSUME IndInv, Backoff PROVE IndInv'
<1>1. Stage = "backoff" /\ Stage # "idle" /\ OnlyTaskOrEnd
  BY Zenon DEF Backoff, At, Stage
<1>2. task.status \in Statuses /\ <<"loop">> \in Bare /\ <<"loop">> \in Seq(Stages)
  BY Listed, BareLists, Zenon DEF IndInv, TypeOK, TypeTask
<1>3. ASSUME EndTask("ok") PROVE IndInv'
  BY <1>1, <1>3, Names, Ends, Zenon
<1>4. SameClass(task.todo, <<"loop">>) /\ SameClass(task.todo, Taking(<<"loop">>))
  BY <1>1, Listed, ClassByHead, Zenon DEF Stage
<1>5. ASSUME UNCHANGED <<running, call>>, Goes(<<"loop">>) PROVE IndInv'
  BY <1>1, <1>2, <1>4, <1>5, QuietHeads, TurnsTo, Zenon DEF OnlyTask
<1>6. ASSUME UNCHANGED <<running, call>>, TakeThen(task.status, <<"loop">>) PROVE IndInv'
  BY <1>1, <1>2, <1>4, <1>6, Takes, Zenon DEF OnlyTask
<1>7. \/ EndTask("ok")
      \/ UNCHANGED <<running, call>> /\ (Goes(<<"loop">>) \/ TakeThen(task.status, <<"loop">>))
  BY Zenon DEF Backoff, Goes, Do
<1> QED
  BY <1>3, <1>5, <1>6, <1>7, Zenon

-----------------------------------------------------------------------------
(* The other steps of the gateway task. *)

(* What a step keeps that neither drops nor gains a socket or a heartbeat. *)
LEMMA Steady ==
    ASSUME IndInv, TypeTask', TypeBeat', TypePeer', TypeSockets', Numbered',
           task'.ws = task.ws, SameClass(task.todo, task'.todo),
           (Head(task'.todo) # "idle") <=> (Stage # "idle"),
           hb' = hb \/ /\ hb'.pc = hb.pc /\ hb'.ws = hb.ws /\ hb'.refs = hb.refs
                       /\ hb # NoBeat,
           \A w \in Conns : ws'[w].refs = ws[w].refs,
           UNCHANGED <<flags, running, current_ws, call, env>>
    PROVE  TypeOK' /\ TaskShape' /\ CallShape' /\ RefsExact'
<1>1. UNCHANGED <<task_running, task_completed, last_status, stopping, stop_requested,
                  reconnect_requested, reconnect_resume, current_ws, call, env>>
  BY Zenon DEF running, flags
<1>2. hb'.ws = hb.ws
  BY Zenon
<1>3. TaskShape'
  <2>1. task_running' <=> Stage' # "idle"
    BY <1>1, Zenon DEF IndInv, TaskShape, Stage
  <2>2. CASE hb' = hb
    BY <1>1, <2>1, <2>2, Zenon DEF IndInv, TaskShape, Holds, SameClass
  <2>3. CASE /\ hb'.pc = hb.pc /\ hb'.ws = hb.ws /\ hb'.refs = hb.refs
             /\ hb # NoBeat
    BY <1>1, <2>1, <2>3, Zenon DEF IndInv, TaskShape, Holds, SameClass
  <2> QED
    BY <2>2, <2>3, Zenon
<1>4. RefsExact'
  BY <1>1, <1>2, RefsSame, Zenon DEF IndInv
<1>5. TypeFlags' /\ TypeCalls' /\ CallShape'
  <2>1. TypeFlags /\ TypeCalls /\ CallShape
    BY Zenon DEF IndInv, TypeOK
  <2>2. TypeFlags'
    BY <1>1, <2>1, Zenon DEF TypeFlags
  <2> QED
    BY <1>1, <2>1, <2>2, Zenon DEF TypeCalls, CallShape
<1> QED
  BY <1>3, <1>4, <1>5, Zenon DEF TypeOK

(* ... and one of the task alone that moves to the list d. *)
LEMMA SteadyTask ==
    ASSUME IndInv, NEW d, d \in Bare \cup Bound \cup Beating, TypeTask', task'.ws = task.ws,
           task'.todo = d, SameClass(task.todo, d), Head(d) # "idle", Stage # "idle", OnlyTask
    PROVE  /\ TypeOK' /\ TaskShape' /\ CallShape' /\ RefsExact' /\ Numbered'
           /\ Stage' = Head(d) /\ CanResume' = CanResume
           /\ UNCHANGED <<hb, peer, session, invalid, unstored>>
<1>1. UNCHANGED <<flags, running, current_ws, ws, hb, peer, session, conns, env, call,
                  invalid, unstored>>
  BY Zenon DEF OnlyTask, OnlyTaskOrEnd, ghosts
<1>2. TypeBeat' /\ TypeSockets'
  BY <1>1, Zenon DEF IndInv, TypeOK, TypeBeat, TypeSockets
<1>3. TypePeer'
  <2>1. TypePeer
    BY Zenon DEF IndInv, TypeOK
  <2> QED
    BY <1>1, <2>1, Zenon DEF TypePeer
<1>4. Numbered'
  BY <1>1, NumberedSame, Zenon DEF IndInv
<1>5. TypeOK' /\ TaskShape' /\ CallShape' /\ RefsExact'
  BY <1>1, <1>2, <1>3, <1>4, Steady, Zenon
<1>6. Stage' = Head(d) /\ CanResume' = CanResume
  BY <1>1, Zenon DEF Stage, CanResume
<1> QED
  BY <1>1, <1>4, <1>5, <1>6, Zenon

LEMMA PickStep == ASSUME IndInv, Pick PROVE IndInv'
<1>1. Stage = "pick" /\ Stage # "idle" /\ OnlyTaskOrEnd
  BY Zenon DEF Pick, At, Stage
<1>2. ASSUME EndTask("error") PROVE IndInv'
  BY <1>1, <1>2, Names, Ends, Zenon
<1>3. ASSUME NEW d \in {<<"slot_first">>, <<"connect">>}, UNCHANGED <<running, call>>,
             task' = [task EXCEPT !.resume = task.resume /\ CanResume, !.next = "FATAL",
                                  !.beat_failed = FALSE, !.todo = d],
             d = <<"slot_first">> => ~(task.resume /\ CanResume)
      PROVE  IndInv'
  <2>1. d \in Bare /\ Head(d) \in {"slot_first", "connect"}
    BY <1>3, Listed, Heads, Zenon
  <2>2. Goes(d)
    BY <1>3, Names, Zenon DEF Goes
  <2>3. SameClass(task.todo, d) /\ Head(d) # "idle" /\ OnlyTask
    BY <1>1, <1>3, <2>1, ClassByHead, Zenon DEF Stage, OnlyTask
  <2>4. TypeTask' /\ task'.ws = task.ws /\ task'.todo = d
    BY <2>1, <2>2, Goals, Zenon
  <2>5. /\ TypeOK' /\ TaskShape' /\ CallShape' /\ RefsExact' /\ Numbered'
        /\ Stage' = Head(d) /\ CanResume' = CanResume
        /\ UNCHANGED <<hb, peer, session, invalid, unstored>>
    BY <1>1, <2>1, <2>3, <2>4, SteadyTask, Zenon
  <2>6. task'.resume = (task.resume /\ CanResume)
    BY <1>3, Zenon DEF IndInv, TypeOK, TypeTask
  <2>7. AckShape' /\ GotShape'
    BY <2>1, <2>5, Zenon DEF AckShape, GotShape
  <2>8. Stage' = "slot_first" => d = <<"slot_first">>
    BY <1>3, <2>5, Heads, Zenon
  <2>9. SessionShape'
    <3>1. /\ Stage' \notin Receiving
          /\ Stage' \notin {"bind", "hello", "start_heartbeat", "slot_late", "send"}
      BY <2>1, <2>5, Zenon DEF Receiving
    <3>2. Stage' \in {"slot_first", "slot_late"} => ~task'.resume
      BY <1>3, <2>1, <2>5, <2>6, <2>8, Zenon
    <3> QED
      BY <2>4, <2>5, <2>6, <3>1, <3>2, SessionSame, Zenon DEF IndInv
  <2> QED
    BY <2>5, <2>7, <2>9, Zenon DEF IndInv
<1> QED
  BY <1>2, <1>3, Zenon DEF Pick

(* A step of the task alone to the stage d that goes on with the session. *)
LEMMA Proceeds ==
    ASSUME IndInv, NEW d, d \in Bare \cup Bound \cup Beating, task' = [task EXCEPT !.todo = d],
           SameClass(task.todo, d), Head(d) # "idle", Stage # "idle", OnlyTask,
           Head(d) \in Connecting /\ task.resume => CanResume,
           Head(d) \in {"slot_first", "slot_late"} => ~task.resume,
           Head(d) \in Receiving => Stage \in Receiving,
           Head(d) \in {"bind", "hello", "start_heartbeat", "slot_late", "send"} =>
              peer.phase = "none",
           Head(d) \in {"slot_late", "send", "recv_test", "recv", "received"} =>
              Stage \in {"slot_late", "send", "recv_test", "recv", "received"},
           Head(d) # "received"
    PROVE  IndInv'
<1>1. Goes(d)
  BY Zenon DEF Goes
<1>2. TypeTask' /\ task'.ws = task.ws /\ task'.todo = d
  BY <1>1, Goals, Zenon
<1>3. /\ TypeOK' /\ TaskShape' /\ CallShape' /\ RefsExact' /\ Numbered'
      /\ Stage' = Head(d) /\ CanResume' = CanResume
      /\ UNCHANGED <<hb, peer, session, invalid, unstored>>
  BY <1>2, SteadyTask, Zenon
<1>4. task'.resume = task.resume
  BY Zenon DEF IndInv, TypeOK, TypeTask
<1>5. AckShape' /\ GotShape'
  BY <1>3, Zenon DEF IndInv, AckShape, GotShape
<1>6. SessionShape'
  BY <1>2, <1>3, <1>4, SessionSame, Zenon DEF IndInv
<1> QED
  BY <1>3, <1>5, <1>6, Zenon DEF IndInv

LEMMA WaitSlotFirstStep == ASSUME IndInv, WaitSlotFirst PROVE IndInv'
<1>1. Stage = "slot_first" /\ Stage # "idle" /\ OnlyTask
  BY Zenon DEF WaitSlotFirst, At, Stage
<1>2. ASSUME task' = [task EXCEPT !.todo = <<"connect">>] PROVE IndInv'
  <2>1. <<"connect">> \in Bare /\ Head(<<"connect">>) = "connect"
    BY Listed, Heads, Zenon
  <2>2. SameClass(task.todo, <<"connect">>)
    BY <1>1, <2>1, ClassByHead, Zenon DEF Stage
  <2>3. ~task.resume
    BY <1>1, Zenon DEF IndInv, SessionShape
  <2>4. "connect" \notin Receiving
    BY Zenon DEF Receiving
  <2> QED
    BY <1>1, <1>2, <2>1, <2>2, <2>3, <2>4, Proceeds, Zenon
<1>3. ASSUME Goes(<<"after">>) PROVE IndInv'
  <2>1. SameClass(task.todo, <<"after">>) /\ <<"after">> \in Bare
    BY <1>1, Listed, ClassByHead, Zenon DEF Stage
  <2> QED
    BY <1>1, <1>3, <2>1, QuietHeads, TurnsTo, Zenon
<1>4. task' = [task EXCEPT !.todo = <<"connect">>] \/ Goes(<<"after">>)
  BY Names, Zenon DEF WaitSlotFirst, Do, Goes
<1> QED
  BY <1>2, <1>3, <1>4, Zenon

LEMMA ReadHelloStep == ASSUME IndInv, ReadHello PROVE IndInv'
<1>1. Stage = "hello" /\ Stage # "idle" /\ OnlyTask
  BY Zenon DEF ReadHello, At, Stage
<1>2. ASSUME task' = [task EXCEPT !.todo = <<"start_heartbeat">>] PROVE IndInv'
  <2>1. <<"start_heartbeat">> \in Bound /\ Head(<<"start_heartbeat">>) = "start_heartbeat"
    BY Listed, Heads, Zenon
  <2>2. SameClass(task.todo, <<"start_heartbeat">>)
    BY <1>1, <2>1, ClassByHead, Zenon DEF Stage
  <2>3. (task.resume => CanResume) /\ peer.phase = "none"
    BY <1>1, Zenon DEF IndInv, SessionShape, Connecting
  <2>4. "start_heartbeat" \notin Receiving
    BY Zenon DEF Receiving
  <2> QED
    BY <1>1, <1>2, <2>1, <2>2, <2>3, <2>4, Proceeds, Zenon
<1>3. ASSUME Goes(<<"decide", "clear_ws", "destroy_ws", "after">>) PROVE IndInv'
  <2>1. /\ SameClass(task.todo, <<"decide", "clear_ws", "destroy_ws", "after">>)
        /\ <<"decide", "clear_ws", "destroy_ws", "after">> \in Bound
    BY <1>1, Listed, ClassByHead, Zenon DEF Stage
  <2> QED
    BY <1>1, <1>3, <2>1, QuietHeads, TurnsTo, Zenon
<1>4. \/ task' = [task EXCEPT !.todo = <<"start_heartbeat">>]
      \/ Goes(<<"decide", "clear_ws", "destroy_ws", "after">>)
  BY Names, Zenon DEF ReadHello, Do, Goes
<1> QED
  BY <1>2, <1>3, <1>4, Zenon

LEMMA WaitSlotLateStep == ASSUME IndInv, WaitSlotLate PROVE IndInv'
<1>1. Stage = "slot_late" /\ Stage # "idle" /\ OnlyTask
  BY Zenon DEF WaitSlotLate, At, Stage
<1>2. ASSUME task' = [task EXCEPT !.todo = <<"send">>] PROVE IndInv'
  <2>1. <<"send">> \in Beating /\ Head(<<"send">>) = "send"
    BY Listed, Heads, Zenon
  <2>2. SameClass(task.todo, <<"send">>)
    BY <1>1, <2>1, ClassByHead, Zenon DEF Stage
  <2>3. ~task.resume /\ peer.phase = "none"
    BY <1>1, Zenon DEF IndInv, SessionShape
  <2>4. "send" \notin Receiving
    BY Zenon DEF Receiving
  <2> QED
    BY <1>1, <1>2, <2>1, <2>2, <2>3, <2>4, Proceeds, Zenon
<1>3. ASSUME Goes(GiveUp) PROVE IndInv'
  <2>1. SameClass(task.todo, GiveUp) /\ GiveUp \in Beating
    BY <1>1, Listed, ClassByHead, Zenon DEF Stage
  <2> QED
    BY <1>1, <1>3, <2>1, QuietHeads, TurnsTo, Zenon
<1>4. task' = [task EXCEPT !.todo = <<"send">>] \/ Goes(GiveUp)
  BY Names, Zenon DEF WaitSlotLate, Do, Goes
<1> QED
  BY <1>2, <1>3, <1>4, Zenon

LEMMA RecvTestStep == ASSUME IndInv, RecvTest PROVE IndInv'
<1>1. Stage = "recv_test" /\ Stage # "idle" /\ OnlyTask
  BY Zenon DEF RecvTest, At, Stage
<1>2. ASSUME task' = [task EXCEPT !.todo = <<"recv">>] PROVE IndInv'
  <2>1. <<"recv">> \in Beating /\ Head(<<"recv">>) = "recv"
    BY Listed, Heads, Zenon
  <2>2. SameClass(task.todo, <<"recv">>)
    BY <1>1, <2>1, ClassByHead, Zenon DEF Stage
  <2>3. "recv" \notin Connecting /\ Stage \in Receiving
    BY <1>1, Zenon DEF Receiving, Connecting
  <2> QED
    BY <1>1, <1>2, <2>1, <2>2, <2>3, Proceeds, Zenon
<1>3. ASSUME Goes(Exit) PROVE IndInv'
  <2>1. SameClass(task.todo, Exit) /\ Exit \in Beating
    BY <1>1, Listed, ClassByHead, Zenon DEF Stage
  <2> QED
    BY <1>1, <1>3, <2>1, QuietHeads, TurnsTo, Zenon
<1>4. task' = [task EXCEPT !.todo = <<"recv">>] \/ Goes(Exit)
  BY Names, Zenon DEF RecvTest, Do, Goes
<1> QED
  BY <1>2, <1>3, <1>4, Zenon

(* The task turns to leaving, and may have lost its session. *)
LEMMA Forgets ==
    ASSUME IndInv, TypeTask', TypeFlags', task'.ws = task.ws,
           SameClass(task.todo, task'.todo), Stage' \in Quiet, Stage # "idle",
           session' \in {session, NoSession},
           \/ invalid' = invalid
           \/ session' = NoSession /\ invalid' = invalid \cup ({peer.id} \ {NONE}),
           UNCHANGED <<task_running, current_ws, ws, hb, peer, call, env, conns, unstored>>
    PROVE  IndInv'
<1>1. Stage' # "idle"
  BY Zenon DEF Quiet, Winding
<1>2. TaskShape'
  BY <1>1, HoldsSame, Zenon DEF IndInv, Stage
<1>3. TypePeer /\ peer.id \in Conns \cup {NONE} /\ conns \in 0 .. MaxConns
  BY Zenon DEF IndInv, TypeOK, TypePeer, TypeSockets
<1>4. NoSession \in [id : Conns \cup {NONE}, seq : Conns \cup {NONE}, can : BOOLEAN]
  BY Zenon DEF NoSession
<1>5. TypePeer'
  BY <1>3, <1>4, Zenon DEF TypePeer
<1>6. Numbered'
  <2>1. NONE <= conns /\ NoSession.id = NONE
    BY <1>3, GatewayAssumption DEF NONE, NoSession
  <2>2. session'.id <= conns
    BY <2>1, Zenon DEF IndInv, Numbered
  <2>3. peer.id <= conns
    BY Zenon DEF IndInv, Numbered
  <2>4. peer.id # NONE => peer.id \in 1 .. conns
    BY <1>3, <2>3, GatewayAssumption DEF NONE, Conns
  <2>5. invalid' \subseteq 1 .. conns
    BY <2>4, Zenon DEF IndInv, Numbered
  <2> QED
    BY <2>2, <2>3, <2>5, Zenon DEF IndInv, Numbered
<1>7. RefsExact'
  BY RefsSame, Zenon DEF IndInv
<1>8. /\ Stage' \notin Connecting /\ Stage' \notin Receiving
      /\ Stage' \notin {"slot_first", "bind", "hello", "start_heartbeat", "slot_late", "send",
                        "recv_test", "recv", "received"}
  BY Zenon DEF Quiet, Winding, Connecting, Receiving
<1>9. AckShape' /\ GotShape'
  BY <1>8, Zenon DEF AckShape, GotShape
<1>10. SessionShape'
  <2>1. NoSession.can = FALSE /\ unstored' = unstored /\ peer' = peer
    BY Zenon DEF NoSession
  <2>2. CanResume' => session' = session /\ invalid' = invalid
    BY <2>1, Zenon DEF CanResume
  <2>3. CanResume' /\ ~unstored' => session'.seq = session'.id /\ session'.id \notin invalid'
    <3>1. CASE session' = session
      <4>1. CanResume' <=> CanResume
        BY <3>1, Zenon DEF CanResume
      <4>2. CanResume /\ ~unstored => session.seq = session.id /\ session.id \notin invalid
        BY Zenon DEF IndInv, SessionShape
      <4>3. ASSUME CanResume', ~unstored'
            PROVE  session'.seq = session'.id /\ session'.id \notin invalid'
        <5>1. ~unstored
          BY <2>1, <4>3
        <5>2. invalid' = invalid /\ CanResume
          BY <2>2, <4>1, <4>3, Zenon
        <5> QED
          BY <3>1, <4>2, <5>1, <5>2, Zenon
      <4> QED
        BY <4>3, Zenon
    <3> QED
      BY <2>2, <3>1, Zenon
  <2>4. peer'.phase \in {"none", "identify"} => peer'.id = NONE /\ task'.ws \notin invalid'
    <3>1. peer.phase \in {"none", "identify"} => peer.id = NONE /\ task.ws \notin invalid
      BY Zenon DEF IndInv, SessionShape
    <3>2. peer.id = NONE => (task.ws \in invalid' => task.ws \in invalid)
      BY Zenon
    <3> QED
      BY <2>1, <3>1, <3>2, Zenon
  <2> QED
    BY <1>8, <2>3, <2>4, Zenon DEF SessionShape
<1>11. TypeBeat' /\ TypeSockets' /\ TypeCalls' /\ CallShape'
  <2>1. TypeBeat /\ TypeSockets /\ TypeCalls /\ CallShape
    BY Zenon DEF IndInv, TypeOK
  <2> QED
    BY <2>1, Zenon DEF TypeBeat, TypeSockets, TypeCalls, CallShape
<1> QED
  BY <1>2, <1>5, <1>6, <1>7, <1>9, <1>10, <1>11, Zenon DEF IndInv, TypeOK

LEMMA TakeRequestedStep == ASSUME IndInv, TakeRequested PROVE IndInv'
<1>1. Stage = "take_requested" /\ Stage # "idle" /\ task' = [task EXCEPT !.todo = Rest]
  BY Zenon DEF TakeRequested, At, Stage, Do
<1>2. /\ UNCHANGED <<task_running, current_ws, ws, session, hb, peer, call, env, conns,
                     invalid, unstored>>
      /\ UNCHANGED <<stopping, stop_requested, reconnect_resume, task_completed, last_status>>
      /\ reconnect_requested' = FALSE
  BY Zenon DEF TakeRequested, running, ghosts
<1>3. SameClass(task.todo, Rest) /\ Rest \in Seq(Stages) /\ Head(Rest) \in Quiet
  BY <1>1, Stands, ListsMove, QuietHeads, Zenon DEF Stage, Rest
<1>4. TypeFlags'
  BY <1>2, Zenon DEF IndInv, TypeOK, TypeFlags
<1>5. TypeTask' /\ task'.ws = task.ws /\ task'.todo = Rest
  BY <1>1, <1>3, Zenon DEF IndInv, TypeOK, TypeTask
<1>6. Stage' \in Quiet
  BY <1>3, <1>5, Zenon DEF Stage
<1> QED
  BY <1>1, <1>2, <1>3, <1>4, <1>5, <1>6, Winds, Zenon

LEMMA TakeResumeStep == ASSUME IndInv, TakeResume PROVE IndInv'
<1>1. /\ Stage = "take_resume" /\ Stage # "idle"
      /\ task' = [task EXCEPT !.resume = task.taken, !.taken = FALSE,
                              !.next = IF task.taken THEN "RESUME" ELSE "IDENTIFY",
                              !.todo = Rest]
      /\ session' \in {session, NoSession}
  BY Zenon DEF TakeResume, At, Stage
<1>2. /\ UNCHANGED <<task_running, current_ws, ws, hb, peer, call, env, conns,
                     invalid, unstored>>
      /\ UNCHANGED <<stopping, stop_requested, reconnect_requested, task_completed, last_status>>
      /\ reconnect_resume' = FALSE
  BY Zenon DEF TakeResume, running, ghosts
<1>3. SameClass(task.todo, Rest) /\ Rest \in Seq(Stages) /\ Head(Rest) \in Quiet
  BY <1>1, Stands, ListsMove, QuietHeads, Zenon DEF Stage, Rest
<1>4. TypeFlags'
  BY <1>2, Zenon DEF IndInv, TypeOK, TypeFlags
<1>5. TypeTask' /\ task'.ws = task.ws /\ task'.todo = Rest
  <2>1. (IF task.taken THEN "RESUME" ELSE "IDENTIFY") \in Nexts
    BY Zenon DEF Nexts
  <2> QED
    BY <1>1, <1>3, <2>1, Zenon DEF IndInv, TypeOK, TypeTask
<1>6. Stage' \in Quiet
  BY <1>3, <1>5, Zenon DEF Stage
<1> QED
  BY <1>1, <1>2, <1>3, <1>4, <1>5, <1>6, Forgets, Zenon

(* A socket is aborted or kept. *)
LEMMA Aborts ==
    ASSUME TypeSockets, NEW w \in Conns \cup {NONE}
    PROVE  /\ Abort(ws, w) \in [Conns -> [refs : Nat, open : BOOLEAN]]
           /\ \A v \in Conns : Abort(ws, w)[v].refs = ws[v].refs
<1>1. ws \in [Conns -> [refs : Nat, open : BOOLEAN]]
  BY Zenon DEF TypeSockets
<1>2. CASE w = NONE
  BY <1>1, <1>2, Zenon DEF Abort
<1>3. CASE w # NONE
  <2>1. Abort(ws, w) = [ws EXCEPT ![w].open = FALSE] /\ w \in Conns
    BY <1>3, Zenon DEF Abort
  <2>2. [ws[w] EXCEPT !.open = FALSE] \in [refs : Nat, open : BOOLEAN]
    BY <1>1, <2>1, Zenon
  <2>3. \A v \in Conns : Abort(ws, w)[v].refs = ws[v].refs
    BY <1>1, <2>1, Zenon
  <2> QED
    BY <1>1, <2>1, <2>2, <2>3, Zenon
<1> QED
  BY <1>2, <1>3, Zenon

LEMMA BindWsStep == ASSUME IndInv, BindWs PROVE IndInv'
<1>1. /\ Stage = "bind" /\ Stage # "idle" /\ task' = [task EXCEPT !.todo = <<"hello">>]
      /\ current_ws' = task.ws /\ (ws' = ws \/ ws' = Abort(ws, task.ws))
      /\ UNCHANGED <<flags, running, session, hb, peer, call, env, conns, invalid, unstored>>
  BY Zenon DEF BindWs, At, Stage, Do, ghosts
<1>2. <<"hello">> \in Bound /\ Head(<<"hello">>) = "hello" /\ task.ws \in Conns /\ hb = NoBeat
  BY <1>1, Listed, Heads, Stands, Zenon
<1>3. Goes(<<"hello">>)
  BY <1>1, Zenon DEF Goes
<1>4. TypeTask' /\ task'.ws = task.ws /\ task'.todo = <<"hello">>
  BY <1>2, <1>3, Goals, Zenon
<1>5. Stage' = "hello" /\ task'.resume = task.resume
  BY <1>1, <1>2, <1>4, Zenon DEF Stage, IndInv, TypeOK, TypeTask
<1>6. /\ ws' \in [Conns -> [refs : Nat, open : BOOLEAN]]
      /\ \A w \in Conns : ws'[w].refs = ws[w].refs
  <2>1. TypeSockets
    BY Zenon DEF IndInv, TypeOK
  <2>2. CASE ws' = ws
    BY <2>1, <2>2, Zenon DEF TypeSockets
  <2>3. CASE ws' = Abort(ws, task.ws)
    BY <1>2, <2>1, <2>3, Aborts, Zenon
  <2> QED
    BY <1>1, <2>2, <2>3, Zenon
<1>7. TypeSockets'
  BY <1>1, <1>2, <1>6, Zenon DEF IndInv, TypeOK, TypeSockets
<1>8. TaskShape'
  <2>1. task_running' = task_running /\ hb' = NoBeat /\ task'.ws # NONE
    BY <1>1, <1>2, <1>4, GatewayAssumption, SMT DEF running, Conns, NONE
  <2> QED
    BY <1>1, <1>2, <1>4, <1>5, <2>1, Zenon DEF IndInv, TaskShape, Holds
<1>9. RefsExact' /\ Numbered'
  BY <1>1, <1>4, <1>6, RefsSame, NumberedSame, Zenon DEF IndInv
<1>10. SessionShape' /\ AckShape' /\ GotShape'
  <2>1. (task.resume => CanResume) /\ peer.phase = "none"
    BY <1>1, Zenon DEF IndInv, SessionShape, Connecting
  <2>2. Stage' \notin Receiving /\ Stage' \notin {"slot_first", "slot_late"}
    BY <1>5, Zenon DEF Receiving
  <2>3. SessionShape'
    BY <1>1, <1>4, <1>5, <2>1, <2>2, SessionSame, Zenon DEF IndInv
  <2> QED
    BY <1>5, <2>3, Zenon DEF AckShape, GotShape
<1>11. TypeFlags' /\ TypeBeat' /\ TypeCalls' /\ CallShape'
  <2>1. TypeFlags /\ TypeBeat /\ TypeCalls /\ CallShape
    BY Zenon DEF IndInv, TypeOK
  <2>2. TypeFlags'
    BY <1>1, <2>1, Zenon DEF TypeFlags, flags, running
  <2>3. TypeCalls' /\ CallShape'
    BY <1>1, <2>1, Zenon DEF TypeCalls, CallShape
  <2> QED
    BY <1>1, <2>1, <2>2, <2>3, Zenon DEF TypeBeat
<1>12. TypePeer'
  <2>1. TypePeer
    BY Zenon DEF IndInv, TypeOK
  <2> QED
    BY <1>1, <2>1, Zenon DEF TypePeer
<1> QED
  BY <1>4, <1>7, <1>8, <1>9, <1>10, <1>11, <1>12, Zenon DEF IndInv, TypeOK

(* dcc_ws_connect: a socket nobody has used, and one reference to it. *)
LEMMA ConnectStep == ASSUME CountLaws, IndInv, Connect PROVE IndInv'
<1>1. /\ Stage = "connect" /\ Stage # "idle"
      /\ UNCHANGED <<flags, running, current_ws, session, hb, call, env, invalid, unstored>>
  BY Zenon DEF Connect, At, Stage, ghosts
<1>2. task.ws = NONE /\ current_ws = NONE /\ hb = NoBeat /\ hb.ws = NONE
  <2>1. NoBeat.ws = NONE
    BY Zenon DEF NoBeat
  <2> QED
    BY <1>1, <2>1, Stands, Zenon
<1>3. ASSUME Goes(<<"after">>), UNCHANGED <<ws, peer, conns>> PROVE IndInv'
  <2>1. SameClass(task.todo, <<"after">>) /\ <<"after">> \in Bare
    BY <1>1, Listed, ClassByHead, Zenon DEF Stage
  <2>2. OnlyTask
    BY <1>1, <1>3, Zenon DEF OnlyTask, OnlyTaskOrEnd, ghosts
  <2> QED
    BY <1>1, <1>3, <2>1, <2>2, QuietHeads, TurnsTo, Zenon
<1>4. ASSUME conns < env.conns, conns' = conns + 1, peer' = NoPeer,
             ws' = [ws EXCEPT ![conns'] = [refs |-> 1, open |-> TRUE]],
             task' = [task EXCEPT !.ws = conns', !.todo = <<"bind">>]
      PROVE  IndInv'
  <2>1. conns \in 0 .. MaxConns /\ env.conns \in 0 .. MaxConns /\ MaxConns \in Nat
    BY GatewayAssumption, Zenon DEF IndInv, TypeOK, TypeSockets, TypeCalls, Environment
  <2>2. conns' \in Conns /\ conns' \in 0 .. MaxConns /\ conns' # NONE /\ ~(conns' <= conns)
    BY <1>4, <2>1 DEF Conns, NONE
  <2>3. \A n \in Conns \cup {NONE} : n <= conns => n <= conns' /\ n # conns'
    BY <1>4, <2>1 DEF Conns, NONE
  <2>4. /\ <<"bind">> \in Bound /\ Head(<<"bind">>) = "bind" /\ <<"bind">> \in Seq(Stages)
        /\ TypeTask /\ TypeSockets /\ TypeCalls /\ TypePeer
    BY Listed, Heads, BoundLists, Zenon DEF IndInv, TypeOK
  <2>5. /\ TypeTask' /\ task'.ws = conns' /\ task'.todo = <<"bind">>
        /\ task'.resume = task.resume
    BY <1>4, <2>2, <2>4, Zenon DEF TypeTask
  <2>6. Stage' = "bind"
    BY <2>4, <2>5, Zenon DEF Stage
  <2>7. /\ ws' \in [Conns -> [refs : Nat, open : BOOLEAN]]
        /\ ws'[conns'].refs = 1
        /\ \A w \in Conns : w # conns' => ws'[w] = ws[w]
    <3>1. [refs |-> 1, open |-> TRUE] \in [refs : Nat, open : BOOLEAN]
      OBVIOUS
    <3>2. [refs |-> 1, open |-> TRUE].refs = 1
      OBVIOUS
    <3> QED
      BY <1>4, <2>2, <2>4, <3>1, <3>2, Zenon DEF TypeSockets
  <2>8. TypeSockets'
    BY <1>1, <2>2, <2>4, <2>7, Zenon DEF TypeSockets
  <2>9. TypePeer' /\ peer'.id = NONE /\ peer'.phase = "none"
    <3>1. NoPeer \in [phase : {"none", "identify", "resume", "live"},
                      id : Conns \cup {NONE}, owed : Nat]
      BY DEF NoPeer
    <3>2. NoPeer.id = NONE /\ NoPeer.phase = "none"
      BY DEF NoPeer
    <3> QED
      BY <1>1, <1>4, <2>4, <3>1, <3>2, Zenon DEF TypePeer
  <2>10. TaskShape'
    <3>1. task_running' <=> task_running
      BY <1>1, Zenon DEF running
    <3> QED
      BY <1>1, <1>2, <2>2, <2>4, <2>5, <2>6, <3>1, Zenon DEF IndInv, TaskShape, Holds
  <2>11. Numbered'
    <3>1. NONE <= conns' /\ conns' <= conns'
      BY <1>4, <2>1 DEF NONE
    <3>2. session'.id <= conns'
      BY <1>1, <2>3, <2>4, Zenon DEF IndInv, Numbered, TypePeer
    <3>3. \A t \in Threads : call'[t].ws <= conns'
      BY <1>1, <2>3, <2>4, Zenon DEF IndInv, Numbered, TypeCalls
    <3>4. 1 .. conns \subseteq 1 .. conns'
      BY <1>4, <2>1
    <3>5. invalid' \subseteq 1 .. conns'
      BY <1>1, <3>4, Zenon DEF IndInv, Numbered
    <3> QED
      BY <2>5, <2>9, <3>1, <3>2, <3>3, <3>5, Zenon DEF Numbered
  <2>12. RefsExact'
    <3>1. \A t \in Threads : call[t].ws # conns'
      BY <2>3, <2>4, Zenon DEF IndInv, Numbered, TypeCalls
    <3>2. \A w \in Conns : Users(w)' = Users(w)
      BY <1>1, Zenon DEF Users
    <3>3. \A w \in Conns : w # NONE
      BY <2>1 DEF Conns, NONE
    <3>4. ASSUME NEW w \in Conns, w # conns'
          PROVE  IsFiniteSet(Users(w)') /\
                 ws'[w].refs = Count(task'.ws = w) + Count(hb'.ws = w) + Cardinality(Users(w)')
      <4>1. /\ IsFiniteSet(Users(w))
            /\ ws[w].refs = Count(task.ws = w) + Count(hb.ws = w) + Cardinality(Users(w))
        BY Zenon DEF IndInv, RefsExact
      <4>2. Count(task'.ws = w) = Count(task.ws = w) /\ Count(hb'.ws = w) = Count(hb.ws = w)
        BY <1>1, <1>2, <2>5, <3>3, <3>4, Zenon DEF Count
      <4>3. Users(w)' = Users(w) /\ ws'[w] = ws[w]
        BY <2>7, <3>2, <3>4, Zenon
      <4> QED
        BY <4>1, <4>2, <4>3, Zenon
    <3>5. PICK c \in Conns : c = conns'
      BY <2>2, Zenon
    <3>6. /\ IsFiniteSet(Users(c)')
          /\ ws'[c].refs = Count(task'.ws = c) + Count(hb'.ws = c) + Cardinality(Users(c)')
      <4>1. Users(c)' = Users(c) /\ IsFiniteSet(Users(c))
        BY <3>2, Zenon DEF IndInv, RefsExact
      <4>2. Users(c) = {}
        BY <3>1, <3>5, Zenon DEF Users
      <4>3. Cardinality(Users(c)') = 0
        BY <4>1, <4>2, EmptyCount, Zenon
      <4>4. Count(task'.ws = c) = 1 /\ Count(hb'.ws = c) = 0
        BY <1>1, <1>2, <2>2, <2>5, <3>5, Zenon DEF Count
      <4> QED
        BY <2>7, <3>5, <4>1, <4>3, <4>4
    <3>7. ASSUME NEW w \in Conns
          PROVE  (/\ IsFiniteSet(Users(w))
                  /\ ws[w].refs = Count(task.ws = w) + Count(hb.ws = w) + Cardinality(Users(w)))'
      BY <3>4, <3>5, <3>6, Zenon
    <3> QED
      BY <3>7, Zenon DEF RefsExact
  <2>13. SessionShape' /\ AckShape' /\ GotShape'
    <3>1. CanResume' <=> CanResume
      BY <1>1, Zenon DEF CanResume
    <3>2. CanResume' /\ ~unstored' => session'.seq = session'.id /\ session'.id \notin invalid'
      BY <1>1, <3>1, Zenon DEF IndInv, SessionShape
    <3>3. task'.resume => CanResume'
      BY <1>1, <2>5, <3>1, Zenon DEF IndInv, SessionShape, Connecting
    <3>4. Stage' \notin Receiving
      BY <2>6, Zenon DEF Receiving
    <3>5. task'.ws \notin invalid'
      <4>1. conns' \notin 1 .. conns
        BY <1>4, <2>1
      <4> QED
        BY <1>1, <2>5, <4>1, Zenon DEF IndInv, Numbered
    <3>6. SessionShape'
      BY <2>6, <2>9, <3>2, <3>3, <3>4, <3>5, Zenon DEF SessionShape
    <3> QED
      BY <2>6, <3>6, Zenon DEF AckShape, GotShape
  <2>14. TypeFlags' /\ TypeBeat' /\ TypeCalls' /\ CallShape'
    <3>1. TypeFlags /\ TypeBeat /\ TypeCalls /\ CallShape
      BY Zenon DEF IndInv, TypeOK
    <3>2. TypeFlags'
      BY <1>1, <3>1, Zenon DEF TypeFlags, flags, running
    <3>3. TypeCalls' /\ CallShape'
      BY <1>1, <3>1, Zenon DEF TypeCalls, CallShape
    <3> QED
      BY <1>1, <3>1, <3>2, <3>3, Zenon DEF TypeBeat
  <2> QED
    BY <2>5, <2>8, <2>9, <2>10, <2>11, <2>12, <2>13, <2>14, Zenon DEF IndInv, TypeOK
<1>5. ReconnectNext \in Nexts /\ "error" \in Statuses
  BY Names, Zenon
<1> QED
  BY <1>3, <1>4, <1>5, Zenon DEF Connect, Goes

(* The heartbeat state takes its own reference to the socket. *)
LEMMA StartHeartbeatStep == ASSUME CountLaws, IndInv, StartHeartbeat PROVE IndInv'
<1>1. /\ Stage = "start_heartbeat" /\ Stage # "idle"
      /\ UNCHANGED <<flags, running, current_ws, session, peer, call, env, conns, invalid,
                     unstored>>
  BY Zenon DEF StartHeartbeat, At, Stage, ghosts
<1>2. task.ws \in Conns /\ current_ws \in {NONE, task.ws} /\ hb = NoBeat
  BY <1>1, Stands, Zenon
<1>3. ASSUME Goes(<<"clear_ws", "destroy_ws", "after">>), UNCHANGED <<ws, hb>> PROVE IndInv'
  <2>1. /\ SameClass(task.todo, <<"clear_ws", "destroy_ws", "after">>)
        /\ <<"clear_ws", "destroy_ws", "after">> \in Bound
    BY <1>1, Listed, ClassByHead, Zenon DEF Stage
  <2>2. OnlyTask
    BY <1>1, <1>3, Zenon DEF OnlyTask, OnlyTaskOrEnd, ghosts
  <2> QED
    BY <1>1, <1>3, <2>1, <2>2, QuietHeads, TurnsTo, Zenon
<1>4. ASSUME NEW d \in {<<"slot_late">>, <<"send">>}, d = <<"slot_late">> => ~task.resume,
             ws' = Retained(ws, task.ws),
             hb' = [NoBeat EXCEPT !.pc = "sleep", !.refs = 2, !.ws = task.ws],
             task' = [task EXCEPT !.todo = d]
      PROVE  IndInv'
  <2>1. d \in Beating /\ Head(d) \in {"slot_late", "send"} /\ Goes(d)
    BY <1>4, Listed, Heads, Zenon DEF Goes
  <2>2. TypeTask' /\ task'.ws = task.ws /\ task'.todo = d
    BY <2>1, Goals, Zenon
  <2>3. task'.resume = task.resume /\ Stage' = Head(d)
    BY <1>4, <2>2, Zenon DEF Stage, IndInv, TypeOK, TypeTask
  <2>4. Stage' = "slot_late" => ~task'.resume
    BY <1>4, <2>3, Heads, Zenon
  <2>5. TypeSockets /\ TypePeer
    BY Zenon DEF IndInv, TypeOK
  <2>6. /\ ws' \in [Conns -> [refs : Nat, open : BOOLEAN]]
        /\ ws'[task.ws].refs = ws[task.ws].refs + 1
        /\ \A w \in Conns : w # task.ws => ws'[w] = ws[w]
    <3>1. ws' = [ws EXCEPT ![task.ws].refs = @ + 1]
      BY <1>4, Zenon DEF Retained
    <3>2. ws \in [Conns -> [refs : Nat, open : BOOLEAN]]
      BY <2>5, Zenon DEF TypeSockets
    <3> QED
      BY <1>2, <3>1, <3>2
  <2>7. TypeSockets'
    BY <1>1, <2>5, <2>6, Zenon DEF TypeSockets
  <2>8. /\ TypeBeat' /\ hb'.pc = "sleep" /\ hb'.ws = task.ws /\ hb'.refs = 2
        /\ hb'.waiting_ack = FALSE
    <3>1. hb' = [pc |-> "sleep", stop |-> FALSE, waiting_ack |-> FALSE, failed |-> FALSE,
                 refs |-> 2, ws |-> task.ws]
      BY <1>4, Zenon DEF NoBeat
    <3>2. 2 \in 0 .. 2
      OBVIOUS
    <3> QED
      BY <1>2, <3>1, <3>2, Zenon DEF TypeBeat
  <2>9. TaskShape'
    <3>1. task_running' <=> task_running
      BY <1>1, Zenon DEF running
    <3>2. task.ws # NONE
      BY <1>2, GatewayAssumption DEF Conns, NONE
    <3>3. Stage' # "idle" /\ hb'.pc # "none" /\ hb'.pc # "done"
      BY <2>1, <2>3, <2>8, Zenon
    <3> QED
      BY <1>1, <1>2, <2>1, <2>2, <2>8, <3>1, <3>2, <3>3, Zenon DEF IndInv, TaskShape, Holds
  <2>10. Numbered'
    BY <1>1, <2>2, NumberedSame, Zenon DEF IndInv
  <2>11. RefsExact'
    <3>1. \A w \in Conns : Users(w)' = Users(w)
      BY <1>1, Zenon DEF Users
    <3>2. hb.ws = NONE
      BY <1>2 DEF NoBeat
    <3>3. ASSUME NEW w \in Conns
          PROVE  (/\ IsFiniteSet(Users(w))
                  /\ ws[w].refs = Count(task.ws = w) + Count(hb.ws = w) + Cardinality(Users(w)))'
      <4>1. /\ IsFiniteSet(Users(w))
            /\ ws[w].refs = Count(task.ws = w) + Count(hb.ws = w) + Cardinality(Users(w))
        BY Zenon DEF IndInv, RefsExact
      <4>2. Users(w)' = Users(w) /\ w # NONE
        BY <3>1, GatewayAssumption DEF Conns, NONE
      <4>3. CASE w # task.ws
        <5>1. Count(task'.ws = w) = Count(task.ws = w) /\ Count(hb'.ws = w) = Count(hb.ws = w)
          BY <2>2, <2>8, <3>2, <4>2, <4>3, Zenon DEF Count
        <5> QED
          BY <2>6, <4>1, <4>2, <4>3, <5>1, Zenon
      <4>4. CASE w = task.ws
        <5>1. /\ Count(task'.ws = w) = 1 /\ Count(task.ws = w) = 1
              /\ Count(hb'.ws = w) = 1 /\ Count(hb.ws = w) = 0
          BY <2>2, <2>8, <3>2, <4>2, <4>4, Zenon DEF Count
        <5>2. Cardinality(Users(w)) \in Nat
          BY <4>1, FiniteCount, Zenon
        <5> QED
          BY <2>6, <4>1, <4>2, <4>4, <5>1, <5>2
      <4> QED
        BY <4>3, <4>4, Zenon
    <3> QED
      BY <3>3, Zenon DEF RefsExact
  <2>12. SessionShape' /\ AckShape' /\ GotShape'
    <3>1. (task.resume => CanResume) /\ peer.phase = "none"
      BY <1>1, Zenon DEF IndInv, SessionShape, Connecting
    <3>2. Stage' \notin Receiving /\ Stage' \notin {"received", "slot_first"}
      BY <2>1, <2>3, Zenon DEF Receiving
    <3>3. SessionShape'
      BY <1>1, <2>2, <2>3, <2>4, <3>1, <3>2, SessionSame, Zenon DEF IndInv
    <3>4. ~hb'.waiting_ack
      BY <2>8, Zenon
    <3> QED
      BY <3>2, <3>3, <3>4, Zenon DEF AckShape, GotShape
  <2>13. TypeFlags' /\ TypeCalls' /\ CallShape'
    <3>1. TypeFlags /\ TypeCalls /\ CallShape
      BY Zenon DEF IndInv, TypeOK
    <3>2. TypeFlags'
      BY <1>1, <3>1, Zenon DEF TypeFlags, flags, running
    <3> QED
      BY <1>1, <3>1, <3>2, Zenon DEF TypeCalls, CallShape
  <2>14. TypePeer'
    BY <1>1, <2>5, Zenon DEF TypePeer
  <2> QED
    BY <2>2, <2>7, <2>8, <2>9, <2>10, <2>11, <2>12, <2>13, <2>14, Zenon DEF IndInv, TypeOK
<1>5. \/ Goes(<<"clear_ws", "destroy_ws", "after">>) /\ UNCHANGED <<ws, hb>>
      \/ \E d \in {<<"slot_late">>, <<"send">>} :
            /\ d = <<"slot_late">> => ~task.resume
            /\ ws' = Retained(ws, task.ws)
            /\ hb' = [NoBeat EXCEPT !.pc = "sleep", !.refs = 2, !.ws = task.ws]
            /\ task' = [task EXCEPT !.todo = d]
  <2>1. <<"slot_late">> # <<"send">>
    BY Heads, Zenon
  <2>2. CASE ~task.resume /\ ~env.clustered
    BY <2>1, <2>2, Names, Zenon DEF StartHeartbeat, Goes, Do
  <2>3. CASE ~(~task.resume /\ ~env.clustered)
    BY <2>1, <2>3, Names, Zenon DEF StartHeartbeat, Goes, Do
  <2> QED
    BY <2>2, <2>3, Zenon
<1> QED
  BY <1>3, <1>4, <1>5, Zenon

-----------------------------------------------------------------------------
(* The receive loop. *)

(* A step that talks to Discord keeps what the task holds. *)
LEMMA Hears ==
    ASSUME IndInv, NEW d \in Beating, TypeTask', task'.ws = task.ws, task'.todo = d,
           Stage \in {"send", "recv", "received", "answer", "stop_heartbeat"},
           Head(d) # "idle", TypeBeat', hb'.pc = hb.pc, hb'.ws = hb.ws, hb'.refs = hb.refs,
           TypePeer', peer'.id <= conns, session'.id <= conns,
           ws' \in [Conns -> [refs : Nat, open : BOOLEAN]],
           \A w \in Conns : ws'[w].refs = ws[w].refs,
           UNCHANGED <<flags, running, current_ws, call, env, conns, invalid>>
    PROVE  TypeOK' /\ TaskShape' /\ CallShape' /\ RefsExact' /\ Numbered' /\ Stage' = Head(d)
<1>1. hb.pc # "none" /\ task.todo \in Beating /\ NoBeat.pc = "none"
  BY Stands, Zenon DEF NoBeat
<1>2. hb # NoBeat
  BY <1>1, Zenon
<1>3. SameClass(task.todo, d)
  BY ClassByHead, Zenon DEF Stage
<1>4. TypeSockets'
  BY Zenon DEF IndInv, TypeOK, TypeSockets
<1>5. Numbered'
  BY Zenon DEF IndInv, Numbered
<1>6. Stage' = Head(d) /\ Stage # "idle"
  BY Zenon DEF Stage
<1>7. (Head(task'.todo) # "idle") <=> (Stage # "idle")
  BY <1>6, Zenon
<1>8. TypeOK' /\ TaskShape' /\ CallShape' /\ RefsExact'
  BY <1>2, <1>3, <1>4, <1>5, <1>7, Steady, Zenon
<1> QED
  BY <1>5, <1>6, <1>8, Zenon

LEMMA SendIdentityStep == ASSUME IndInv, SendIdentity PROVE IndInv'
<1>1. /\ Stage = "send" /\ Stage # "idle"
      /\ UNCHANGED <<flags, running, current_ws, ws, session, hb, call, env, conns, invalid,
                     unstored>>
  BY Zenon DEF SendIdentity, At, Stage, ghosts
<1>2. ASSUME Goes(GiveUp), UNCHANGED peer PROVE IndInv'
  <2>1. SameClass(task.todo, GiveUp) /\ GiveUp \in Beating
    BY <1>1, Listed, ClassByHead, Zenon DEF Stage
  <2>2. OnlyTask
    BY <1>1, <1>2, Zenon DEF OnlyTask, OnlyTaskOrEnd, ghosts
  <2> QED
    BY <1>1, <1>2, <2>1, <2>2, QuietHeads, TurnsTo, Zenon
<1>3. ASSUME task' = [task EXCEPT !.todo = <<"recv_test">>],
             peer' = IF task.resume
                     THEN [peer EXCEPT !.phase = "resume", !.id = session.id]
                     ELSE [peer EXCEPT !.phase = "identify", !.id = NONE]
      PROVE  IndInv'
  <2>1. /\ <<"recv_test">> \in Beating /\ Head(<<"recv_test">>) = "recv_test"
        /\ Goes(<<"recv_test">>)
    BY <1>3, Listed, Heads, Zenon DEF Goes
  <2>2. TypeTask' /\ task'.ws = task.ws /\ task'.todo = <<"recv_test">>
    BY <2>1, Goals, Zenon
  <2>3. /\ TypePeer /\ TypeBeat /\ TypeSockets /\ TypeTask
        /\ peer \in [phase : {"none", "identify", "resume", "live"},
                     id : Conns \cup {NONE}, owed : Nat]
        /\ session \in [id : Conns \cup {NONE}, seq : Conns \cup {NONE}, can : BOOLEAN]
        /\ conns \in 0 .. MaxConns /\ session.id <= conns
    BY Zenon DEF IndInv, TypeOK, TypePeer, TypeSockets, Numbered
  <2>4. /\ peer' \in [phase : {"none", "identify", "resume", "live"},
                      id : Conns \cup {NONE}, owed : Nat]
        /\ peer'.owed = peer.owed
        /\ peer'.phase = (IF task.resume THEN "resume" ELSE "identify")
        /\ peer'.id = (IF task.resume THEN session.id ELSE NONE)
    <3>1. CASE task.resume
      BY <1>3, <2>3, <3>1, Zenon
    <3>2. CASE ~task.resume
      BY <1>3, <2>3, <3>2, Zenon
    <3> QED
      BY <3>1, <3>2, Zenon
  <2>5. TypePeer'
    BY <1>1, <2>3, <2>4, Zenon DEF TypePeer
  <2>6. peer'.id <= conns
    <3>1. NONE <= conns
      BY <2>3, GatewayAssumption DEF NONE
    <3> QED
      BY <2>3, <2>4, <3>1, Zenon
  <2>7. TypeOK' /\ TaskShape' /\ CallShape' /\ RefsExact' /\ Numbered' /\ Stage' = "recv_test"
    <3>1. TypeBeat' /\ ws' \in [Conns -> [refs : Nat, open : BOOLEAN]]
      BY <1>1, <2>3, Zenon DEF TypeBeat, TypeSockets
    <3> QED
      BY <1>1, <2>1, <2>2, <2>3, <2>5, <2>6, <3>1, Hears, Zenon
  <2>8. AckShape' /\ GotShape'
    <3>1. hb.waiting_ack /\ ~hb.failed => peer.owed > 0 \/ hb.pc = "send"
      BY <1>1, Zenon DEF IndInv, AckShape
    <3> QED
      BY <1>1, <2>4, <2>7, <3>1, Zenon DEF AckShape, GotShape
  <2>9. SessionShape'
    <3>1. CanResume' <=> CanResume
      BY <1>1, Zenon DEF CanResume
    <3>2. CanResume' /\ ~unstored' => session'.seq = session'.id /\ session'.id \notin invalid'
      BY <1>1, <3>1, Zenon DEF IndInv, SessionShape
    <3>3. (task.resume => CanResume) /\ task.ws \notin invalid
      BY <1>1, Zenon DEF IndInv, SessionShape, Connecting
    <3>4. /\ Stage' \notin Connecting
          /\ Stage' \notin {"slot_first", "bind", "hello", "start_heartbeat", "slot_late", "send"}
      BY <2>7, Zenon DEF Connecting
    <3>5. CASE task.resume
      <4>1. peer'.phase = "resume" /\ peer'.id = session'.id /\ CanResume'
        BY <1>1, <2>4, <3>1, <3>3, <3>5, Zenon
      <4> QED
        BY <3>2, <3>4, <4>1, Zenon DEF SessionShape
    <3>6. CASE ~task.resume
      <4>1. peer'.phase = "identify" /\ peer'.id = NONE /\ task'.ws \notin invalid'
        BY <1>1, <2>2, <2>4, <3>3, <3>6, Zenon
      <4> QED
        BY <3>2, <3>4, <4>1, Zenon DEF SessionShape
    <3> QED
      BY <3>5, <3>6, Zenon
  <2> QED
    BY <2>7, <2>8, <2>9, Zenon DEF IndInv
<1>4. \/ Goes(GiveUp) /\ UNCHANGED peer
      \/ /\ task' = [task EXCEPT !.todo = <<"recv_test">>]
         /\ peer' = IF task.resume
                    THEN [peer EXCEPT !.phase = "resume", !.id = session.id]
                    ELSE [peer EXCEPT !.phase = "identify", !.id = NONE]
  BY Names, Zenon DEF SendIdentity, Goes, Do
<1> QED
  BY <1>2, <1>3, <1>4, Zenon

(* dcc_ws_recv returns what Discord may have sent, or an error. *)
LEMMA ReceiveStep ==
    ASSUME IndInv, NEW got \in Receipts, Receive(got),
           got \in Messages \cup Closes \cup {"error"}
    PROVE  IndInv'
<1>1. /\ Stage = "recv" /\ Stage # "idle"
      /\ task' = [task EXCEPT !.got = got, !.todo = <<"received">>]
      /\ ws' = ws \/ ws' = Abort(ws, task.ws)
      /\ UNCHANGED <<flags, running, current_ws, session, hb, peer, call, env, conns, invalid,
                     unstored>>
  BY Zenon DEF Receive, At, Stage, ghosts
<1>2. /\ <<"received">> \in Beating /\ <<"received">> \in Seq(Stages)
      /\ Head(<<"received">>) = "received"
  BY Listed, Heads, BeatingLists, Zenon
<1>3. TypePeer /\ TypeBeat /\ TypeSockets /\ TypeTask /\ peer.id <= conns /\ session.id <= conns
  BY Zenon DEF IndInv, TypeOK, Numbered
<1>4. TypeTask' /\ task'.ws = task.ws /\ task'.todo = <<"received">> /\ task'.got = got
  BY <1>1, <1>2, <1>3, Zenon DEF TypeTask
<1>5. /\ ws' \in [Conns -> [refs : Nat, open : BOOLEAN]]
      /\ \A w \in Conns : ws'[w].refs = ws[w].refs
  <2>1. task.ws \in Conns
    BY <1>1, Stands, Zenon
  <2>2. CASE ws' = ws
    BY <1>3, <2>2, Zenon DEF TypeSockets
  <2>3. CASE ws' = Abort(ws, task.ws)
    BY <1>3, <2>1, <2>3, Aborts, Zenon
  <2> QED
    BY <1>1, <2>2, <2>3, Zenon
<1>6. TypeOK' /\ TaskShape' /\ CallShape' /\ RefsExact' /\ Numbered' /\ Stage' = "received"
  <2>1. TypeBeat' /\ TypePeer'
    <3>1. TypeBeat'
      BY <1>1, <1>3, Zenon DEF TypeBeat
    <3> QED
      BY <1>1, <1>3, <3>1, Zenon DEF TypePeer
  <2> QED
    BY <1>1, <1>2, <1>3, <1>4, <1>5, <2>1, Hears, Zenon
<1>7. AckShape' /\ SessionShape'
  <2>1. Stage \in Receiving /\ Stage' \notin Connecting
    BY <1>1, <1>6, Zenon DEF Receiving, Connecting
  <2>2. SessionShape'
    BY <1>1, <1>4, <1>6, <2>1, SessionSame, Zenon DEF IndInv
  <2>3. hb.waiting_ack /\ ~hb.failed => peer.owed > 0 \/ hb.pc = "send"
    BY <1>1, Zenon DEF IndInv, AckShape
  <2> QED
    BY <1>1, <2>2, <2>3, Zenon DEF AckShape
<1>8. GotShape'
  <2>1. peer.phase \in {"identify", "resume", "live"}
    BY <1>1, Zenon DEF IndInv, SessionShape, Receiving, TypeOK, TypePeer
  <2>2. /\ got = "ready" => peer.phase = "identify"
        /\ got = "event" => peer.phase \in {"resume", "live"}
        /\ got = "resumed" => peer.phase = "resume"
        /\ got = "ack" => peer.owed > 0
    <3>1. CASE peer.phase = "identify"
      BY <3>1, Zenon DEF Messages, Closes
    <3>2. CASE peer.phase = "resume"
      BY <3>2, Zenon DEF Messages, Closes
    <3>3. CASE peer.phase = "live"
      BY <3>3, Zenon DEF Messages, Closes
    <3> QED
      BY <2>1, <3>1, <3>2, <3>3, Zenon
  <2> QED
    BY <1>1, <1>4, <2>2, Zenon DEF GotShape
<1> QED
  BY <1>6, <1>7, <1>8, Zenon DEF IndInv

LEMMA RecvClosedStep == ASSUME IndInv, RecvClosed PROVE IndInv'
<1>1. "error" \in Receipts /\ "error" \in Messages \cup Closes \cup {"error"}
  BY Zenon DEF Receipts
<1> QED
  BY <1>1, ReceiveStep, Zenon DEF RecvClosed

LEMMA RecvOpenStep == ASSUME IndInv, RecvOpen PROVE IndInv'
<1>1. PICK got \in Messages \cup Closes \cup {"error"} : Receive(got)
  BY Zenon DEF RecvOpen
<1>2. Messages \subseteq Receipts
  <2>1. (CASE peer.phase = "identify" -> {"ready"}
           [] peer.phase = "resume" -> {"event", "resumed"}
           [] OTHER -> {"event"}) \subseteq {"ready", "event", "resumed"}
    <3>1. CASE peer.phase = "identify"
      BY <3>1, Zenon
    <3>2. CASE peer.phase = "resume"
      BY <3>2, Zenon
    <3>3. CASE peer.phase # "identify" /\ peer.phase # "resume"
      BY <3>3, Zenon
    <3> QED
      BY <3>1, <3>2, <3>3, Zenon
  <2>2. (IF peer.owed > 0 THEN {"ack"} ELSE {}) \subseteq {"ack"}
    BY Zenon
  <2> QED
    BY <2>1, <2>2, Zenon DEF Messages, Receipts
<1>3. got \in Receipts
  BY <1>2, Zenon DEF Receipts
<1> QED
  BY <1>1, <1>3, ReceiveStep, Zenon

(* The receive loop is left without the session. *)
LEMMA LeavesWithout ==
    ASSUME IndInv, NEW n \in Nexts, NEW s \in Statuses, Leave(n, s), Stage = "received",
           session' \in {session, NoSession},
           \/ invalid' = invalid
           \/ session' = NoSession /\ invalid' = invalid \cup ({peer.id} \ {NONE}),
           UNCHANGED <<flags, running, current_ws, ws, hb, peer, call, env, conns, unstored>>
    PROVE  IndInv'
<1>1. SameClass(task.todo, Exit) /\ Exit \in Beating /\ Head(Exit) \in Quiet /\ Stage # "idle"
  BY Listed, ClassByHead, QuietHeads, Zenon DEF Stage
<1>2. Goes(Exit)
  BY Zenon DEF Goes, Leave
<1>3. TypeTask' /\ task'.ws = task.ws /\ task'.todo = Exit
  BY <1>1, <1>2, Goals, Zenon
<1>4. Stage' \in Quiet /\ task_running' = task_running
  BY <1>1, <1>3, Zenon DEF Stage, running
<1>5. TypeFlags'
  <2>1. TypeFlags
    BY Zenon DEF IndInv, TypeOK
  <2> QED
    BY <2>1, Zenon DEF TypeFlags, flags, running
<1> QED
  BY <1>1, <1>3, <1>4, <1>5, Forgets, Zenon

LEMMA ReceivedCloseStep == ASSUME IndInv, ReceivedClose PROVE IndInv'
<1>1. /\ Stage = "received"
      /\ UNCHANGED <<flags, running, current_ws, ws, hb, peer, call, env, conns, unstored>>
  BY Zenon DEF ReceivedClose, Got, At, Stage
<1>2. ASSUME UNCHANGED <<session, invalid>> PROVE OnlyTask
  BY <1>1, <1>2, Zenon DEF OnlyTask, OnlyTaskOrEnd, ghosts
<1>3. ASSUME NEW n \in Nexts, NEW s \in Statuses, Leave(n, s), UNCHANGED <<session, invalid>>
      PROVE  IndInv'
  BY <1>1, <1>2, <1>3, Leaves, Zenon
<1>4. ASSUME TakeThen("canceled", Exit), UNCHANGED <<session, invalid>> PROVE IndInv'
  BY <1>1, <1>2, <1>4, Names, TakesAndLeaves, Zenon
<1>5. ASSUME Leave("IDENTIFY", "canceled"), session' = NoSession,
             invalid' = invalid \cup ({peer.id} \ {NONE})
      PROVE  IndInv'
  BY <1>1, <1>5, Names, LeavesWithout, Zenon
<1>6. CASE ShouldStop
  BY <1>3, <1>6, Names, Zenon DEF ReceivedClose
<1>7. CASE ~ShouldStop /\ reconnect_requested
  BY <1>4, <1>7, Zenon DEF ReceivedClose
<1>8. CASE ~ShouldStop /\ ~reconnect_requested
  <2>1. CASE task.got = "close_fatal"
    BY <1>3, <1>8, <2>1, Names, Zenon DEF ReceivedClose
  <2>2. CASE task.got = "close_invalid"
    BY <1>5, <1>8, <2>2, Zenon DEF ReceivedClose
  <2>3. CASE task.got # "close_fatal" /\ task.got # "close_invalid"
    BY <1>3, <1>8, <2>3, Names, Zenon DEF ReceivedClose
  <2> QED
    BY <2>1, <2>2, <2>3, Zenon
<1> QED
  BY <1>6, <1>7, <1>8, Zenon

LEMMA ReceivedInvalidSessionStep == ASSUME IndInv, ReceivedInvalidSession PROVE IndInv'
<1>1. /\ Stage = "received"
      /\ UNCHANGED <<flags, running, current_ws, ws, hb, peer, call, env, conns, unstored>>
      /\ invalid' = invalid \/ invalid' = invalid \cup ({peer.id} \ {NONE})
      /\ task.got # "op9" => invalid' = invalid
  BY Zenon DEF ReceivedInvalidSession, Got, At, Stage
<1>2. CASE task.got = "op9_resumable" /\ CanResume
  <2>1. Leave("RESUME", "error") /\ session' = session /\ invalid' = invalid
    BY <1>1, <1>2, Zenon DEF ReceivedInvalidSession
  <2> QED
    BY <1>1, <2>1, Names, LeavesWithout, Zenon
<1>3. CASE ~(task.got = "op9_resumable" /\ CanResume)
  <2>1. Leave("IDENTIFY", "error") /\ session' = NoSession
    BY <1>3, Zenon DEF ReceivedInvalidSession
  <2> QED
    BY <1>1, <2>1, Names, LeavesWithout, Zenon
<1> QED
  BY <1>2, <1>3, Zenon

LEMMA ContinueOrLeave ==
    ASSUME IndInv, Stage \in {"received", "answer"}, Continue \/ Leave("FATAL", "error")
    PROVE  \E d \in {<<"recv_test">>, Exit} :
              /\ d \in Beating /\ Head(d) \in {"recv_test", "stop_heartbeat"}
              /\ d = <<"recv_test">> => Continue
              /\ TypeTask' /\ task'.ws = task.ws /\ task'.todo = d
<1>1. CASE Continue
  <2>1. Goes(<<"recv_test">>)
    BY <1>1, Names, Zenon DEF Continue, Goes
  <2>2. <<"recv_test">> \in Beating /\ Head(<<"recv_test">>) = "recv_test"
    BY Listed, Heads, Zenon
  <2> QED
    BY <1>1, <2>1, <2>2, Goals, Zenon
<1>2. CASE Leave("FATAL", "error")
  <2>1. Goes(Exit)
    BY <1>2, Names, Zenon DEF Leave, Goes
  <2>2. Exit \in Beating /\ Head(Exit) = "stop_heartbeat"
    BY Listed, Heads, Zenon
  <2>3. Exit # <<"recv_test">>
    BY <2>2, Heads, Zenon
  <2> QED
    BY <2>1, <2>2, <2>3, Goals, Zenon
<1> QED
  BY <1>1, <1>2, Zenon

(* A new session: its identity is the connection's, which is not yet invalid. *)
LEMMA ReceivedReadyStep == ASSUME IndInv, ReceivedReady PROVE IndInv'
<1>1. /\ Stage = "received" /\ task.got = "ready"
      /\ peer' = [peer EXCEPT !.phase = "live", !.id = task.ws]
      /\ UNCHANGED <<flags, running, current_ws, ws, hb, call, env, conns, invalid>>
  BY Zenon DEF ReceivedReady, Got, At, Stage
<1>2. /\ task.ws \in Conns /\ task.ws <= conns /\ session.id <= conns /\ task.ws # NONE
      /\ TypePeer /\ TypeBeat /\ TypeSockets
  <2>1. task.ws \in Conns
    BY <1>1, Stands, Zenon
  <2>2. task.ws # NONE
    BY <2>1, GatewayAssumption DEF Conns, NONE
  <2> QED
    BY <2>1, <2>2, Zenon DEF IndInv, TypeOK, Numbered
<1>3. task.ws \notin invalid
  BY <1>1, Zenon DEF IndInv, GotShape, SessionShape
<1>4. /\ peer' \in [phase : {"none", "identify", "resume", "live"},
                    id : Conns \cup {NONE}, owed : Nat]
      /\ peer'.phase = "live" /\ peer'.id = task.ws /\ peer'.owed = peer.owed
  BY <1>1, <1>2, Zenon DEF TypePeer
<1>5. Continue \/ Leave("FATAL", "error")
  BY Zenon DEF ReceivedReady
<1>6. PICK d \in {<<"recv_test">>, Exit} :
              /\ d \in Beating /\ Head(d) \in {"recv_test", "stop_heartbeat"}
              /\ d = <<"recv_test">> => Continue
              /\ TypeTask' /\ task'.ws = task.ws /\ task'.todo = d
  BY <1>1, <1>5, ContinueOrLeave, Zenon
<1>7. ASSUME NEW id \in {session.id, task.ws}, NEW can \in BOOLEAN,
             session' = [id |-> id, seq |-> task.ws, can |-> can], unstored' \in BOOLEAN,
             unstored' \/ (id = task.ws /\ can),
             Head(d) = "recv_test" => id = task.ws /\ can
      PROVE  IndInv'
  <2>1. id \in Conns \cup {NONE} /\ id <= conns
    BY <1>2, <1>7, Zenon DEF TypePeer
  <2>2. /\ session' \in [id : Conns \cup {NONE}, seq : Conns \cup {NONE}, can : BOOLEAN]
        /\ session'.id = id /\ session'.seq = task.ws /\ (session'.can <=> can)
    BY <1>2, <1>7, <2>1, Zenon
  <2>3. TypePeer'
    BY <1>1, <1>2, <1>4, <1>7, <2>2, Zenon DEF TypePeer
  <2>4. TypeOK' /\ TaskShape' /\ CallShape' /\ RefsExact' /\ Numbered' /\ Stage' = Head(d)
    <3>1. TypeBeat' /\ ws' \in [Conns -> [refs : Nat, open : BOOLEAN]]
      BY <1>1, <1>2, Zenon DEF TypeBeat, TypeSockets
    <3>2. Head(d) # "idle" /\ peer'.id <= conns /\ session'.id <= conns
      BY <1>2, <1>4, <1>6, <2>1, <2>2, Zenon
    <3> QED
      BY <1>1, <1>6, <2>3, <3>1, <3>2, Hears, Zenon
  <2>5. AckShape' /\ GotShape'
    <3>1. hb.waiting_ack /\ ~hb.failed => peer.owed > 0 \/ hb.pc = "send"
      BY <1>1, Zenon DEF IndInv, AckShape
    <3> QED
      BY <1>1, <1>4, <1>6, <2>4, <3>1, Zenon DEF AckShape, GotShape
  <2>6. SessionShape'
    <3>1. Head(d) = "recv_test" => CanResume' /\ session'.id = peer'.id
      BY <1>2, <1>4, <1>7, <2>2, Zenon DEF CanResume
    <3>2. ~unstored' => session'.seq = session'.id /\ session'.id \notin invalid'
      BY <1>1, <1>3, <1>7, <2>2, Zenon
    <3>3. /\ Stage' \notin Connecting /\ (Stage' \in Receiving => Head(d) = "recv_test")
          /\ Stage' \notin {"slot_first", "bind", "hello", "start_heartbeat", "slot_late", "send"}
      BY <1>6, <2>4, Zenon DEF Connecting, Receiving
    <3> QED
      BY <1>4, <3>1, <3>2, <3>3, Zenon DEF SessionShape
  <2> QED
    BY <2>4, <2>5, <2>6, Zenon DEF IndInv
<1>8. \/ \E id \in {session.id, task.ws} :
            /\ session' = [session EXCEPT !.id = id, !.seq = task.ws]
            /\ unstored' = TRUE /\ Leave("FATAL", "error")
      \/ session' = [id |-> task.ws, seq |-> task.ws, can |-> TRUE] /\ unstored' = unstored
  BY Zenon DEF ReceivedReady
<1>9. ASSUME NEW id \in {session.id, task.ws},
             session' = [session EXCEPT !.id = id, !.seq = task.ws],
             unstored' = TRUE, Leave("FATAL", "error")
      PROVE  IndInv'
  <2>1. session' = [id |-> id, seq |-> task.ws, can |-> session.can] /\ session.can \in BOOLEAN
    BY <1>2, <1>9, Zenon DEF TypePeer
  <2>2. Head(d) # "recv_test"
    <3>1. task'.todo = Exit
      BY <1>9, Zenon DEF Leave, IndInv, TypeOK, TypeTask
    <3> QED
      BY <1>6, <3>1, Heads, Zenon
  <2> QED
    BY <1>7, <1>9, <2>1, <2>2, Zenon
<1>10. unstored \in BOOLEAN
  BY <1>2, Zenon DEF TypePeer
<1> QED
  BY <1>7, <1>8, <1>9, <1>10, Zenon

(* Another dispatch counts the session that is kept. *)
LEMMA ReceivedDispatchStep == ASSUME IndInv, ReceivedDispatch PROVE IndInv'
<1>1. /\ Stage = "received" /\ task.got \in {"event", "resumed"}
      /\ session' = [session EXCEPT !.seq = peer.id, !.can = @ \/ task.got = "resumed"]
      /\ peer' = peer \/ peer' = [peer EXCEPT !.phase = "live"]
      /\ Continue \/ Leave("FATAL", "error")
      /\ UNCHANGED <<flags, running, current_ws, ws, hb, call, env, conns, invalid, unstored>>
  BY Zenon DEF ReceivedDispatch, Got, At, Stage, ghosts
<1>2. /\ session.id <= conns /\ peer.id <= conns
      /\ TypePeer /\ TypeBeat /\ TypeSockets
  BY Zenon DEF IndInv, TypeOK, Numbered
<1>3. peer.phase \in {"resume", "live"} /\ CanResume /\ session.id = peer.id
  <2>1. peer.phase \in {"resume", "live"}
    BY <1>1, Zenon DEF IndInv, GotShape
  <2>2. Stage \in Receiving
    BY <1>1, Zenon DEF Receiving
  <2> QED
    BY <2>1, <2>2, Zenon DEF IndInv, SessionShape
<1>4. /\ peer' \in [phase : {"none", "identify", "resume", "live"},
                    id : Conns \cup {NONE}, owed : Nat]
      /\ peer'.phase \in {"resume", "live"} /\ peer'.id = peer.id /\ peer'.owed = peer.owed
  <2>1. peer \in [phase : {"none", "identify", "resume", "live"},
                  id : Conns \cup {NONE}, owed : Nat]
    BY <1>2, Zenon DEF TypePeer
  <2>2. CASE peer' = peer
    BY <1>3, <2>1, <2>2, Zenon
  <2>3. CASE peer' = [peer EXCEPT !.phase = "live"]
    BY <2>1, <2>3, Zenon
  <2> QED
    BY <1>1, <2>2, <2>3, Zenon
<1>5. /\ session' \in [id : Conns \cup {NONE}, seq : Conns \cup {NONE}, can : BOOLEAN]
      /\ session'.id = session.id /\ session'.seq = peer.id /\ session'.can
  <2>1. session \in [id : Conns \cup {NONE}, seq : Conns \cup {NONE}, can : BOOLEAN]
    BY <1>2, Zenon DEF TypePeer
  <2>2. session.can /\ peer.id \in Conns \cup {NONE}
    BY <1>2, <1>3, Zenon DEF CanResume, TypePeer
  <2>3. (session.can \/ task.got = "resumed") \in BOOLEAN
    BY Zenon
  <2>4. /\ session' \in [id : Conns \cup {NONE}, seq : Conns \cup {NONE}, can : BOOLEAN]
        /\ session'.id = session.id /\ session'.seq = peer.id
        /\ session'.can = (session.can \/ task.got = "resumed")
    BY <1>1, <2>1, <2>2, <2>3, Zenon
  <2> QED
    BY <2>2, <2>4, Zenon
<1>6. PICK d \in {<<"recv_test">>, Exit} :
              /\ d \in Beating /\ Head(d) \in {"recv_test", "stop_heartbeat"}
              /\ d = <<"recv_test">> => Continue
              /\ TypeTask' /\ task'.ws = task.ws /\ task'.todo = d
  BY <1>1, ContinueOrLeave, Zenon
<1>7. TypeOK' /\ TaskShape' /\ CallShape' /\ RefsExact' /\ Numbered' /\ Stage' = Head(d)
  <2>1. TypeBeat' /\ ws' \in [Conns -> [refs : Nat, open : BOOLEAN]]
    BY <1>1, <1>2, Zenon DEF TypeBeat, TypeSockets
  <2>2. Head(d) # "idle" /\ peer'.id <= conns /\ session'.id <= conns
    BY <1>2, <1>4, <1>5, <1>6, Zenon
  <2>3. TypePeer'
    BY <1>1, <1>2, <1>4, <1>5, Zenon DEF TypePeer
  <2> QED
    BY <1>1, <1>6, <2>1, <2>2, <2>3, Hears, Zenon
<1>8. AckShape' /\ GotShape'
  <2>1. hb.waiting_ack /\ ~hb.failed => peer.owed > 0 \/ hb.pc = "send"
    BY <1>1, Zenon DEF IndInv, AckShape
  <2> QED
    BY <1>1, <1>4, <1>6, <1>7, <2>1, Zenon DEF AckShape, GotShape
<1>9. SessionShape'
  <2>1. CanResume' /\ session'.id = peer'.id /\ session'.seq = session'.id
    BY <1>3, <1>4, <1>5, Zenon DEF CanResume
  <2>2. ~unstored => session.id \notin invalid
    BY <1>3, Zenon DEF IndInv, SessionShape
  <2>3. ~unstored' => session'.id \notin invalid'
    BY <1>1, <1>5, <2>2, Zenon
  <2>4. /\ Stage' \notin Connecting
        /\ Stage' \notin {"slot_first", "bind", "hello", "start_heartbeat", "slot_late", "send"}
    BY <1>6, <1>7, Zenon DEF Connecting
  <2> QED
    BY <1>4, <2>1, <2>3, <2>4, Zenon DEF SessionShape
<1> QED
  BY <1>7, <1>8, <1>9, Zenon DEF IndInv

(* The other messages change the heartbeat's flag, or what Discord owes. *)
LEMMA Answers ==
    ASSUME IndInv, Stage \in {"received", "answer"}, NEW d \in {<<"recv_test">>, <<"answer">>},
           \/ task' = [task EXCEPT !.status = "ok", !.got = "none", !.todo = d]
           \/ task' = [task EXCEPT !.got = "none", !.todo = d],
           NEW ack \in BOOLEAN, NEW owed \in Nat,
           hb' = hb \/ hb' = [hb EXCEPT !.waiting_ack = ack],
           peer' = peer \/ peer' = [peer EXCEPT !.owed = owed],
           d = <<"answer">> \/ peer'.owed > 0 \/ ~hb'.waiting_ack,
           UNCHANGED <<flags, running, current_ws, ws, session, call, env, conns, invalid, unstored>>
    PROVE  IndInv'
<1>1. d \in Beating /\ d \in Seq(Stages) /\ Head(d) \in {"recv_test", "answer"}
  <2>1. /\ <<"recv_test">> \in Beating /\ <<"answer">> \in Beating
        /\ Head(<<"recv_test">>) = "recv_test" /\ Head(<<"answer">>) = "answer"
    BY Listed, Heads, Zenon
  <2> QED
    BY <2>1, BeatingLists, Zenon
<1>2. /\ session.id <= conns /\ peer.id <= conns
      /\ TypePeer /\ TypeBeat /\ TypeSockets /\ TypeTask
      /\ "ok" \in Statuses /\ "none" \in Receipts
  BY Names, Zenon DEF IndInv, TypeOK, Numbered, Receipts
<1>3. TypeTask' /\ task'.ws = task.ws /\ task'.todo = d
  BY <1>1, <1>2, Zenon DEF TypeTask
<1>4. TypeBeat' /\ hb'.pc = hb.pc /\ hb'.ws = hb.ws /\ hb'.refs = hb.refs
  <2>1. CASE hb' = hb
    BY <1>2, <2>1, Zenon DEF TypeBeat
  <2>2. CASE hb' = [hb EXCEPT !.waiting_ack = ack]
    BY <1>2, <2>2, Zenon DEF TypeBeat
  <2> QED
    BY <2>1, <2>2, Zenon
<1>5. /\ peer' \in [phase : {"none", "identify", "resume", "live"},
                    id : Conns \cup {NONE}, owed : Nat]
      /\ peer'.phase = peer.phase /\ peer'.id = peer.id
  <2>1. peer \in [phase : {"none", "identify", "resume", "live"},
                  id : Conns \cup {NONE}, owed : Nat]
    BY <1>2, Zenon DEF TypePeer
  <2>2. CASE peer' = peer
    BY <2>1, <2>2, Zenon
  <2>3. CASE peer' = [peer EXCEPT !.owed = owed]
    BY <2>1, <2>3, Zenon
  <2> QED
    BY <2>2, <2>3, Zenon
<1>6. TypeOK' /\ TaskShape' /\ CallShape' /\ RefsExact' /\ Numbered' /\ Stage' = Head(d)
  <2>1. /\ ws' \in [Conns -> [refs : Nat, open : BOOLEAN]]
        /\ Head(d) # "idle" /\ peer'.id <= conns /\ session'.id <= conns
    BY <1>1, <1>2, <1>5, Zenon DEF TypeSockets
  <2>2. TypePeer'
    BY <1>2, <1>5, Zenon DEF TypePeer
  <2> QED
    BY <1>1, <1>3, <1>4, <2>1, <2>2, Hears, Zenon
<1>7. AckShape' /\ GotShape'
  <2>1. d = <<"answer">> => Stage' = "answer"
    <3>1. Head(<<"answer">>) = "answer"
      BY Heads, Zenon
    <3> QED
      BY <1>6, <3>1, Zenon
  <2> QED
    BY <1>1, <1>6, <2>1, Zenon DEF AckShape, GotShape
<1>8. SessionShape'
  <2>1. CanResume' <=> CanResume
    BY Zenon DEF CanResume
  <2>2. /\ Stage' \notin Connecting
        /\ Stage' \notin {"slot_first", "bind", "hello", "start_heartbeat", "slot_late", "send"}
    BY <1>1, <1>6, Zenon DEF Connecting
  <2>3. Stage \in Receiving
    BY Zenon DEF Receiving
  <2>4. CanResume' /\ ~unstored' => session'.seq = session'.id /\ session'.id \notin invalid'
    BY <2>1, Zenon DEF IndInv, SessionShape
  <2>5. /\ peer'.phase # "none"
        /\ peer'.phase \in {"resume", "live"} => CanResume' /\ session'.id = peer'.id
        /\ peer'.phase \in {"none", "identify"} => peer'.id = NONE /\ task'.ws \notin invalid'
    BY <1>3, <1>5, <2>1, <2>3, Zenon DEF IndInv, SessionShape
  <2> QED
    BY <2>2, <2>4, <2>5, Zenon DEF SessionShape
<1> QED
  BY <1>6, <1>7, <1>8, Zenon DEF IndInv

LEMMA ReceivedHeartbeatRequestStep == ASSUME IndInv, ReceivedHeartbeatRequest PROVE IndInv'
<1>1. /\ Stage = "received" /\ hb' = [hb EXCEPT !.waiting_ack = TRUE] /\ peer' = peer
      /\ task' = [task EXCEPT !.got = "none", !.todo = <<"answer">>]
      /\ UNCHANGED <<flags, running, current_ws, ws, session, call, env, conns, invalid, unstored>>
  BY Zenon DEF ReceivedHeartbeatRequest, Got, At, Stage, ghosts
<1>2. peer.owed \in Nat
  BY Zenon DEF IndInv, TypeOK, TypePeer
<1> QED
  BY <1>1, <1>2, Answers, Zenon

LEMMA AnswerHeartbeatStep == ASSUME IndInv, AnswerHeartbeat PROVE IndInv'
<1>1. /\ Stage = "answer"
      /\ UNCHANGED <<flags, running, current_ws, ws, session, hb, call, env, conns, invalid, unstored>>
  BY Zenon DEF AnswerHeartbeat, At, Stage, ghosts
<1>2. peer \in [phase : {"none", "identify", "resume", "live"},
                id : Conns \cup {NONE}, owed : Nat]
  BY Zenon DEF IndInv, TypeOK, TypePeer
<1>3. ASSUME peer' = [peer EXCEPT !.owed = @ + 1], Continue PROVE IndInv'
  <2>1. peer.owed + 1 \in Nat /\ peer.owed + 1 > 0
    BY <1>2
  <2>2. peer' = [peer EXCEPT !.owed = peer.owed + 1] /\ peer'.owed = peer.owed + 1
    BY <1>2, <1>3, Zenon
  <2>3. task' = [task EXCEPT !.status = "ok", !.got = "none", !.todo = <<"recv_test">>]
    BY <1>3, Zenon DEF Continue
  <2>4. peer'.owed > 0
    BY <2>1, <2>2, Zenon
  <2> QED
    BY <1>1, <2>1, <2>2, <2>3, <2>4, Answers, Zenon
<1>4. ASSUME Leave(ReconnectNext, "error"), UNCHANGED peer PROVE IndInv'
  <2>1. OnlyTask
    BY <1>1, <1>4, Zenon DEF OnlyTask, OnlyTaskOrEnd, ghosts
  <2> QED
    BY <1>1, <1>4, <2>1, Names, Leaves, Zenon
<1> QED
  BY <1>3, <1>4, Zenon DEF AnswerHeartbeat

LEMMA ReceivedAckStep == ASSUME IndInv, ReceivedAck PROVE IndInv'
<1>1. /\ Stage = "received" /\ task.got = "ack" /\ hb' = [hb EXCEPT !.waiting_ack = FALSE]
      /\ peer' = [peer EXCEPT !.owed = @ - 1] /\ Continue
      /\ UNCHANGED <<flags, running, current_ws, ws, session, call, env, conns, invalid, unstored>>
  BY Zenon DEF ReceivedAck, Got, At, Stage, ghosts
<1>2. /\ peer \in [phase : {"none", "identify", "resume", "live"},
                   id : Conns \cup {NONE}, owed : Nat]
      /\ peer.owed > 0 /\ TypeBeat
  BY <1>1, Zenon DEF IndInv, TypeOK, TypePeer, GotShape
<1>3. peer.owed - 1 \in Nat
  BY <1>2
<1>4. peer' = [peer EXCEPT !.owed = peer.owed - 1] /\ ~hb'.waiting_ack
  BY <1>1, <1>2, Zenon DEF TypeBeat
<1>5. task' = [task EXCEPT !.status = "ok", !.got = "none", !.todo = <<"recv_test">>]
  BY <1>1, Zenon DEF Continue
<1> QED
  BY <1>1, <1>3, <1>4, <1>5, Answers, Zenon

-----------------------------------------------------------------------------
(* Leaving a session. *)

LEMMA StopHeartbeatStep == ASSUME IndInv, StopHeartbeat PROVE IndInv'
<1>1. /\ Stage = "stop_heartbeat" /\ hb' = [hb EXCEPT !.stop = TRUE]
      /\ task' = [task EXCEPT !.todo = Rest]
      /\ UNCHANGED <<flags, running, current_ws, ws, session, peer, call, env, conns, invalid,
                     unstored>>
  BY Zenon DEF StopHeartbeat, At, Stage, Do, ghosts
<1>2. Rest \in Beating /\ Rest \in Seq(Stages) /\ Head(Rest) \in Winding
  BY <1>1, Stands, BeatingLists, Zenon DEF Stage, Rest
<1>3. TypeTask /\ TypeBeat /\ TypeSockets /\ TypePeer /\ peer.id <= conns /\ session.id <= conns
  BY Zenon DEF IndInv, TypeOK, Numbered
<1>4. TypeTask' /\ task'.ws = task.ws /\ task'.todo = Rest
  BY <1>1, <1>2, <1>3, Zenon DEF TypeTask
<1>5. TypeBeat' /\ hb'.pc = hb.pc /\ hb'.ws = hb.ws /\ hb'.refs = hb.refs
  BY <1>1, <1>3, Zenon DEF TypeBeat
<1>6. TypePeer' /\ ws' \in [Conns -> [refs : Nat, open : BOOLEAN]]
  BY <1>1, <1>3, Zenon DEF TypePeer, TypeSockets
<1>7. Head(Rest) \in Quiet /\ Head(Rest) # "idle"
  BY <1>2, QuietHeads, Zenon DEF Winding
<1>8. TypeOK' /\ TaskShape' /\ CallShape' /\ RefsExact' /\ Numbered' /\ Stage' = Head(Rest)
  BY <1>1, <1>2, <1>3, <1>4, <1>5, <1>6, <1>7, Hears, Zenon
<1>9. SessionShape' /\ AckShape' /\ GotShape'
  BY <1>1, <1>4, <1>7, <1>8, QuietSession, Zenon DEF IndInv
<1> QED
  BY <1>8, <1>9, Zenon DEF IndInv

(* What a step keeps that the sockets have no part in. *)
LEMMA Apart ==
    ASSUME IndInv, UNCHANGED <<flags, running, session, peer, call, env, conns, invalid, unstored>>
    PROVE  TypeFlags' /\ TypePeer' /\ TypeCalls' /\ CallShape'
<1>1. TypeFlags /\ TypePeer /\ TypeCalls /\ CallShape
  BY Zenon DEF IndInv, TypeOK
<1>2. TypeFlags'
  BY <1>1, Zenon DEF TypeFlags, flags, running
<1>3. TypePeer'
  BY <1>1, Zenon DEF TypePeer
<1> QED
  BY <1>1, <1>2, <1>3, Zenon DEF TypeCalls, CallShape

LEMMA ClearWsStep == ASSUME IndInv, ClearWs PROVE IndInv'
<1>1. /\ Stage = "clear_ws" /\ Stage # "idle" /\ task' = [task EXCEPT !.todo = Rest]
      /\ current_ws' = IF current_ws = task.ws THEN NONE ELSE current_ws
      /\ UNCHANGED <<flags, running, ws, session, hb, peer, call, env, conns, invalid, unstored>>
  BY Zenon DEF ClearWs, At, Stage, Do, ghosts
<1>2. /\ task.todo \in Bound /\ task.ws \in Conns /\ hb = NoBeat /\ Rest \in Seq(Stages)
      /\ current_ws \in {NONE, task.ws}
  BY <1>1, Stands, Zenon
<1>3. Rest \in Cleared /\ Head(Rest) \in Quiet /\ Head(Rest) # "idle"
  <2>1. Rest \in Cleared /\ Head(Rest) \in Winding
    BY <1>1, <1>2, BoundLists, Zenon DEF Stage, Rest
  <2>2. Head(Rest) # "idle"
    BY <2>1, Zenon DEF Winding
  <2> QED
    BY <2>1, <2>2, QuietHeads, Zenon
<1>4. TypeTask' /\ task'.ws = task.ws /\ task'.todo = Rest
  BY <1>1, <1>2, Zenon DEF IndInv, TypeOK, TypeTask
<1>5. current_ws' = NONE /\ Stage' = Head(Rest)
  BY <1>1, <1>2, <1>4, Zenon DEF Stage
<1>6. TypeSockets' /\ TypeBeat'
  BY <1>1, <1>5, Zenon DEF IndInv, TypeOK, TypeSockets, TypeBeat
<1>7. TaskShape'
  <2>1. task_running' <=> task_running
    BY <1>1, Zenon DEF running
  <2>2. task.ws # NONE
    BY <1>2, GatewayAssumption DEF Conns, NONE
  <2> QED
    BY <1>1, <1>2, <1>3, <1>4, <1>5, <2>1, <2>2, Zenon DEF IndInv, TaskShape, Holds
<1>8. RefsExact' /\ Numbered'
  BY <1>1, <1>4, RefsSame, NumberedSame, Zenon DEF IndInv
<1>9. SessionShape' /\ AckShape' /\ GotShape'
  BY <1>1, <1>3, <1>4, <1>5, QuietSession, Zenon DEF IndInv
<1> QED
  BY <1>1, <1>4, <1>6, <1>7, <1>8, <1>9, Apart, Zenon DEF IndInv, TypeOK

(* dcc_ws_destroy drops one reference. *)
LEMMA Releases ==
    ASSUME NEW socks \in [Conns -> [refs : Nat, open : BOOLEAN]], NEW w \in Conns,
           socks[w].refs > 0
    PROVE  /\ Released(socks, w) \in [Conns -> [refs : Nat, open : BOOLEAN]]
           /\ Released(socks, w)[w].refs = socks[w].refs - 1
           /\ \A v \in Conns : v # w => Released(socks, w)[v] = socks[v]
<1>1. Released(socks, w) = [socks EXCEPT ![w] =
         [refs |-> socks[w].refs - 1, open |-> socks[w].open /\ socks[w].refs > 1]]
  BY Zenon DEF Released
<1>2. socks[w] \in [refs : Nat, open : BOOLEAN]
  BY Zenon
<1>3. socks[w].refs - 1 \in Nat /\ (socks[w].open /\ socks[w].refs > 1) \in BOOLEAN
  BY <1>2
<1>4. PICK n \in Nat, b \in BOOLEAN :
         /\ n = socks[w].refs - 1
         /\ Released(socks, w) = [socks EXCEPT ![w] = [refs |-> n, open |-> b]]
  BY <1>1, <1>3, Zenon
<1>5. [refs |-> n, open |-> b] \in [refs : Nat, open : BOOLEAN] /\ [refs |-> n, open |-> b].refs = n
  BY Zenon
<1> QED
  BY <1>4, <1>5, Zenon

LEMMA JoinHeartbeatStep == ASSUME CountLaws, IndInv, JoinHeartbeat PROVE IndInv'
<1>1. /\ Stage = "join" /\ Stage # "idle" /\ hb.pc = "done" /\ hb' = NoBeat
      /\ task' = [task EXCEPT !.beat_failed = hb.failed, !.todo = Rest]
      /\ ws' = IF hb.refs = 1 THEN Released(ws, hb.ws) ELSE ws
      /\ UNCHANGED <<flags, running, current_ws, session, peer, call, env, conns, invalid, unstored>>
  BY Zenon DEF JoinHeartbeat, At, Stage, ghosts
<1>2. /\ task.todo \in Beating /\ task.ws \in Conns /\ Rest \in Seq(Stages)
      /\ current_ws \in {NONE, task.ws} /\ hb.ws = task.ws /\ hb.refs = 1
  BY <1>1, Stands, Zenon
<1>3. Rest \in Bound /\ Head(Rest) \in Quiet /\ Head(Rest) # "idle"
  <2>1. Rest \in Bound /\ Head(Rest) \in Winding
    BY <1>1, <1>2, BeatingLists, Zenon DEF Stage, Rest
  <2>2. Head(Rest) # "idle"
    BY <2>1, Zenon DEF Winding
  <2> QED
    BY <2>1, <2>2, QuietHeads, Zenon
<1>4. TypeTask' /\ task'.ws = task.ws /\ task'.todo = Rest
  <2>1. hb.failed \in BOOLEAN /\ TypeTask
    BY Zenon DEF IndInv, TypeOK, TypeBeat
  <2> QED
    BY <1>1, <1>2, <2>1, Zenon DEF TypeTask
<1>5. Stage' = Head(Rest) /\ hb'.ws = NONE /\ task.ws # NONE
  <2>1. NoBeat.ws = NONE
    BY Zenon DEF NoBeat
  <2>2. task.ws # NONE
    BY <1>2, GatewayAssumption DEF Conns, NONE
  <2> QED
    BY <1>1, <1>4, <2>1, <2>2, Zenon DEF Stage
<1>6. /\ ws \in [Conns -> [refs : Nat, open : BOOLEAN]] /\ ws[task.ws].refs > 0
      /\ ws' = Released(ws, task.ws)
  <2>1. ws \in [Conns -> [refs : Nat, open : BOOLEAN]]
    BY Zenon DEF IndInv, TypeOK, TypeSockets
  <2>2. /\ IsFiniteSet(Users(task.ws))
        /\ ws[task.ws].refs = Count(task.ws = task.ws) + Count(hb.ws = task.ws)
                                + Cardinality(Users(task.ws))
    BY <1>2, Zenon DEF IndInv, RefsExact
  <2>3. Count(task.ws = task.ws) = 1 /\ Count(hb.ws = task.ws) = 1
    BY <1>2, Zenon DEF Count
  <2>4. Cardinality(Users(task.ws)) \in Nat
    BY <2>2, FiniteCount, Zenon
  <2>5. ws[task.ws].refs > 0
    BY <2>2, <2>3, <2>4
  <2> QED
    BY <1>1, <1>2, <2>1, <2>5, Zenon
<1>7. /\ ws' \in [Conns -> [refs : Nat, open : BOOLEAN]]
      /\ ws'[task.ws].refs = ws[task.ws].refs - 1
      /\ \A v \in Conns : v # task.ws => ws'[v] = ws[v]
  BY <1>2, <1>6, Releases, Zenon
<1>8. TypeSockets' /\ TypeBeat'
  <2>1. NoBeat \in [pc : {"none", "sleep", "send", "done"}, stop : BOOLEAN,
                    waiting_ack : BOOLEAN, failed : BOOLEAN, refs : 0..2,
                    ws : Conns \cup {NONE}]
    <3>1. 0 \in 0 .. 2
      OBVIOUS
    <3> QED
      BY <3>1, Zenon DEF NoBeat
  <2> QED
    BY <1>1, <1>7, <2>1, Zenon DEF IndInv, TypeOK, TypeSockets, TypeBeat
<1>9. TaskShape'
  <2>1. task_running' <=> task_running
    BY <1>1, Zenon DEF running
  <2> QED
    BY <1>1, <1>2, <1>3, <1>4, <1>5, <2>1, Zenon DEF IndInv, TaskShape, Holds
<1>10. Numbered'
  BY <1>1, <1>4, NumberedSame, Zenon DEF IndInv
<1>11. RefsExact'
  <2>1. ASSUME NEW w \in Conns
        PROVE  (/\ IsFiniteSet(Users(w))
                /\ ws[w].refs = Count(task.ws = w) + Count(hb.ws = w) + Cardinality(Users(w)))'
    <3>1. /\ IsFiniteSet(Users(w))
          /\ ws[w].refs = Count(task.ws = w) + Count(hb.ws = w) + Cardinality(Users(w))
      BY Zenon DEF IndInv, RefsExact
    <3>2. Users(w)' = Users(w) /\ Cardinality(Users(w)) \in Nat /\ w # NONE
      <4>1. w # NONE
        BY GatewayAssumption DEF Conns, NONE
      <4> QED
        BY <1>1, <3>1, <4>1, FiniteCount, Zenon DEF Users
    <3>3. CASE w # task.ws
      <4>1. Count(task'.ws = w) = Count(task.ws = w) /\ Count(hb'.ws = w) = Count(hb.ws = w)
        BY <1>2, <1>4, <1>5, <3>2, <3>3, Zenon DEF Count
      <4> QED
        BY <1>7, <3>1, <3>2, <3>3, <4>1, Zenon
    <3>4. CASE w = task.ws
      <4>1. /\ Count(task'.ws = w) = 1 /\ Count(task.ws = w) = 1
            /\ Count(hb'.ws = w) = 0 /\ Count(hb.ws = w) = 1
        BY <1>2, <1>4, <1>5, <3>2, <3>4, Zenon DEF Count
      <4> QED
        BY <1>7, <3>1, <3>2, <3>4, <4>1
    <3> QED
      BY <3>3, <3>4, Zenon
  <2> QED
    BY <2>1, Zenon DEF RefsExact
<1>12. SessionShape' /\ AckShape' /\ GotShape'
  BY <1>1, <1>3, <1>4, <1>5, QuietSession, Zenon DEF IndInv
<1> QED
  BY <1>1, <1>4, <1>8, <1>9, <1>10, <1>11, <1>12, Apart, Zenon DEF IndInv, TypeOK

LEMMA DestroyWsStep == ASSUME CountLaws, IndInv, DestroyWs PROVE IndInv'
<1>1. /\ Stage \in {"destroy_ws", "finish_ws"} /\ Stage # "idle"
      /\ task' = [task EXCEPT !.ws = NONE, !.todo = Rest]
      /\ \E socks \in {ws, Abort(ws, task.ws)} : ws' = Released(socks, task.ws)
      /\ UNCHANGED <<flags, running, current_ws, session, hb, peer, call, env, conns, invalid,
                     unstored>>
  BY Zenon DEF DestroyWs, At, Stage, ghosts
<1>2. /\ task.todo \in Cleared /\ task.ws \in Conns /\ Rest \in Seq(Stages)
      /\ current_ws = NONE /\ hb = NoBeat
  BY <1>1, Stands, Zenon
<1>3. Rest \in Bare /\ Head(Rest) \in Quiet /\ Head(Rest) # "idle"
  BY <1>1, <1>2, ClearedLists, QuietHeads, Zenon DEF Stage, Rest, Winding
<1>4. TypeTask' /\ task'.ws = NONE /\ task'.todo = Rest
  BY <1>1, <1>2, Zenon DEF IndInv, TypeOK, TypeTask
<1>5. Stage' = Head(Rest) /\ hb.ws = NONE /\ task.ws # NONE
  <2>1. NoBeat.ws = NONE
    BY Zenon DEF NoBeat
  <2>2. task.ws # NONE
    BY <1>2, GatewayAssumption DEF Conns, NONE
  <2> QED
    BY <1>2, <1>4, <2>1, <2>2, Zenon DEF Stage
<1>6. ws \in [Conns -> [refs : Nat, open : BOOLEAN]] /\ ws[task.ws].refs > 0
  <2>1. ws \in [Conns -> [refs : Nat, open : BOOLEAN]]
    BY Zenon DEF IndInv, TypeOK, TypeSockets
  <2>2. /\ IsFiniteSet(Users(task.ws))
        /\ ws[task.ws].refs = Count(task.ws = task.ws) + Count(hb.ws = task.ws)
                                + Cardinality(Users(task.ws))
    BY <1>2, Zenon DEF IndInv, RefsExact
  <2>3. Count(task.ws = task.ws) = 1 /\ Count(hb.ws = task.ws) = 0
    BY <1>5, Zenon DEF Count
  <2>4. Cardinality(Users(task.ws)) \in Nat
    BY <2>2, FiniteCount, Zenon
  <2>5. ws[task.ws].refs > 0
    BY <2>2, <2>3, <2>4
  <2> QED
    BY <2>1, <2>5, Zenon
<1>7. /\ ws' \in [Conns -> [refs : Nat, open : BOOLEAN]]
      /\ ws'[task.ws].refs = ws[task.ws].refs - 1
      /\ \A v \in Conns : v # task.ws => ws'[v].refs = ws[v].refs
  <2>1. PICK socks \in {ws, Abort(ws, task.ws)} : ws' = Released(socks, task.ws)
    BY <1>1, Zenon
  <2>2. /\ socks \in [Conns -> [refs : Nat, open : BOOLEAN]]
        /\ \A v \in Conns : socks[v].refs = ws[v].refs
    <3>1. TypeSockets
      BY Zenon DEF IndInv, TypeOK
    <3>2. CASE socks = ws
      BY <1>6, <3>2, Zenon
    <3>3. CASE socks = Abort(ws, task.ws)
      BY <1>2, <3>1, <3>3, Aborts, Zenon
    <3> QED
      BY <3>2, <3>3, Zenon
  <2>3. socks[task.ws].refs > 0
    BY <1>2, <1>6, <2>2, Zenon
  <2>4. /\ ws' \in [Conns -> [refs : Nat, open : BOOLEAN]]
        /\ ws'[task.ws].refs = socks[task.ws].refs - 1
        /\ \A v \in Conns : v # task.ws => ws'[v] = socks[v]
    <3>1. /\ Released(socks, task.ws) \in [Conns -> [refs : Nat, open : BOOLEAN]]
          /\ Released(socks, task.ws)[task.ws].refs = socks[task.ws].refs - 1
          /\ \A v \in Conns : v # task.ws => Released(socks, task.ws)[v] = socks[v]
      BY <1>2, <2>2, <2>3, Releases
    <3> QED
      BY <2>1, <3>1, Zenon
  <2> QED
    BY <1>2, <2>2, <2>4, Zenon
<1>8. TypeSockets' /\ TypeBeat'
  BY <1>1, <1>7, Zenon DEF IndInv, TypeOK, TypeSockets, TypeBeat
<1>9. TaskShape'
  <2>1. task_running' <=> task_running
    BY <1>1, Zenon DEF running
  <2> QED
    BY <1>1, <1>2, <1>3, <1>4, <1>5, <2>1, Zenon DEF IndInv, TaskShape, Holds
<1>10. Numbered'
  <2>1. NONE <= conns
    BY GatewayAssumption DEF NONE, IndInv, TypeOK, TypeSockets
  <2> QED
    BY <1>1, <1>4, <2>1, Zenon DEF IndInv, Numbered
<1>11. RefsExact'
  <2>1. ASSUME NEW w \in Conns
        PROVE  (/\ IsFiniteSet(Users(w))
                /\ ws[w].refs = Count(task.ws = w) + Count(hb.ws = w) + Cardinality(Users(w)))'
    <3>1. /\ IsFiniteSet(Users(w))
          /\ ws[w].refs = Count(task.ws = w) + Count(hb.ws = w) + Cardinality(Users(w))
      BY Zenon DEF IndInv, RefsExact
    <3>2. /\ Users(w)' = Users(w) /\ Cardinality(Users(w)) \in Nat /\ w # NONE
          /\ hb'.ws = hb.ws
      <4>1. w # NONE
        BY GatewayAssumption DEF Conns, NONE
      <4> QED
        BY <1>1, <3>1, <4>1, FiniteCount, Zenon DEF Users
    <3>3. CASE w # task.ws
      <4>1. Count(task'.ws = w) = Count(task.ws = w) /\ Count(hb'.ws = w) = Count(hb.ws = w)
        BY <1>4, <3>2, <3>3, Zenon DEF Count
      <4> QED
        BY <1>7, <3>1, <3>2, <3>3, <4>1, Zenon
    <3>4. CASE w = task.ws
      <4>1. /\ Count(task'.ws = w) = 0 /\ Count(task.ws = w) = 1
            /\ Count(hb'.ws = w) = 0 /\ Count(hb.ws = w) = 0
        BY <1>4, <1>5, <3>2, <3>4, Zenon DEF Count
      <4> QED
        BY <1>7, <3>1, <3>2, <3>4, <4>1
    <3> QED
      BY <3>3, <3>4, Zenon
  <2> QED
    BY <2>1, Zenon DEF RefsExact
<1>12. SessionShape' /\ AckShape' /\ GotShape'
  <2>1. /\ Stage' \notin Connecting /\ Stage' \notin Receiving
        /\ Stage' \notin {"slot_first", "bind", "hello", "start_heartbeat", "slot_late", "send",
                          "recv_test", "recv", "received"}
    BY <1>3, <1>5, Zenon DEF Quiet, Winding, Connecting, Receiving
  <2>2. CanResume' <=> CanResume
    BY <1>1, Zenon DEF CanResume
  <2>3. CanResume' /\ ~unstored' => session'.seq = session'.id /\ session'.id \notin invalid'
    BY <1>1, <2>2, Zenon DEF IndInv, SessionShape
  <2>4. task'.ws \notin invalid'
    <3>1. NONE \notin 1 .. conns
      BY GatewayAssumption DEF NONE, IndInv, TypeOK, TypeSockets
    <3> QED
      BY <1>1, <1>4, <3>1, Zenon DEF IndInv, Numbered
  <2>5. peer'.phase \in {"none", "identify"} => peer'.id = NONE
    BY <1>1, Zenon DEF IndInv, SessionShape
  <2>6. SessionShape'
    BY <2>1, <2>3, <2>4, <2>5, Zenon DEF SessionShape
  <2> QED
    BY <2>1, <2>6, Zenon DEF AckShape, GotShape
<1> QED
  BY <1>1, <1>4, <1>8, <1>9, <1>10, <1>11, <1>12, Apart, Zenon DEF IndInv, TypeOK

-----------------------------------------------------------------------------
(* The heartbeat task. *)

(* A step of the heartbeat task keeps what the gateway task holds. *)
LEMMA Beats ==
    ASSUME IndInv, hb.pc \in {"sleep", "send"}, TypeBeat', hb'.ws = hb.ws,
           hb'.pc # "none", hb'.refs = (IF hb'.pc = "done" THEN 1 ELSE 2),
           TypePeer', peer'.phase = peer.phase, peer'.id = peer.id,
           ws' \in [Conns -> [refs : Nat, open : BOOLEAN]],
           \A w \in Conns : ws'[w].refs = ws[w].refs,
           Stage \in {"slot_late", "send", "recv_test", "recv", "received"} =>
              (hb'.waiting_ack /\ ~hb'.failed => peer'.owed > 0 \/ hb'.pc = "send"),
           peer'.owed = peer.owed \/ peer'.owed > 0,
           UNCHANGED <<flags, running, current_ws, session, task, call, env, conns, invalid,
                       unstored>>
    PROVE  IndInv'
<1>1. TypeFlags' /\ TypeTask' /\ TypeCalls' /\ CallShape' /\ TypeSockets'
  <2>1. TypeFlags /\ TypeTask /\ TypeCalls /\ CallShape /\ TypeSockets
    BY Zenon DEF IndInv, TypeOK
  <2>2. TypeFlags' /\ TypeTask'
    BY <2>1, Zenon DEF TypeFlags, TypeTask, flags, running
  <2> QED
    BY <2>1, <2>2, Zenon DEF TypeCalls, CallShape, TypeSockets
<1>2. Stage' = Stage /\ task_running' = task_running /\ (CanResume' <=> CanResume)
  BY Zenon DEF Stage, running, CanResume
<1>3. TaskShape'
  <2>1. hb # NoBeat
    <3>1. NoBeat.pc = "none"
      BY Zenon DEF NoBeat
    <3> QED
      BY <3>1, Zenon
  <2>2. /\ task.todo \in Beating /\ task.ws # NONE /\ current_ws \in {NONE, task.ws}
        /\ hb.ws = task.ws
    BY <2>1, Zenon DEF IndInv, TaskShape, Holds
  <2>3. Holds'
    BY <2>2, Zenon DEF Holds
  <2>4. task_running' <=> Stage' # "idle"
    BY <1>2, Zenon DEF IndInv, TaskShape
  <2> QED
    BY <2>3, <2>4, Zenon DEF TaskShape
<1>4. RefsExact'
  BY RefsSame, Zenon DEF IndInv
<1>5. Numbered'
  BY Zenon DEF IndInv, Numbered
<1>6. AckShape' /\ GotShape'
  <2>1. AckShape'
    BY <1>2, Zenon DEF AckShape
  <2>2. /\ Stage = "received" /\ task.got = "ready" => peer.phase = "identify"
        /\ Stage = "received" /\ task.got = "event" => peer.phase \in {"resume", "live"}
        /\ Stage = "received" /\ task.got = "resumed" => peer.phase = "resume"
        /\ Stage = "received" /\ task.got = "ack" => peer.owed > 0
    BY Zenon DEF IndInv, GotShape
  <2>3. peer.owed > 0 => peer'.owed > 0
    BY Zenon
  <2> QED
    BY <1>2, <2>1, <2>2, <2>3, Zenon DEF GotShape
<1>7. SessionShape'
  <2>1. CanResume' /\ ~unstored' => session'.seq = session'.id /\ session'.id \notin invalid'
    BY <1>2, Zenon DEF IndInv, SessionShape
  <2>2. /\ Stage' \in Connecting /\ task'.resume => CanResume'
        /\ Stage' \in {"slot_first", "slot_late"} => ~task'.resume
    BY <1>2, Zenon DEF IndInv, SessionShape
  <2>3. /\ Stage' \in Receiving => peer'.phase # "none"
        /\ Stage' \in Receiving /\ peer'.phase \in {"resume", "live"} =>
              CanResume' /\ session'.id = peer'.id
    BY <1>2, Zenon DEF IndInv, SessionShape
  <2>4. /\ peer'.phase \in {"none", "identify"} => peer'.id = NONE /\ task'.ws \notin invalid'
        /\ Stage' \in {"bind", "hello", "start_heartbeat", "slot_late", "send"} =>
              peer'.phase = "none"
    BY <1>2, Zenon DEF IndInv, SessionShape
  <2> QED
    BY <2>1, <2>2, <2>3, <2>4, Zenon DEF SessionShape
<1> QED
  BY <1>1, <1>3, <1>4, <1>5, <1>6, <1>7, Zenon DEF IndInv, TypeOK

(* What a running heartbeat task is like. *)
LEMMA BeatRuns ==
    ASSUME IndInv, hb.pc \in {"sleep", "send"}
    PROVE  /\ hb.refs = 2 /\ hb.ws \in Conns
           /\ TypeBeat /\ TypePeer /\ TypeSockets
           /\ ws \in [Conns -> [refs : Nat, open : BOOLEAN]]
           /\ peer \in [phase : {"none", "identify", "resume", "live"},
                        id : Conns \cup {NONE}, owed : Nat]
<1>1. hb # NoBeat
  <2>1. NoBeat.pc = "none"
    BY Zenon DEF NoBeat
  <2> QED
    BY <2>1, Zenon
<1>2. hb.refs = 2 /\ hb.ws = task.ws /\ task.ws # NONE
  BY <1>1, Zenon DEF IndInv, TaskShape, Holds
<1>3. task.ws \in Conns
  BY <1>2, Zenon DEF IndInv, TypeOK, TypeTask
<1>4. TypeBeat /\ TypePeer /\ TypeSockets
  BY Zenon DEF IndInv, TypeOK
<1> QED
  BY <1>2, <1>3, <1>4, Zenon DEF TypePeer, TypeSockets

LEMMA BeatEnds ==
    ASSUME IndInv, hb.pc \in {"sleep", "send"}, NEW f \in BOOLEAN,
           hb' = BeatDone([hb EXCEPT !.failed = f]) \/ hb' = BeatDone(hb)
    PROVE  /\ TypeBeat' /\ hb'.ws = hb.ws /\ hb'.pc = "done" /\ hb'.refs = 1
           /\ hb'.waiting_ack = hb.waiting_ack
           /\ hb' = BeatDone([hb EXCEPT !.failed = f]) => hb'.failed = f
<1>1. hb.refs = 2 /\ TypeBeat
  BY BeatRuns, Zenon
<1>2. 2 - 1 = 1 /\ 1 \in 0 .. 2
  OBVIOUS
<1>3. CASE hb' = BeatDone(hb)
  <2>1. hb' = [hb EXCEPT !.pc = "done", !.refs = 1]
    BY <1>1, <1>2, <1>3, Zenon DEF BeatDone
  <2>2. hb'.failed = hb.failed /\ (BeatDone([hb EXCEPT !.failed = f])).failed = f
    BY <1>1, <1>2, <2>1, Zenon DEF TypeBeat, BeatDone
  <2> QED
    BY <1>1, <1>2, <2>1, <2>2, Zenon DEF TypeBeat
<1>4. CASE hb' = BeatDone([hb EXCEPT !.failed = f])
  <2>1. hb' = [hb EXCEPT !.failed = f, !.pc = "done", !.refs = 1]
    <3>1. [hb EXCEPT !.failed = f].refs = 2
      BY <1>1, Zenon DEF TypeBeat
    <3>2. hb' = [[hb EXCEPT !.failed = f] EXCEPT !.pc = "done", !.refs = 1]
      BY <1>2, <1>4, <3>1, Zenon DEF BeatDone
    <3> QED
      BY <1>1, <3>2, Zenon DEF TypeBeat
  <2> QED
    BY <1>1, <1>2, <2>1, Zenon DEF TypeBeat
<1> QED
  BY <1>3, <1>4, Zenon

LEMMA BeatStopsStep == ASSUME IndInv, BeatStops PROVE IndInv'
<1>1. /\ hb.pc = "sleep" /\ hb' = BeatDone(hb)
      /\ UNCHANGED <<flags, running, current_ws, ws, session, task, peer, call, env, conns,
                     invalid, unstored>>
  BY Zenon DEF BeatStops, ghosts
<1>2. /\ TypeBeat /\ TypePeer /\ ws \in [Conns -> [refs : Nat, open : BOOLEAN]]
  BY <1>1, BeatRuns, Zenon
<1>3. /\ TypeBeat' /\ hb'.ws = hb.ws /\ hb'.pc = "done" /\ hb'.refs = 1
      /\ hb'.waiting_ack = hb.waiting_ack
  BY <1>1, BeatEnds, Zenon
<1>4. hb'.failed = hb.failed
  BY <1>1, <1>2, Zenon DEF BeatDone, TypeBeat
<1>5. TypePeer'
  BY <1>1, <1>2, Zenon DEF TypePeer
<1>6. Stage \in {"slot_late", "send", "recv_test", "recv", "received"} =>
         (hb'.waiting_ack /\ ~hb'.failed => peer'.owed > 0 \/ hb'.pc = "send")
  BY <1>1, <1>3, <1>4, Zenon DEF IndInv, AckShape
<1> QED
  BY <1>1, <1>2, <1>3, <1>5, <1>6, Beats, Zenon

LEMMA BeatTimerStep == ASSUME IndInv, BeatTimer PROVE IndInv'
<1>1. /\ hb.pc = "sleep"
      /\ UNCHANGED <<flags, running, current_ws, session, task, peer, call, env, conns,
                     invalid, unstored>>
  BY Zenon DEF BeatTimer, ghosts
<1>2. /\ TypeBeat /\ TypePeer /\ TypeSockets /\ ws \in [Conns -> [refs : Nat, open : BOOLEAN]]
      /\ hb.refs = 2 /\ hb.ws \in Conns
  BY <1>1, BeatRuns, Zenon
<1>3. TypePeer'
  BY <1>1, <1>2, Zenon DEF TypePeer
<1>4. ASSUME hb' = BeatDone([hb EXCEPT !.failed = TRUE]), ws' = Abort(ws, hb.ws) PROVE IndInv'
  <2>1. /\ TypeBeat' /\ hb'.ws = hb.ws /\ hb'.pc = "done" /\ hb'.refs = 1 /\ hb'.failed = TRUE
    BY <1>1, <1>4, BeatEnds, Zenon
  <2>2. /\ ws' \in [Conns -> [refs : Nat, open : BOOLEAN]]
        /\ \A w \in Conns : ws'[w].refs = ws[w].refs
    BY <1>2, <1>4, Aborts, Zenon
  <2> QED
    BY <1>1, <1>3, <2>1, <2>2, Beats, Zenon
<1>5. ASSUME hb' = [hb EXCEPT !.waiting_ack = TRUE, !.pc = "send"], UNCHANGED ws PROVE IndInv'
  <2>1. TypeBeat' /\ hb'.ws = hb.ws /\ hb'.pc = "send" /\ hb'.refs = 2
    BY <1>2, <1>5, Zenon DEF TypeBeat
  <2> QED
    BY <1>1, <1>2, <1>3, <1>5, <2>1, Beats, Zenon
<1> QED
  BY <1>4, <1>5, Zenon DEF BeatTimer

LEMMA BeatSendStep == ASSUME IndInv, BeatSend PROVE IndInv'
<1>1. /\ hb.pc = "send"
      /\ UNCHANGED <<flags, running, current_ws, session, task, call, env, conns, invalid, unstored>>
  BY Zenon DEF BeatSend, ghosts
<1>2. /\ TypeBeat /\ TypePeer /\ TypeSockets /\ ws \in [Conns -> [refs : Nat, open : BOOLEAN]]
      /\ hb.refs = 2 /\ hb.ws \in Conns
      /\ peer \in [phase : {"none", "identify", "resume", "live"},
                   id : Conns \cup {NONE}, owed : Nat]
  BY <1>1, BeatRuns, Zenon
<1>3. ASSUME hb' = BeatDone([hb EXCEPT !.failed = TRUE]), ws' = Abort(ws, hb.ws), UNCHANGED peer
      PROVE  IndInv'
  <2>1. /\ TypeBeat' /\ hb'.ws = hb.ws /\ hb'.pc = "done" /\ hb'.refs = 1 /\ hb'.failed = TRUE
    BY <1>1, <1>3, BeatEnds, Zenon
  <2>2. /\ ws' \in [Conns -> [refs : Nat, open : BOOLEAN]]
        /\ \A w \in Conns : ws'[w].refs = ws[w].refs
    <3>1. hb.ws \in Conns \cup {NONE} /\ TypeSockets
      BY <1>2, Zenon
    <3> QED
      BY <1>3, <3>1, Aborts, Zenon
  <2>3. TypePeer'
    BY <1>1, <1>2, <1>3, Zenon DEF TypePeer
  <2> QED
    BY <1>1, <1>3, <2>1, <2>2, <2>3, Beats, Zenon
<1>4. ASSUME hb' = [hb EXCEPT !.pc = "sleep"], peer' = [peer EXCEPT !.owed = @ + 1], UNCHANGED ws
      PROVE  IndInv'
  <2>1. TypeBeat' /\ hb'.ws = hb.ws /\ hb'.pc = "sleep" /\ hb'.refs = 2
    BY <1>2, <1>4, Zenon DEF TypeBeat
  <2>2. peer.owed + 1 \in Nat /\ peer.owed + 1 > 0
    BY <1>2
  <2>3. PICK n \in Nat : n = peer.owed + 1 /\ n > 0
    BY <2>2, Zenon
  <2>4. peer' = [peer EXCEPT !.owed = n]
    BY <1>4, <2>3, Zenon
  <2>5. /\ peer' \in [phase : {"none", "identify", "resume", "live"},
                      id : Conns \cup {NONE}, owed : Nat]
        /\ peer'.phase = peer.phase /\ peer'.id = peer.id /\ peer'.owed > 0
    BY <1>2, <2>3, <2>4, Zenon
  <2>6. TypePeer'
    BY <1>1, <1>2, <2>5, Zenon DEF TypePeer
  <2> QED
    BY <1>1, <1>2, <1>4, <2>1, <2>5, <2>6, Beats, Zenon
<1> QED
  BY <1>3, <1>4, Zenon DEF BeatSend

-----------------------------------------------------------------------------
(* The public calls, and the task's last statements. *)

(* A step of a call that holds the sockets it held. *)
LEMMA Calls ==
    ASSUME IndInv, TypeFlags', TypeCalls', task_running' = task_running,
           \A t \in Threads : call'[t].ws = call[t].ws,
           CallShape',
           ws' \in [Conns -> [refs : Nat, open : BOOLEAN]],
           \A w \in Conns : ws'[w].refs = ws[w].refs,
           UNCHANGED <<current_ws, session, task, hb, peer, conns, invalid, unstored>>
    PROVE  IndInv'
<1>1. TypeTask' /\ TypeBeat' /\ TypePeer' /\ TypeSockets'
  <2>1. TypeTask /\ TypeBeat /\ TypePeer /\ TypeSockets
    BY Zenon DEF IndInv, TypeOK
  <2>2. TypePeer'
    BY <2>1, Zenon DEF TypePeer
  <2>3. TypeTask' /\ TypeBeat'
    BY <2>1, Zenon DEF TypeTask, TypeBeat
  <2> QED
    BY <2>1, <2>2, <2>3, Zenon DEF TypeSockets
<1>2. Stage' = Stage /\ (CanResume' <=> CanResume)
  BY Zenon DEF Stage, CanResume
<1>3. TaskShape'
  <2>1. Holds' <=> Holds
    BY Zenon DEF Holds
  <2> QED
    BY <1>2, <2>1, Zenon DEF IndInv, TaskShape
<1>4. RefsExact' /\ Numbered'
  BY RefsSame, NumberedSame, Zenon DEF IndInv
<1>5. AckShape' /\ GotShape'
  BY <1>2, Zenon DEF IndInv, AckShape, GotShape
<1>6. SessionShape'
  BY <1>2, SessionSame, Zenon DEF IndInv, SessionShape
<1> QED
  BY <1>1, <1>3, <1>4, <1>5, <1>6, Zenon DEF IndInv, TypeOK

LEMMA CallTypes ==
    ASSUME IndInv
    PROVE  /\ call \in [Threads -> [pc : CallStages, op : AllOps \cup Statuses \cup {"none"},
                                    ws : Conns \cup {NONE}]]
           /\ \A t \in Threads : call[t].pc # "sending" => call[t].ws = NONE
           /\ env \in Environment
           /\ ws \in [Conns -> [refs : Nat, open : BOOLEAN]]
           /\ TypeFlags /\ TypeSockets
BY Zenon DEF IndInv, TypeOK, TypeCalls, TypeSockets, CallShape

(* A call that goes on, returns or begins holds no socket. *)
LEMMA Steps ==
    ASSUME IndInv, NEW t \in Threads, call[t].pc # "sending",
           NEW c \in [pc : CallStages, op : AllOps \cup Statuses \cup {"none"},
                      ws : Conns \cup {NONE}],
           c.ws = NONE, c.pc # "sending", call' = [call EXCEPT ![t] = c], env' \in Environment
    PROVE  TypeCalls' /\ CallShape' /\ \A u \in Threads : call'[u].ws = call[u].ws
<1>1. call[t].ws = NONE
  BY CallTypes, Zenon
<1>2. \A u \in Threads : call'[u] = IF u = t THEN c ELSE call[u]
  BY CallTypes, Zenon
<1>3. TypeCalls'
  BY CallTypes, Zenon DEF TypeCalls
<1>4. \A u \in Threads : call'[u].ws = call[u].ws
  BY <1>1, <1>2, Zenon
<1>5. CallShape'
  <2>1. call'[t] = c /\ \A u \in Threads : u # t => call'[u] = call[u]
    BY <1>2, Zenon
  <2> QED
    BY <2>1, OneCall, Zenon DEF IndInv
<1> QED
  BY <1>3, <1>4, <1>5, Zenon

LEMMA Moves ==
    ASSUME IndInv, NEW t \in Threads, call[t].pc # "sending", NEW pc \in CallStages \ {"sending"},
           Move(t, pc) \/ Return(t), UNCHANGED env
    PROVE  TypeCalls' /\ CallShape' /\ \A u \in Threads : call'[u].ws = call[u].ws
<1>1. env' \in Environment /\ call[t].ws = NONE
  BY CallTypes, Zenon
<1>2. ASSUME Return(t)
      PROVE  TypeCalls' /\ CallShape' /\ \A u \in Threads : call'[u].ws = call[u].ws
  <2>1. /\ IdleCall \in [pc : CallStages, op : AllOps \cup Statuses \cup {"none"},
                         ws : Conns \cup {NONE}]
        /\ IdleCall.ws = NONE /\ IdleCall.pc # "sending"
    BY Zenon DEF IdleCall, CallStages
  <2>2. call' = [call EXCEPT ![t] = IdleCall]
    BY <1>2, Zenon DEF Return
  <2> QED
    BY <1>1, <2>1, <2>2, Steps, Zenon
<1>3. ASSUME Move(t, pc)
      PROVE  TypeCalls' /\ CallShape' /\ \A u \in Threads : call'[u].ws = call[u].ws
  <2>1. call[t] \in [pc : CallStages, op : AllOps \cup Statuses \cup {"none"},
                     ws : Conns \cup {NONE}]
    BY CallTypes, Zenon
  <2>2. PICK c : c = [call[t] EXCEPT !.pc = pc]
    BY Zenon
  <2>3. /\ c \in [pc : CallStages, op : AllOps \cup Statuses \cup {"none"},
                  ws : Conns \cup {NONE}]
        /\ c.ws = NONE /\ c.pc # "sending"
    BY <1>1, <2>1, <2>2, Zenon
  <2>4. call' = [call EXCEPT ![t] = c]
    BY <1>3, <2>2, Zenon DEF Move
  <2> QED
    BY <1>1, <2>3, <2>4, Steps, Zenon
<1> QED
  BY <1>2, <1>3, Zenon

LEMMA Counts ==
    \A e \in Environment :
       /\ e.calls > 0 => [e EXCEPT !.calls = @ - 1] \in Environment
       /\ e.starts > 0 => [e EXCEPT !.starts = @ - 1] \in Environment
<1> TAKE e \in Environment
<1>1. e.calls \in Nat /\ e.starts \in Nat
  BY Zenon DEF Environment
<1>2. (e.calls > 0 => e.calls - 1 \in Nat) /\ (e.starts > 0 => e.starts - 1 \in Nat)
  BY <1>1
<1>3. ASSUME NEW n \in Nat
      PROVE  [e EXCEPT !.calls = n] \in Environment /\ [e EXCEPT !.starts = n] \in Environment
  BY Zenon DEF Environment
<1> QED
  BY <1>2, <1>3, Zenon

(* A call begins without a socket. *)
LEMMA Enters ==
    ASSUME IndInv, NEW t \in Threads, NEW op \in AllOps, NEW pc \in CallStages \ {"sending"},
           Enter(t, op, pc, NONE)
    PROVE  TypeCalls' /\ CallShape' /\ \A u \in Threads : call'[u].ws = call[u].ws
<1>1. env' \in Environment /\ call[t].pc # "sending"
  BY CallTypes, Counts, Zenon DEF Enter
<1>2. PICK c : c = [pc |-> pc, op |-> op, ws |-> NONE]
  BY Zenon
<1>3. /\ c \in [pc : CallStages, op : AllOps \cup Statuses \cup {"none"},
                ws : Conns \cup {NONE}]
      /\ c.ws = NONE /\ c.pc # "sending"
  BY <1>2, Zenon
<1>4. call' = [call EXCEPT ![t] = c]
  BY <1>2, Zenon DEF Enter
<1> QED
  BY <1>1, <1>3, <1>4, Steps, Zenon

LEMMA CallNames ==
    /\ {"set_resume", "set_requested", "interrupt", "set_stop", "clear_requested",
        "clear_resume", "set_stopping"} \subseteq CallStages \ {"sending"}
    /\ "sending" \in CallStages
    /\ "resume" \in AllOps /\ "fresh" \in AllOps /\ "stop" \in AllOps
    /\ "client_stop" \in AllOps /\ "send" \in AllOps
    /\ Ender \in Threads /\ Callers \subseteq Threads
BY Zenon DEF CallStages, AllOps, Threads

(* A step of a call that changes nothing but the flags. *)
LEMMA FlagSteps ==
    ASSUME IndInv, TypeCalls', CallShape', \A u \in Threads : call'[u].ws = call[u].ws,
           TypeFlags', task_running' = task_running,
           UNCHANGED <<current_ws, ws, session, task, hb, peer, conns, ghosts>>
    PROVE  IndInv'
<1>1. UNCHANGED <<current_ws, session, task, hb, peer, conns, invalid, unstored>>
  BY Zenon DEF ghosts
<1>2. /\ ws' \in [Conns -> [refs : Nat, open : BOOLEAN]]
      /\ \A w \in Conns : ws'[w].refs = ws[w].refs
  BY CallTypes, Zenon
<1> QED
  BY <1>1, <1>2, Calls, Zenon

LEMMA RequestReconnectStep ==
    ASSUME IndInv, NEW t \in Threads, NEW op, RequestReconnect(t, op) PROVE IndInv'
<1>1. /\ op \in AllOps /\ Enter(t, op, "set_resume", NONE)
      /\ UNCHANGED <<flags, running, current_ws, ws, session, task, hb, peer, conns, ghosts>>
  BY CallNames, Zenon DEF RequestReconnect
<1>2. TypeCalls' /\ CallShape' /\ \A u \in Threads : call'[u].ws = call[u].ws
  BY <1>1, CallNames, Enters, Zenon
<1>3. TypeFlags' /\ task_running' = task_running
  BY <1>1, CallTypes, Zenon DEF TypeFlags, flags, running
<1> QED
  BY <1>1, <1>2, <1>3, FlagSteps, Zenon

LEMMA RequestStopStep ==
    ASSUME IndInv, NEW t \in Threads, NEW op, RequestStop(t, op) PROVE IndInv'
<1>1. /\ op \in AllOps /\ Enter(t, op, "set_stop", NONE)
      /\ stopping' = (stopping \/ op = "client_stop")
      /\ UNCHANGED <<stop_requested, reconnect_requested, reconnect_resume, running,
                     current_ws, ws, session, task, hb, peer, conns, ghosts>>
  BY CallNames, Zenon DEF RequestStop
<1>2. TypeCalls' /\ CallShape' /\ \A u \in Threads : call'[u].ws = call[u].ws
  BY <1>1, CallNames, Enters, Zenon
<1>3. TypeFlags' /\ task_running' = task_running
  BY <1>1, CallTypes, Zenon DEF TypeFlags, running
<1> QED
  BY <1>1, <1>2, <1>3, FlagSteps, Zenon

LEMMA SetResumeStep == ASSUME IndInv, NEW t \in Threads, SetResume(t) PROVE IndInv'
<1>1. /\ call[t].pc = "set_resume" /\ Move(t, "set_requested")
      /\ reconnect_resume' = (call[t].op = "resume")
      /\ UNCHANGED <<stopping, stop_requested, reconnect_requested, running, current_ws,
                     ws, session, task, hb, peer, env, conns, ghosts>>
  BY Zenon DEF SetResume
<1>2. TypeCalls' /\ CallShape' /\ \A u \in Threads : call'[u].ws = call[u].ws
  BY <1>1, CallNames, Moves, Zenon
<1>3. TypeFlags' /\ task_running' = task_running
  BY <1>1, CallTypes, Zenon DEF TypeFlags, running
<1> QED
  BY <1>1, <1>2, <1>3, FlagSteps, Zenon

LEMMA SetRequestedStep == ASSUME IndInv, NEW t \in Threads, SetRequested(t) PROVE IndInv'
<1>1. /\ call[t].pc = "set_requested" /\ Move(t, "interrupt") /\ reconnect_requested' = TRUE
      /\ UNCHANGED <<stopping, stop_requested, reconnect_resume, running, current_ws,
                     ws, session, task, hb, peer, env, conns, ghosts>>
  BY Zenon DEF SetRequested
<1>2. TypeCalls' /\ CallShape' /\ \A u \in Threads : call'[u].ws = call[u].ws
  BY <1>1, CallNames, Moves, Zenon
<1>3. TypeFlags' /\ task_running' = task_running
  BY <1>1, CallTypes, Zenon DEF TypeFlags, running
<1> QED
  BY <1>1, <1>2, <1>3, FlagSteps, Zenon

LEMMA SetStopStep == ASSUME IndInv, NEW t \in Threads, SetStop(t) PROVE IndInv'
<1>1. /\ call[t].pc = "set_stop" /\ Move(t, "clear_requested") /\ stop_requested' = TRUE
      /\ UNCHANGED <<stopping, reconnect_requested, reconnect_resume, running, current_ws,
                     ws, session, task, hb, peer, env, conns, ghosts>>
  BY Zenon DEF SetStop
<1>2. TypeCalls' /\ CallShape' /\ \A u \in Threads : call'[u].ws = call[u].ws
  BY <1>1, CallNames, Moves, Zenon
<1>3. TypeFlags' /\ task_running' = task_running
  BY <1>1, CallTypes, Zenon DEF TypeFlags, running
<1> QED
  BY <1>1, <1>2, <1>3, FlagSteps, Zenon

LEMMA ClearRequestedStep == ASSUME IndInv, NEW t \in Threads, ClearRequested(t) PROVE IndInv'
<1>1. /\ call[t].pc = "clear_requested" /\ Move(t, "clear_resume")
      /\ reconnect_requested' = FALSE
      /\ UNCHANGED <<stopping, stop_requested, reconnect_resume, running, current_ws,
                     ws, session, task, hb, peer, env, conns, ghosts>>
  BY Zenon DEF ClearRequested
<1>2. TypeCalls' /\ CallShape' /\ \A u \in Threads : call'[u].ws = call[u].ws
  BY <1>1, CallNames, Moves, Zenon
<1>3. TypeFlags' /\ task_running' = task_running
  BY <1>1, CallTypes, Zenon DEF TypeFlags, running
<1> QED
  BY <1>1, <1>2, <1>3, FlagSteps, Zenon

LEMMA ClearResumeStep == ASSUME IndInv, NEW t \in Threads, ClearResume(t) PROVE IndInv'
<1>1. /\ call[t].pc = "clear_resume" /\ Move(t, "interrupt") /\ reconnect_resume' = FALSE
      /\ UNCHANGED <<stopping, stop_requested, reconnect_requested, running, current_ws,
                     ws, session, task, hb, peer, env, conns, ghosts>>
  BY Zenon DEF ClearResume
<1>2. TypeCalls' /\ CallShape' /\ \A u \in Threads : call'[u].ws = call[u].ws
  BY <1>1, CallNames, Moves, Zenon
<1>3. TypeFlags' /\ task_running' = task_running
  BY <1>1, CallTypes, Zenon DEF TypeFlags, running
<1> QED
  BY <1>1, <1>2, <1>3, FlagSteps, Zenon

LEMMA StopClientStep == ASSUME IndInv, StopClient PROVE IndInv'
<1>1. /\ call[Ender].pc = "set_stopping" /\ Move(Ender, "set_stop") /\ stopping' = TRUE
      /\ UNCHANGED <<stop_requested, reconnect_requested, reconnect_resume, running,
                     current_ws, ws, session, task, hb, peer, env, conns, ghosts>>
  BY Zenon DEF StopClient
<1>2. TypeCalls' /\ CallShape' /\ \A u \in Threads : call'[u].ws = call[u].ws
  BY <1>1, CallNames, Moves, Zenon
<1>3. TypeFlags' /\ task_running' = task_running
  BY <1>1, CallTypes, Zenon DEF TypeFlags, running
<1> QED
  BY <1>1, <1>2, <1>3, FlagSteps, Zenon

LEMMA CompleteStep == ASSUME IndInv, Complete PROVE IndInv'
<1>1. /\ call[Ender].pc = "complete" /\ (Move(Ender, "set_stopping") \/ Return(Ender))
      /\ task_completed' = TRUE
      /\ UNCHANGED <<flags, task_running, last_status, current_ws, ws, session, task, hb,
                     peer, env, conns, ghosts>>
  BY Zenon DEF Complete
<1>2. TypeCalls' /\ CallShape' /\ \A u \in Threads : call'[u].ws = call[u].ws
  BY <1>1, CallNames, Moves, Zenon
<1>3. TypeFlags' /\ task_running' = task_running
  BY <1>1, CallTypes, Zenon DEF TypeFlags, flags
<1> QED
  BY <1>1, <1>2, <1>3, FlagSteps, Zenon

LEMMA InterruptStep == ASSUME IndInv, NEW t \in Threads, Interrupt(t) PROVE IndInv'
<1>1. /\ call[t].pc = "interrupt" /\ Return(t) /\ ws' = Abort(ws, current_ws)
      /\ UNCHANGED <<flags, running, current_ws, session, task, hb, peer, env, conns,
                     invalid, unstored>>
  BY Zenon DEF Interrupt, ghosts
<1>2. TypeCalls' /\ CallShape' /\ \A u \in Threads : call'[u].ws = call[u].ws
  BY <1>1, CallNames, Moves, Zenon
<1>3. TypeFlags' /\ task_running' = task_running
  BY <1>1, CallTypes, Zenon DEF TypeFlags, flags, running
<1>4. /\ ws' \in [Conns -> [refs : Nat, open : BOOLEAN]]
      /\ \A w \in Conns : ws'[w].refs = ws[w].refs
  <2>1. TypeSockets /\ current_ws \in Conns \cup {NONE}
    BY CallTypes, Zenon DEF TypeSockets
  <2> QED
    BY <1>1, <2>1, Aborts, Zenon
<1> QED
  BY <1>1, <1>2, <1>3, <1>4, Calls, Zenon

(* A step of a call that gains or drops a socket leaves the session alone. *)
LEMMA Sends ==
    ASSUME IndInv, TypeCalls', CallShape', RefsExact',
           \A u \in Threads : call'[u].ws <= conns,
           ws' \in [Conns -> [refs : Nat, open : BOOLEAN]],
           UNCHANGED <<flags, running, current_ws, session, task, hb, peer, conns, invalid,
                       unstored>>
    PROVE  IndInv'
<1>1. TypeTask' /\ TypeBeat' /\ TypePeer' /\ TypeSockets' /\ TypeFlags'
  <2>1. TypeTask /\ TypeBeat /\ TypePeer /\ TypeSockets /\ TypeFlags
    BY Zenon DEF IndInv, TypeOK
  <2>2. TypePeer' /\ TypeSockets'
    BY <2>1, Zenon DEF TypePeer, TypeSockets
  <2>3. TypeTask' /\ TypeBeat'
    BY <2>1, Zenon DEF TypeTask, TypeBeat
  <2> QED
    BY <2>1, <2>2, <2>3, Zenon DEF TypeFlags, flags, running
<1>2. Stage' = Stage /\ (CanResume' <=> CanResume) /\ task_running' = task_running
  BY Zenon DEF Stage, CanResume, running
<1>3. TaskShape'
  <2>1. Holds' <=> Holds
    BY Zenon DEF Holds
  <2> QED
    BY <1>2, <2>1, Zenon DEF IndInv, TaskShape
<1>4. Numbered'
  BY Zenon DEF IndInv, Numbered
<1>5. AckShape' /\ GotShape'
  BY <1>2, Zenon DEF IndInv, AckShape, GotShape
<1>6. SessionShape'
  BY <1>2, SessionSame, Zenon DEF IndInv, SessionShape
<1> QED
  BY <1>1, <1>3, <1>4, <1>5, <1>6, Zenon DEF IndInv, TypeOK

LEMMA SendBeginStep == ASSUME CountLaws, IndInv, NEW t \in Threads, SendBegin(t) PROVE IndInv'
<1>1. /\ current_ws # NONE /\ Enter(t, "send", "sending", current_ws)
      /\ ws' = Retained(ws, current_ws)
      /\ UNCHANGED <<flags, running, current_ws, session, task, hb, peer, conns, invalid,
                     unstored>>
  BY Zenon DEF SendBegin, ghosts
<1>2. /\ current_ws \in Conns /\ current_ws <= conns
      /\ ws \in [Conns -> [refs : Nat, open : BOOLEAN]]
  <2>1. current_ws = task.ws
    BY <1>1, Zenon DEF IndInv, TaskShape, Holds
  <2> QED
    BY <1>1, <2>1, CallTypes, Zenon DEF TypeSockets, IndInv, Numbered
<1>3. env' \in Environment /\ call[t].ws = NONE
  BY <1>1, CallTypes, Counts, Zenon DEF Enter
<1>4. PICK c : c = [pc |-> "sending", op |-> "send", ws |-> current_ws]
  BY Zenon
<1>5. /\ c \in [pc : CallStages, op : AllOps \cup Statuses \cup {"none"},
                ws : Conns \cup {NONE}]
      /\ c.ws = current_ws /\ c.pc = "sending"
  BY <1>2, <1>4, CallNames, Zenon
<1>6. call' = [call EXCEPT ![t] = c]
  BY <1>1, <1>4, Zenon DEF Enter
<1>7. \A u \in Threads : call'[u] = IF u = t THEN c ELSE call[u]
  BY <1>6, CallTypes, Zenon
<1>8. TypeCalls' /\ CallShape' /\ \A u \in Threads : call'[u].ws <= conns
  <2>1. TypeCalls'
    BY <1>3, <1>5, <1>6, CallTypes, Zenon DEF TypeCalls
  <2>2. CallShape'
    <3>1. call'[t] = c /\ \A u \in Threads : u # t => call'[u] = call[u]
      BY <1>7, Zenon
    <3> QED
      BY <1>1, <1>5, <3>1, OneCall, Zenon DEF IndInv
  <2> QED
    BY <1>2, <1>5, <1>7, <2>1, <2>2, Zenon DEF IndInv, Numbered
<1>9. /\ ws' \in [Conns -> [refs : Nat, open : BOOLEAN]]
      /\ ws'[current_ws].refs = ws[current_ws].refs + 1
      /\ \A w \in Conns : w # current_ws => ws'[w] = ws[w]
  <2>1. ws' = [ws EXCEPT ![current_ws].refs = @ + 1]
    BY <1>1, Zenon DEF Retained
  <2> QED
    BY <1>2, <2>1
<1>10. RefsExact'
  <2>1. ASSUME NEW w \in Conns
        PROVE  (/\ IsFiniteSet(Users(w))
                /\ ws[w].refs = Count(task.ws = w) + Count(hb.ws = w) + Cardinality(Users(w)))'
    <3>1. /\ IsFiniteSet(Users(w))
          /\ ws[w].refs = Count(task.ws = w) + Count(hb.ws = w) + Cardinality(Users(w))
      BY Zenon DEF IndInv, RefsExact
    <3>2. /\ Count(task'.ws = w) = Count(task.ws = w) /\ Count(hb'.ws = w) = Count(hb.ws = w)
          /\ w # NONE
      <4>1. w # NONE
        BY GatewayAssumption DEF Conns, NONE
      <4> QED
        BY <1>1, <4>1, Zenon DEF Count
    <3>3. CASE w # current_ws
      <4>1. Users(w)' = Users(w)
        BY <1>3, <1>5, <1>7, <3>2, <3>3, Zenon DEF Users
      <4> QED
        BY <1>9, <3>1, <3>2, <3>3, <4>1, Zenon
    <3>4. CASE w = current_ws
      <4>1. Users(w)' = Users(w) \cup {t} /\ t \notin Users(w)
        BY <1>3, <1>5, <1>7, <3>2, <3>4, Zenon DEF Users
      <4>2. /\ IsFiniteSet(Users(w)') /\ Cardinality(Users(w)') = Cardinality(Users(w)) + 1
            /\ Cardinality(Users(w)) \in Nat
        <5>1. /\ IsFiniteSet(Users(w) \cup {t})
              /\ Cardinality(Users(w) \cup {t}) = Cardinality(Users(w)) + 1
          BY <3>1, <4>1, OneMore, Zenon
        <5>2. Cardinality(Users(w)) \in Nat
          BY <3>1, FiniteCount, Zenon
        <5> QED
          BY <4>1, <5>1, <5>2, Zenon
      <4>3. Count(task.ws = w) \in {0, 1} /\ Count(hb.ws = w) \in {0, 1}
        BY Zenon DEF Count
      <4> QED
        BY <1>9, <3>1, <3>2, <3>4, <4>2, <4>3
    <3> QED
      BY <3>3, <3>4, Zenon
  <2> QED
    BY <2>1, Zenon DEF RefsExact
<1> QED
  BY <1>1, <1>8, <1>9, <1>10, Sends, Zenon

LEMMA SendEndStep == ASSUME CountLaws, IndInv, NEW t \in Threads, SendEnd(t) PROVE IndInv'
<1>1. /\ call[t].pc = "sending" /\ call' = [call EXCEPT ![t] = IdleCall]
      /\ ws' = Released(ws, call[t].ws)
      /\ UNCHANGED <<flags, running, current_ws, session, task, hb, peer, env, conns, invalid,
                     unstored>>
  BY Zenon DEF SendEnd, Return, ghosts
<1>2. call[t].ws # NONE
  BY <1>1, Zenon DEF IndInv, CallShape
<1>3. PICK v \in Conns : v = call[t].ws
  BY <1>2, CallTypes, Zenon
<1>4. /\ ws \in [Conns -> [refs : Nat, open : BOOLEAN]]
      /\ IdleCall \in [pc : CallStages, op : AllOps \cup Statuses \cup {"none"},
                       ws : Conns \cup {NONE}]
      /\ IdleCall.ws = NONE /\ IdleCall.pc # "sending"
  BY CallTypes, Zenon DEF IdleCall, CallStages
<1>5. \A u \in Threads : call'[u] = IF u = t THEN IdleCall ELSE call[u]
  BY <1>1, CallTypes, Zenon
<1>6. TypeCalls' /\ CallShape' /\ \A u \in Threads : call'[u].ws <= conns
  <2>1. TypeCalls'
    BY <1>1, <1>4, CallTypes, Zenon DEF TypeCalls
  <2>2. CallShape'
    <3>1. call'[t] = IdleCall /\ \A u \in Threads : u # t => call'[u] = call[u]
      BY <1>5, Zenon
    <3> QED
      BY <1>4, <3>1, OneCall, Zenon DEF IndInv
  <2>3. NONE <= conns
    BY GatewayAssumption DEF NONE, IndInv, TypeOK, TypeSockets
  <2> QED
    BY <1>4, <1>5, <2>1, <2>2, <2>3, Zenon DEF IndInv, Numbered
<1>7. /\ IsFiniteSet(Users(v)) /\ t \in Users(v)
      /\ ws[v].refs = Count(task.ws = v) + Count(hb.ws = v) + Cardinality(Users(v))
      /\ IsFiniteSet(Users(v) \ {t}) /\ Cardinality(Users(v) \ {t}) = Cardinality(Users(v)) - 1
  <2>1. /\ IsFiniteSet(Users(v))
        /\ ws[v].refs = Count(task.ws = v) + Count(hb.ws = v) + Cardinality(Users(v))
    BY Zenon DEF IndInv, RefsExact
  <2>2. t \in Users(v)
    BY <1>3, Zenon DEF Users
  <2> QED
    BY <2>1, <2>2, OneLess, Zenon
<1>8. /\ Count(task.ws = v) \in {0, 1} /\ Count(hb.ws = v) \in {0, 1}
      /\ Cardinality(Users(v)) \in Nat /\ Cardinality(Users(v) \ {t}) \in Nat
  <2>1. Count(task.ws = v) \in {0, 1} /\ Count(hb.ws = v) \in {0, 1}
    BY Zenon DEF Count
  <2> QED
    BY <1>7, <2>1, FiniteCount, Zenon
<1>9. ws[v].refs > 0
  BY <1>7, <1>8
<1>10. /\ ws' \in [Conns -> [refs : Nat, open : BOOLEAN]]
       /\ ws'[v].refs = ws[v].refs - 1
       /\ \A w \in Conns : w # v => ws'[w] = ws[w]
  <2>1. /\ Released(ws, v) \in [Conns -> [refs : Nat, open : BOOLEAN]]
        /\ Released(ws, v)[v].refs = ws[v].refs - 1
        /\ \A w \in Conns : w # v => Released(ws, v)[w] = ws[w]
    BY <1>4, <1>9, Releases, Zenon
  <2> QED
    BY <1>1, <1>3, <2>1, Zenon
<1>11. RefsExact'
  <2>1. ASSUME NEW w \in Conns
        PROVE  (/\ IsFiniteSet(Users(w))
                /\ ws[w].refs = Count(task.ws = w) + Count(hb.ws = w) + Cardinality(Users(w)))'
    <3>1. /\ IsFiniteSet(Users(w))
          /\ ws[w].refs = Count(task.ws = w) + Count(hb.ws = w) + Cardinality(Users(w))
      BY Zenon DEF IndInv, RefsExact
    <3>2. /\ Count(task'.ws = w) = Count(task.ws = w) /\ Count(hb'.ws = w) = Count(hb.ws = w)
          /\ w # NONE
      <4>1. w # NONE
        BY GatewayAssumption DEF Conns, NONE
      <4> QED
        BY <1>1, <4>1, Zenon DEF Count
    <3>3. CASE w # v
      <4>1. Users(w)' = Users(w)
        BY <1>3, <1>4, <1>5, <3>2, <3>3, Zenon DEF Users
      <4> QED
        BY <1>10, <3>1, <3>2, <3>3, <4>1, Zenon
    <3>4. CASE w = v
      <4>1. Users(w)' = Users(w) \ {t}
        BY <1>3, <1>4, <1>5, <3>2, <3>4, Zenon DEF Users
      <4> QED
        BY <1>7, <1>8, <1>10, <3>2, <3>4, <4>1
    <3> QED
      BY <3>3, <3>4, Zenon
  <2> QED
    BY <2>1, Zenon DEF RefsExact
<1> QED
  BY <1>1, <1>6, <1>10, <1>11, Sends, Zenon

(* dcc_gateway_start. *)
LEMMA StartStep == ASSUME IndInv, Start PROVE IndInv'
<1>1. /\ ~task_running /\ env' \in Environment
      /\ stop_requested' = FALSE /\ reconnect_requested' = FALSE /\ reconnect_resume' = FALSE
      /\ UNCHANGED <<stopping, current_ws, ws, session, hb, peer, call, conns, ghosts>>
  BY CallTypes, Counts, Zenon DEF Start
<1>2. TypeCalls' /\ CallShape' /\ \A u \in Threads : call'[u].ws = call[u].ws
  BY <1>1, CallTypes, Zenon DEF TypeCalls, CallShape, IndInv
<1>3. Stage = "idle" /\ "ok" \in Statuses /\ "error" \in Statuses
  BY <1>1, Names, Zenon DEF IndInv, TaskShape
<1>4. ASSUME task_completed' = TRUE, last_status' = "error", UNCHANGED <<task_running, task>>
      PROVE  IndInv'
  <2>1. TypeFlags'
    BY <1>1, <1>3, <1>4, CallTypes, Zenon DEF TypeFlags
  <2> QED
    BY <1>1, <1>2, <1>4, <2>1, FlagSteps, Zenon
<1>5. ASSUME task_running' = TRUE, task_completed' = FALSE, last_status' = "ok",
             task' = [task EXCEPT !.todo = <<"loop">>]
      PROVE  IndInv'
  <2>1. TypeFlags'
    BY <1>1, <1>3, <1>5, CallTypes, Zenon DEF TypeFlags
  <2>2. <<"loop">> \in Bare /\ Head(<<"loop">>) = "loop" /\ Goes(<<"loop">>)
    BY <1>5, Listed, Heads, Zenon DEF Goes
  <2>3. TypeTask' /\ task'.ws = task.ws /\ task'.todo = <<"loop">>
    BY <2>2, Goals, Zenon
  <2>4. Stage' = "loop" /\ Stage' \in Quiet
    BY <2>2, <2>3, Zenon DEF Stage, Quiet, Winding
  <2>5. task.ws = NONE /\ current_ws = NONE /\ hb = NoBeat
    BY <1>3, Stands, Zenon
  <2>6. TaskShape'
    BY <1>1, <1>5, <2>2, <2>3, <2>4, <2>5, Zenon DEF TaskShape, Holds
  <2>7. RefsExact' /\ Numbered'
    BY <1>1, <1>2, <2>3, RefsSame, NumberedSame, Zenon DEF IndInv, ghosts
  <2>8. SessionShape' /\ AckShape' /\ GotShape'
    BY <1>1, <2>3, <2>4, QuietSession, Zenon DEF IndInv, ghosts
  <2>9. TypeBeat' /\ TypeSockets'
    BY <1>1, Zenon DEF IndInv, TypeOK, TypeBeat, TypeSockets
  <2>10. TypePeer'
    <3>1. TypePeer
      BY Zenon DEF IndInv, TypeOK
    <3> QED
      BY <1>1, <3>1, Zenon DEF TypePeer, ghosts
  <2> QED
    BY <1>2, <2>1, <2>3, <2>6, <2>7, <2>8, <2>9, <2>10, Zenon DEF IndInv, TypeOK
<1> QED
  BY <1>4, <1>5, Zenon DEF Start, Do

-----------------------------------------------------------------------------
(* The inductive invariant, and what follows from it. *)

LEMMA InitShape == ASSUME CountLaws PROVE Init => IndInv
<1> HAVE Init
<1>1. /\ stopping = FALSE /\ stop_requested = FALSE
      /\ reconnect_requested = FALSE /\ reconnect_resume = FALSE
      /\ task_running = FALSE /\ task_completed = FALSE /\ last_status = "ok"
      /\ current_ws = NONE /\ ws = [w \in Conns |-> [refs |-> 0, open |-> FALSE]]
      /\ session = NoSession /\ task = IdleTask /\ hb = NoBeat /\ peer = NoPeer
      /\ call = [t \in Threads |-> IdleCall] /\ conns = 0 /\ env \in Environments
      /\ invalid = {} /\ unstored = FALSE
  BY Zenon DEF Init
<1>2. TypeFlags
  BY <1>1, Names, Zenon DEF TypeFlags
<1>3. TypeTask /\ task.ws = NONE /\ task.todo = <<"idle">>
  <2>1. <<"idle">> \in Seq(Stages) /\ "none" \in Receipts
    BY Listed, BareLists, Zenon DEF Receipts
  <2> QED
    BY <1>1, <2>1, Names, Zenon DEF TypeTask, IdleTask
<1>4. TypeBeat /\ hb.ws = NONE /\ hb.pc = "none"
  <2>1. 0 \in 0 .. 2
    OBVIOUS
  <2> QED
    BY <1>1, <2>1, Zenon DEF TypeBeat, NoBeat
<1>5. TypePeer /\ peer.id = NONE /\ session.id = NONE /\ session.can = FALSE
  <2>1. /\ NoPeer \in [phase : {"none", "identify", "resume", "live"},
                       id : Conns \cup {NONE}, owed : Nat]
        /\ NoPeer.id = NONE
    BY DEF NoPeer
  <2>2. /\ NoSession \in [id : Conns \cup {NONE}, seq : Conns \cup {NONE}, can : BOOLEAN]
        /\ NoSession.id = NONE /\ NoSession.can = FALSE
    BY Zenon DEF NoSession
  <2> QED
    BY <1>1, <2>1, <2>2, Zenon DEF TypePeer
<1>6. TypeSockets /\ \A w \in Conns : ws[w].refs = 0
  <2>1. [refs |-> 0, open |-> FALSE] \in [refs : Nat, open : BOOLEAN]
    OBVIOUS
  <2>2. [refs |-> 0, open |-> FALSE].refs = 0
    OBVIOUS
  <2>3. 0 \in 0 .. MaxConns
    BY GatewayAssumption
  <2> QED
    BY <1>1, <2>1, <2>2, <2>3, Zenon DEF TypeSockets
<1>7. TypeCalls /\ \A t \in Threads : call[t].ws = NONE /\ call[t].pc = "idle"
  <2>1. /\ IdleCall \in [pc : CallStages, op : AllOps \cup Statuses \cup {"none"},
                         ws : Conns \cup {NONE}]
        /\ IdleCall.ws = NONE /\ IdleCall.pc = "idle"
    BY Zenon DEF IdleCall, CallStages
  <2>2. env \in Environment
    BY <1>1, GatewayAssumption, Zenon
  <2> QED
    BY <1>1, <2>1, <2>2, Zenon DEF TypeCalls
<1>8. Stage = "idle"
  BY <1>3, Heads, Zenon DEF Stage
<1>9. TaskShape
  BY <1>1, <1>3, <1>8, Listed, Zenon DEF TaskShape, Holds
<1>10. CallShape
  BY <1>7, Zenon DEF CallShape
<1>11. Numbered
  <2>1. NONE <= conns
    BY <1>1 DEF NONE
  <2> QED
    BY <1>1, <1>3, <1>5, <1>7, <2>1, Zenon DEF Numbered
<1>12. RefsExact
  <2>1. ASSUME NEW w \in Conns
        PROVE  /\ IsFiniteSet(Users(w))
               /\ ws[w].refs = Count(task.ws = w) + Count(hb.ws = w) + Cardinality(Users(w))
    <3>1. w # NONE
      BY GatewayAssumption DEF Conns, NONE
    <3>2. Users(w) = {}
      BY <1>7, <3>1, Zenon DEF Users
    <3>3. IsFiniteSet(Users(w)) /\ Cardinality(Users(w)) = 0
      BY <3>2, EmptyCount, Zenon
    <3>4. Count(task.ws = w) = 0 /\ Count(hb.ws = w) = 0
      BY <1>3, <1>4, <3>1, Zenon DEF Count
    <3> QED
      BY <1>6, <3>3, <3>4
  <2> QED
    BY <2>1, Zenon DEF RefsExact
<1>13. AckShape /\ GotShape
  BY <1>8, Zenon DEF AckShape, GotShape
<1>14. SessionShape
  <2>1. ~CanResume
    BY <1>5, Zenon DEF CanResume
  <2>2. Stage \notin Connecting /\ Stage \notin Receiving
    BY <1>8, Zenon DEF Connecting, Receiving
  <2>3. peer.id = NONE /\ task.ws \notin invalid
    BY <1>1, <1>5, Zenon
  <2> QED
    BY <1>8, <2>1, <2>2, <2>3, Zenon DEF SessionShape
<1> QED
  BY <1>2, <1>3, <1>4, <1>5, <1>6, <1>7, <1>9, <1>10, <1>11, <1>12, <1>13, <1>14, Zenon
     DEF IndInv, TypeOK

LEMMA StutterShape == ASSUME IndInv, UNCHANGED vars PROVE IndInv'
<1>1. /\ UNCHANGED <<flags, running, current_ws, ws, session, task, hb, peer, call,
                     env, conns, ghosts>>
  BY Zenon DEF vars
<1>2. TypeCalls' /\ CallShape' /\ \A u \in Threads : call'[u].ws = call[u].ws
  BY <1>1, CallTypes, Zenon DEF TypeCalls, CallShape, IndInv
<1>3. TypeFlags' /\ task_running' = task_running
  BY <1>1, CallTypes, Zenon DEF TypeFlags, flags, running
<1> QED
  BY <1>1, <1>2, <1>3, FlagSteps, Zenon

LEMMA TaskStepShape == ASSUME CountLaws, IndInv, TaskStep PROVE IndInv'
<1>1. CASE \/ Loop \/ TakeRequested \/ TakeResume \/ Pick \/ WaitSlotFirst \/ Connect
           \/ BindWs \/ ReadHello \/ StartHeartbeat \/ WaitSlotLate \/ SendIdentity
  BY <1>1, LoopStep, TakeRequestedStep, TakeResumeStep, PickStep, WaitSlotFirstStep,
     ConnectStep, BindWsStep, ReadHelloStep, StartHeartbeatStep, WaitSlotLateStep,
     SendIdentityStep, Zenon
<1>2. CASE \/ Decide \/ RecvTest \/ RecvClosed \/ ReceiveFailed \/ ReceivedClose
           \/ ReceivedReady \/ ReceivedDispatch \/ ReceivedHeartbeatRequest
           \/ AnswerHeartbeat \/ ReceivedAck \/ ReceivedReconnect
           \/ ReceivedInvalidSession
  BY <1>2, DecideStep, RecvTestStep, RecvClosedStep, ReceiveFailedStep, ReceivedCloseStep,
     ReceivedReadyStep, ReceivedDispatchStep, ReceivedHeartbeatRequestStep,
     AnswerHeartbeatStep, ReceivedAckStep, ReceivedReconnectStep,
     ReceivedInvalidSessionStep, Zenon
<1>3. CASE \/ StopHeartbeat \/ JoinHeartbeat \/ Finalize \/ ClearWs \/ DestroyWs
           \/ After \/ Backoff
  BY <1>3, StopHeartbeatStep, JoinHeartbeatStep, FinalizeStep, ClearWsStep, DestroyWsStep,
     AfterStep, BackoffStep, Zenon
<1> QED
  BY <1>1, <1>2, <1>3, Zenon DEF TaskStep

LEMMA NextShape == ASSUME CountLaws, IndInv, Next PROVE IndInv'
<1>1. ASSUME NEW t \in Threads, StopStep(t) PROVE IndInv'
  BY <1>1, SetStopStep, ClearRequestedStep, ClearResumeStep, InterruptStep, Zenon DEF StopStep
<1>2. ASSUME NEW t \in Threads, ThreadStep(t) PROVE IndInv'
  BY <1>1, <1>2, SetResumeStep, SetRequestedStep, SendEndStep, Zenon DEF ThreadStep
<1>3. ASSUME EnderStep PROVE IndInv'
  BY <1>1, <1>3, CallNames, CompleteStep, StopClientStep, Zenon DEF EnderStep
<1>4. ASSUME NEW t \in Threads, Call(t) PROVE IndInv'
  BY <1>4, RequestReconnectStep, RequestStopStep, SendBeginStep, Zenon DEF Call
<1>5. ASSUME BeatStep \/ BeatTimer PROVE IndInv'
  BY <1>5, BeatStopsStep, BeatSendStep, BeatTimerStep, Zenon DEF BeatStep
<1>6. \A t \in Callers : t \in Threads
  BY CallNames, Zenon
<1> QED
  BY <1>2, <1>3, <1>4, <1>5, <1>6, TaskStepShape, RecvOpenStep, StartStep, Zenon DEF Next

INSTANCE FiniteSetTheorems

LEMMA CountLawsHold == CountLaws
<1>1. IsFiniteSet({}) /\ Cardinality({}) = 0
  BY FS_EmptySet
<1>2. \A S : IsFiniteSet(S) => Cardinality(S) \in Nat
  BY FS_CardinalityType
<1>3. \A S, x : IsFiniteSet(S) /\ x \notin S =>
         IsFiniteSet(S \cup {x}) /\ Cardinality(S \cup {x}) = Cardinality(S) + 1
  BY FS_AddElement
<1>4. \A S, x : IsFiniteSet(S) /\ x \in S =>
         IsFiniteSet(S \ {x}) /\ Cardinality(S \ {x}) = Cardinality(S) - 1
  BY FS_RemoveElement
<1> QED
  BY <1>1, <1>2, <1>3, <1>4, Zenon DEF CountLaws

LEMMA Inductive == Spec => []IndInv
<1>1. Init => IndInv
  BY CountLawsHold, InitShape, Zenon
<1>2. IndInv /\ [Next]_vars => IndInv'
  BY CountLawsHold, NextShape, StutterShape, Zenon
<1> QED
  BY <1>1, <1>2, PTL DEF Spec

(* Every variable keeps the type of its C field, and the task's list of    *)
(* what is left to do is always one that dcc_gateway_run can be in.        *)
THEOREM GatewayTypes == Spec => []TypeOK
<1>1. IndInv => TypeOK
  BY Zenon DEF IndInv
<1> QED
  BY <1>1, Inductive, PTL

(* A socket is freed exactly when the session, the heartbeat state and     *)
(* every sender have dropped it, and gateway_current_ws never names a      *)
(* freed one (dcc_ws_retain, dcc_ws_destroy, the control lock).            *)
THEOREM SocketsAreCounted == Spec => []SocketReferences
<1>1. IndInv => SocketReferences
  <2> HAVE IndInv
  <2>1. \A w \in Conns :
          ws[w].refs = Count(task.ws = w) + Count(hb.ws = w)
                       + Cardinality({t \in Threads : call[t].ws = w})
    BY Zenon DEF IndInv, RefsExact, Users
  <2>2. current_ws \in {NONE, task.ws}
    BY Zenon DEF IndInv, TaskShape, Holds
  <2> QED
    BY <2>1, <2>2, Zenon DEF SocketReferences
<1> QED
  BY <1>1, Inductive, PTL

(* A heartbeat task never outlives the session that spawned it: the        *)
(* gateway task joins it before it drops the socket.                       *)
THEOREM HeartbeatIsJoined == Spec => []HeartbeatHasSession
<1>1. IndInv => HeartbeatHasSession
  <2> HAVE IndInv
  <2> SUFFICES ASSUME hb.pc # "none" PROVE hb.ws = task.ws /\ task_running
    BY Zenon DEF HeartbeatHasSession
  <2>1. hb # NoBeat
    <3>1. NoBeat.pc = "none"
      BY Zenon DEF NoBeat
    <3> QED
      BY <3>1, Zenon
  <2>2. task.todo \in Beating /\ hb.ws = task.ws
    BY <2>1, Zenon DEF IndInv, TaskShape, Holds
  <2>3. Stage # "idle"
    BY <2>2, BeatingLists, Zenon DEF Stage
  <2> QED
    BY <2>2, <2>3, Zenon DEF IndInv, TaskShape
<1> QED
  BY <1>1, Inductive, PTL

(* While the receive loop reads, waiting_ack says that a heartbeat is      *)
(* being sent or that Discord still owes an ACK, so an answered connection *)
(* is never aborted for a missing one.                                     *)
THEOREM AckFlagTellsTheTruth == Spec => []AckFlagIsHonest
<1>1. IndInv => AckFlagIsHonest
  BY Zenon DEF IndInv, AckShape, AckFlagIsHonest, Stage
<1> QED
  BY <1>1, Inductive, PTL

(* RESUME names a session kept with its own sequence number, and never one *)
(* that Discord declared invalid (dcc_gateway_store_ready,                 *)
(* dcc_gateway_invalid_session_next, dcc_gateway_next_for_close).          *)
THEOREM ResumeNamesALiveSession == Spec => []ResumeIsSound
<1>1. IndInv => ResumeIsSound
  <2> HAVE IndInv
  <2>1. At("send") /\ task.resume => CanResume
    BY Zenon DEF IndInv, SessionShape, Connecting, At, Stage
  <2>2. CanResume /\ ~unstored => session.seq = session.id /\ session.id \notin invalid
    BY Zenon DEF IndInv, SessionShape
  <2> QED
    BY <2>1, <2>2, Zenon DEF ResumeIsSound
<1> QED
  BY <1>1, Inductive, PTL

=============================================================================
