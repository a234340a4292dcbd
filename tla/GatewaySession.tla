--------------------------- MODULE GatewaySession ---------------------------
(***************************************************************************)
(* One client's Gateway connection: the task that runs the connect,         *)
(* HELLO, IDENTIFY or RESUME, receive loop, the heartbeat task it spawns    *)
(* for each connection, and the threads that ask it to stop, to reconnect   *)
(* or to send while it runs.  Source: src/gateway/gateway.c,                *)
(* gateway_runtime_loop.c, gateway_session*.c, gateway_ws_control.c,        *)
(* gateway_heartbeat.c, gateway_resume.c, gateway_close_policy.c.           *)
(*                                                                          *)
(* A step of the model ends where another thread can see a difference: at   *)
(* a store to an atomic flag, at the control lock, at a wait.  What Discord *)
(* sends and which calls fail is chosen by the environment.                 *)
(***************************************************************************)
EXTENDS Integers, Sequences, FiniteSets

CONSTANTS
    Callers,      \* threads that use the public gateway calls
    MaxConns,     \* bound: the connections of an environment
    Environments  \* bound: what may happen in a behaviour, see Environment

AllOps == {"resume", "fresh", "stop", "client_stop", "send"}

\* The options of the client (gateway_identify_coordinator is set, and
\* gateway_stop_runtime_on_error), the threads that make calls and which, how
\* many calls, starts and connections there are, and how many heartbeats go
\* unacknowledged at once.
Environment ==
    [clustered : BOOLEAN, stop_on_error : BOOLEAN, callers : SUBSET Callers,
     ops : SUBSET AllOps, calls : Nat, starts : Nat, conns : 0..MaxConns,
     owed : Nat]

ASSUME GatewayAssumption == MaxConns \in Nat /\ Environments \subseteq Environment

\* The gateway task's last statements, run after it gave up task_running.
Ender == "ender"
ASSUME EnderAssumption == Ender \notin Callers

Threads == Callers \cup {Ender}
Conns == 1..MaxConns
NONE == 0

VARIABLES
    stopping, stop_requested, reconnect_requested, reconnect_resume,
    task_running, task_completed, last_status,
    current_ws,   \* gateway_current_ws
    ws,           \* the sockets: reference count, open flag
    session,      \* session id, the session gateway_seq counts, gateway_can_resume
    task,         \* the gateway task: where it is and its locals
    hb,           \* the heartbeat task and its shared state
    peer,         \* Discord's side of the connection
    call,         \* where each thread is in its call
    conns,        \* sockets opened so far
    env,          \* what of its environment the behaviour has not used yet
    invalid,      \* sessions Discord has declared invalid
    unstored      \* some READY could not be stored

flags == <<stopping, stop_requested, reconnect_requested, reconnect_resume>>
running == <<task_running, task_completed, last_status>>
ghosts == <<invalid, unstored>>
vars == <<flags, running, current_ws, ws, session, task, hb, peer, call,
          env, conns, ghosts>>

NoSession == [id |-> NONE, seq |-> NONE, can |-> FALSE]
NoBeat == [pc |-> "none", stop |-> FALSE, waiting_ack |-> FALSE,
           failed |-> FALSE, refs |-> 0, ws |-> NONE]
NoPeer == [phase |-> "none", id |-> NONE, owed |-> 0]
IdleTask == [todo |-> <<"idle">>, resume |-> FALSE, next |-> "FATAL",
             status |-> "ok", ws |-> NONE, taken |-> FALSE, got |-> "none",
             beat_failed |-> FALSE]
IdleCall == [pc |-> "idle", op |-> "none", ws |-> NONE]

Init ==
    /\ stopping = FALSE /\ stop_requested = FALSE
    /\ reconnect_requested = FALSE /\ reconnect_resume = FALSE
    /\ task_running = FALSE /\ task_completed = FALSE /\ last_status = "ok"
    /\ current_ws = NONE
    /\ ws = [w \in Conns |-> [refs |-> 0, open |-> FALSE]]
    /\ session = NoSession
    /\ task = IdleTask
    /\ hb = NoBeat
    /\ peer = NoPeer
    /\ call = [t \in Threads |-> IdleCall]
    /\ conns = 0 /\ env \in Environments
    /\ invalid = {} /\ unstored = FALSE

-----------------------------------------------------------------------------
(* Helpers of the source.                                                   *)

ShouldStop == stopping \/ stop_requested

CanResume == session.can /\ session.id # NONE /\ session.seq # NONE

ReconnectNext == IF CanResume THEN "RESUME" ELSE "IDENTIFY"

\* dcc_ws_abort: the first abort closes the connection.
Abort(socks, w) == IF w = NONE THEN socks ELSE [socks EXCEPT ![w].open = FALSE]

\* dcc_ws_retain and dcc_ws_destroy.
Retained(socks, w) == [socks EXCEPT ![w].refs = @ + 1]

Released(socks, w) ==
    [socks EXCEPT ![w] = [refs |-> @.refs - 1, open |-> @.open /\ @.refs > 1]]

\* The gateway task is at the first statement of its list of what is left.
At(pc) == Head(task.todo) = pc
Rest == Tail(task.todo)
Do(todo) == [task EXCEPT !.todo = todo]

\* What is left to do when the receive loop ends, and when a session whose
\* heartbeat runs is given up before it.
\*
\* Mutants: the socket is destroyed before gateway_current_ws is cleared; the
\* heartbeat task is told to stop and not joined.
ExitDestroysFirst ==
    <<"stop_heartbeat", "join", "finalize", "finish_ws", "clear_ws", "after">>
ExitUnjoined == <<"stop_heartbeat", "finalize", "clear_ws", "finish_ws", "after">>
GiveUpUnjoined == <<"stop_heartbeat", "clear_ws", "destroy_ws", "decide", "after">>

Exit == <<"stop_heartbeat", "join", "finalize", "clear_ws", "finish_ws", "after">>
GiveUp == <<"stop_heartbeat", "join", "clear_ws", "destroy_ws", "decide", "after">>

\* dcc_gateway_take_reconnect_request, in front of what the caller does next.
\* The mode is read here; TakeRequested and TakeResume clear the flags.
TakeThen(status, left) ==
    task' = [task EXCEPT !.taken = reconnect_resume /\ CanResume,
                         !.status = status, !.got = "none",
                         !.todo = <<"take_requested", "take_resume">> \o left]

\* dcc_gateway_task after dcc_gateway_run: the status, then task_running.  The
\* rest is left to the Ender, so a new task may start before it.
EndTask(status) ==
    /\ call[Ender].pc = "idle"
    /\ last_status' = status
    /\ task_running' = FALSE
    /\ task' = IdleTask
    /\ call' = [call EXCEPT ![Ender] =
                   [pc |-> "complete", op |-> status, ws |-> NONE]]
    /\ UNCHANGED task_completed

OnlyTaskOrEnd == UNCHANGED <<flags, current_ws, ws, session, hb, peer, env, conns, ghosts>>
OnlyTask == OnlyTaskOrEnd /\ UNCHANGED <<running, call>>

-----------------------------------------------------------------------------
(* The gateway task: dcc_gateway_run and dcc_gateway_run_once.              *)

\* The head of the loop.  A stop seen here returns the last attempt's status.
Loop ==
    /\ At("loop")
    /\ \/ /\ ShouldStop
          /\ EndTask(IF task.status = "canceled" THEN "ok" ELSE task.status)
       \/ /\ ~ShouldStop
          /\ IF reconnect_requested THEN TakeThen(task.status, <<"pick">>)
                                    ELSE task' = Do(<<"pick">>)
          /\ UNCHANGED <<running, call>>
    /\ OnlyTaskOrEnd

TakeRequested ==
    /\ At("take_requested")
    /\ reconnect_requested' = FALSE
    /\ task' = Do(Rest)
    /\ UNCHANGED <<stopping, stop_requested, reconnect_resume, running, current_ws,
                   ws, session, hb, peer, call, env, conns, ghosts>>

TakeResume ==
    /\ At("take_resume")
    /\ reconnect_resume' = FALSE
    /\ session' = IF task.taken THEN session ELSE NoSession
    /\ task' = [task EXCEPT !.resume = task.taken, !.taken = FALSE,
                            !.next = IF task.taken THEN "RESUME" ELSE "IDENTIFY",
                            !.todo = Rest]
    /\ UNCHANGED <<stopping, stop_requested, reconnect_requested, running,
                   current_ws, ws, hb, peer, call, env, conns, ghosts>>

\* Whether the attempt resumes, its URL, and the session's initial state.
Pick ==
    /\ At("pick")
    /\ \/ EndTask("error")
       \/ /\ LET resume == task.resume /\ CanResume
             IN  task' = [task EXCEPT
                     !.resume = resume, !.next = "FATAL", !.beat_failed = FALSE,
                     !.todo = IF env.clustered /\ ~resume THEN <<"slot_first">>
                                                      ELSE <<"connect">>]
          /\ UNCHANGED <<running, call>>
    /\ OnlyTaskOrEnd

\* A shard of a cluster reserves its IDENTIFY slot before it connects.  The
\* wait is canceled by a stop or by a reconnect request, which is not taken.
WaitSlotFirst ==
    /\ At("slot_first")
    /\ \/ task' = Do(<<"connect">>)
       \/ /\ ShouldStop \/ reconnect_requested
          /\ task' = [task EXCEPT !.next = IF ShouldStop THEN "STOP" ELSE "IDENTIFY",
                                  !.status = "canceled", !.todo = <<"after">>]
    /\ OnlyTask

Connect ==
    /\ At("connect")
    /\ \/ /\ task' = [task EXCEPT !.next = ReconnectNext, !.status = "error",
                                  !.todo = <<"after">>]
          /\ UNCHANGED <<ws, peer, conns>>
       \/ /\ conns < env.conns
          /\ conns' = conns + 1
          /\ ws' = [ws EXCEPT ![conns'] = [refs |-> 1, open |-> TRUE]]
          /\ peer' = NoPeer
          /\ task' = [task EXCEPT !.ws = conns', !.todo = <<"bind">>]
    /\ UNCHANGED <<flags, running, current_ws, session, hb, call, env, ghosts>>

BindWs ==
    /\ At("bind")
    /\ current_ws' = task.ws
    /\ ws' = IF ShouldStop \/ reconnect_requested THEN Abort(ws, task.ws) ELSE ws
    /\ task' = Do(<<"hello">>)
    /\ UNCHANGED <<flags, running, session, hb, peer, call, env, conns, ghosts>>

ReadHello ==
    /\ At("hello")
    /\ \/ /\ ws[task.ws].open
          /\ task' = Do(<<"start_heartbeat">>)
       \/ task' = [task EXCEPT !.status = "error",
                       !.todo = <<"decide", "clear_ws", "destroy_ws", "after">>]
    /\ OnlyTask

\* Mutant: the heartbeat state does not retain the socket.
StartHeartbeatBorrowed ==
    /\ At("start_heartbeat")
    /\ hb' = [NoBeat EXCEPT !.pc = "sleep", !.refs = 2, !.ws = task.ws]
    /\ task' = Do(<<"send">>)
    /\ UNCHANGED <<flags, running, current_ws, ws, session, peer, call, env, conns, ghosts>>

StartHeartbeat ==
    /\ At("start_heartbeat")
    /\ \/ /\ task' = [task EXCEPT !.next = "FATAL", !.status = "error",
                          !.todo = <<"clear_ws", "destroy_ws", "after">>]
          /\ UNCHANGED <<ws, hb>>
       \/ /\ ws' = Retained(ws, task.ws)
          /\ hb' = [NoBeat EXCEPT !.pc = "sleep", !.refs = 2, !.ws = task.ws]
          /\ task' = Do(IF ~task.resume /\ ~env.clustered THEN <<"slot_late">>
                                                      ELSE <<"send">>)
    /\ UNCHANGED <<flags, running, current_ws, session, peer, call, env, conns, ghosts>>

\* A lone client waits for its slot with the connection open.
WaitSlotLate ==
    /\ At("slot_late")
    /\ \/ task' = Do(<<"send">>)
       \/ /\ ShouldStop \/ reconnect_requested
          /\ task' = [task EXCEPT !.status = "ok", !.todo = GiveUp]
    /\ OnlyTask

\* dcc_gateway_send_resume or dcc_gateway_send_identify.
SendIdentity ==
    /\ At("send")
    /\ \/ /\ ws[task.ws].open
          /\ task' = Do(<<"recv_test">>)
          /\ peer' = IF task.resume
                     THEN [peer EXCEPT !.phase = "resume", !.id = session.id]
                     ELSE [peer EXCEPT !.phase = "identify", !.id = NONE]
       \/ /\ task' = [task EXCEPT !.status = "error", !.todo = GiveUp]
          /\ UNCHANGED peer
    /\ UNCHANGED <<flags, running, current_ws, ws, session, hb, call, env, conns, ghosts>>

\* What a session given up before its receive loop does next.
Decide ==
    /\ At("decide")
    /\ IF ShouldStop
       THEN task' = [task EXCEPT !.next = "STOP", !.status = "ok", !.todo = Rest]
       ELSE IF reconnect_requested
       THEN TakeThen(task.status, Rest)
       ELSE task' = [task EXCEPT !.next = ReconnectNext, !.todo = Rest]
    /\ OnlyTask

-----------------------------------------------------------------------------
(* The receive loop: dcc_gateway_session_receive_loop and handle_payload.   *)

RecvTest ==
    /\ At("recv_test")
    /\ task' = IF ShouldStop \/ reconnect_requested
               THEN [task EXCEPT !.status = "ok", !.todo = Exit]
               ELSE Do(<<"recv">>)
    /\ OnlyTask

Closes == {"close_plain", "close_invalid", "close_fatal"}

\* What Discord may send in each phase of its session.
Messages ==
    {"op1", "op7", "op9", "op9_resumable", "bad_json"}
        \cup (CASE peer.phase = "identify" -> {"ready"}
                [] peer.phase = "resume" -> {"event", "resumed"}
                [] OTHER -> {"event"})
        \cup (IF peer.owed > 0 THEN {"ack"} ELSE {})

Receive(got) ==
    /\ At("recv")
    /\ task' = [task EXCEPT !.got = got, !.todo = <<"received">>]
    /\ ws' = IF got \in Closes THEN Abort(ws, task.ws) ELSE ws
    /\ UNCHANGED <<flags, running, current_ws, session, hb, peer, call, env, conns, ghosts>>

\* A closed socket fails the read; an open one returns what the peer sends.
RecvClosed == At("recv") /\ ~ws[task.ws].open /\ Receive("error")

RecvOpen ==
    /\ At("recv") /\ ws[task.ws].open
    /\ \E got \in Messages \cup Closes \cup {"error"} :
          /\ got = "op1" => peer.owed < env.owed
          /\ Receive(got)

Got(set) == At("received") /\ task.got \in set

Leave(next, status) ==
    task' = [task EXCEPT !.next = next, !.status = status, !.got = "none", !.todo = Exit]

Continue ==
    task' = [task EXCEPT !.status = "ok", !.got = "none", !.todo = <<"recv_test">>]

ReceiveFailed ==
    /\ Got({"error"})
    /\ IF reconnect_requested THEN TakeThen("error", Exit)
                              ELSE Leave(ReconnectNext, "error")
    /\ OnlyTask

\* The close codes of dcc_gateway_next_for_close: 4007 and 4009 end the session,
\* 4004 and 4010 to 4014 end the task, all others reconnect.
\*
\* Mutant: every close code keeps the session.
ReceivedCloseKeeps ==
    /\ Got(Closes)
    /\ Leave(ReconnectNext, "canceled")
    /\ invalid' = IF task.got = "close_invalid" THEN invalid \cup ({peer.id} \ {NONE})
                                                ELSE invalid
    /\ UNCHANGED <<flags, running, current_ws, ws, session, hb, peer, call, env, conns,
                   unstored>>

ReceivedClose ==
    /\ Got(Closes)
    /\ IF ShouldStop THEN Leave("STOP", "ok") /\ UNCHANGED <<session, invalid>>
       ELSE IF reconnect_requested
       THEN TakeThen("canceled", Exit) /\ UNCHANGED <<session, invalid>>
       ELSE CASE task.got = "close_fatal" ->
                   Leave("FATAL", "canceled") /\ UNCHANGED <<session, invalid>>
              [] task.got = "close_invalid" ->
                   /\ Leave("IDENTIFY", "canceled")
                   /\ session' = NoSession
                   /\ invalid' = invalid \cup ({peer.id} \ {NONE})
              [] OTHER ->
                   Leave(ReconnectNext, "canceled") /\ UNCHANGED <<session, invalid>>
    /\ UNCHANGED <<flags, running, current_ws, ws, hb, peer, call, env, conns, unstored>>

\* READY: gateway_seq first, then dcc_gateway_store_ready, then the listeners.
ReceivedReady ==
    /\ Got({"ready"})
    /\ \/ /\ \E id \in {session.id, task.ws} :
                session' = [session EXCEPT !.id = id, !.seq = task.ws]
          /\ unstored' = TRUE
          /\ Leave("FATAL", "error")
       \/ /\ session' = [id |-> task.ws, seq |-> task.ws, can |-> TRUE]
          /\ UNCHANGED unstored
          /\ Continue \/ Leave("FATAL", "error")
    /\ peer' = [peer EXCEPT !.phase = "live", !.id = task.ws]
    /\ UNCHANGED <<flags, running, current_ws, ws, hb, call, env, conns, invalid>>

\* Another dispatch: the sequence number and, for RESUMED, gateway_can_resume.
ReceivedDispatch ==
    /\ Got({"event", "resumed"})
    /\ session' = [session EXCEPT !.seq = peer.id,
                                  !.can = @ \/ task.got = "resumed"]
    /\ peer' = IF task.got = "resumed" THEN [peer EXCEPT !.phase = "live"] ELSE peer
    /\ Continue \/ Leave("FATAL", "error")
    /\ UNCHANGED <<flags, running, current_ws, ws, hb, call, env, conns, ghosts>>

\* Discord asks for a heartbeat: the flag is set before the payload is sent.
ReceivedHeartbeatRequest ==
    /\ Got({"op1"})
    /\ hb' = [hb EXCEPT !.waiting_ack = TRUE]
    /\ task' = [task EXCEPT !.got = "none", !.todo = <<"answer">>]
    /\ UNCHANGED <<flags, running, current_ws, ws, session, peer, call, env, conns, ghosts>>

AnswerHeartbeat ==
    /\ At("answer")
    /\ \/ /\ ws[task.ws].open
          /\ peer' = [peer EXCEPT !.owed = @ + 1]
          /\ Continue
       \/ Leave(ReconnectNext, "error") /\ UNCHANGED peer
    /\ UNCHANGED <<flags, running, current_ws, ws, session, hb, call, env, conns, ghosts>>

ReceivedAck ==
    /\ Got({"ack"})
    /\ hb' = [hb EXCEPT !.waiting_ack = FALSE]
    /\ peer' = [peer EXCEPT !.owed = @ - 1]
    /\ Continue
    /\ UNCHANGED <<flags, running, current_ws, ws, session, call, env, conns, ghosts>>

ReceivedReconnect ==
    /\ Got({"op7", "bad_json"})
    /\ Leave(IF task.got = "op7" THEN ReconnectNext ELSE "IDENTIFY", "error")
    /\ OnlyTask

\* dcc_gateway_invalid_session_next.
\*
\* Mutant: the payload's resumable flag is not looked at.
ReceivedInvalidSessionKeeps ==
    /\ Got({"op9", "op9_resumable"})
    /\ Leave(ReconnectNext, "error")
    /\ invalid' = IF task.got = "op9" THEN invalid \cup ({peer.id} \ {NONE})
                                      ELSE invalid
    /\ UNCHANGED <<flags, running, current_ws, ws, session, hb, peer, call, env, conns,
                   unstored>>

ReceivedInvalidSession ==
    /\ Got({"op9", "op9_resumable"})
    /\ IF task.got = "op9_resumable" /\ CanResume
       THEN Leave("RESUME", "error") /\ UNCHANGED session
       ELSE Leave("IDENTIFY", "error") /\ session' = NoSession
    /\ invalid' = IF task.got = "op9" THEN invalid \cup ({peer.id} \ {NONE})
                                      ELSE invalid
    /\ UNCHANGED <<flags, running, current_ws, ws, hb, peer, call, env, conns, unstored>>

-----------------------------------------------------------------------------
(* Leaving a session.                                                       *)

StopHeartbeat ==
    /\ At("stop_heartbeat")
    /\ hb' = [hb EXCEPT !.stop = TRUE]
    /\ task' = Do(Rest)
    /\ UNCHANGED <<flags, running, current_ws, ws, session, peer, call, env, conns, ghosts>>

\* llam_join waits for the heartbeat task; then the state's last reference goes.
JoinHeartbeat ==
    /\ At("join")
    /\ hb.pc = "done"
    /\ task' = [task EXCEPT !.beat_failed = hb.failed, !.todo = Rest]
    /\ ws' = IF hb.refs = 1 THEN Released(ws, hb.ws) ELSE ws
    /\ hb' = NoBeat
    /\ UNCHANGED <<flags, running, current_ws, session, peer, call, env, conns, ghosts>>

\* dcc_gateway_session_finalize_receive.
Finalize ==
    /\ At("finalize")
    /\ IF ShouldStop
       THEN task' = [task EXCEPT !.next = "STOP", !.status = "ok", !.todo = Rest]
       ELSE IF reconnect_requested
       THEN TakeThen("canceled", Rest)
       ELSE IF task.beat_failed
       THEN task' = [task EXCEPT !.next = ReconnectNext, !.status = "error", !.todo = Rest]
       ELSE IF task.next = "FATAL" /\ task.status = "ok"
       THEN task' = [task EXCEPT !.next = ReconnectNext, !.todo = Rest]
       ELSE task' = Do(Rest)
    /\ OnlyTask

ClearWs ==
    /\ At("clear_ws")
    /\ current_ws' = IF current_ws = task.ws THEN NONE ELSE current_ws
    /\ task' = Do(Rest)
    /\ UNCHANGED <<flags, running, ws, session, hb, peer, call, env, conns, ghosts>>

\* dcc_gateway_session_drop_ws drops the session's reference; _finish_ws closes or
\* aborts the socket first.
DestroyWs ==
    /\ \/ At("destroy_ws") /\ ws' = Released(ws, task.ws)
       \/ At("finish_ws") /\ ws' = Released(Abort(ws, task.ws), task.ws)
    /\ task' = [task EXCEPT !.ws = NONE, !.todo = Rest]
    /\ UNCHANGED <<flags, running, current_ws, session, hb, peer, call, env, conns, ghosts>>

\* dcc_gateway_run after an attempt.
After ==
    /\ At("after")
    /\ \/ /\ task.next = "STOP" \/ ShouldStop
          /\ EndTask("ok")
       \/ /\ task.next = "FATAL" /\ ~ShouldStop
          /\ EndTask(task.status)
       \/ /\ task.next \in {"RESUME", "IDENTIFY"} /\ ~ShouldStop
          /\ task' = [task EXCEPT !.resume = task.next = "RESUME",
                                  !.todo = <<"backoff">>]
          /\ UNCHANGED <<running, call>>
    /\ OnlyTaskOrEnd

\* dcc_gateway_wait_ms over the delay: a stop or a request ends it early.
Backoff ==
    /\ At("backoff")
    /\ \/ ShouldStop /\ EndTask("ok")
       \/ /\ ~ShouldStop
          /\ IF reconnect_requested THEN TakeThen(task.status, <<"loop">>)
                                    ELSE task' = Do(<<"loop">>)
          /\ UNCHANGED <<running, call>>
    /\ OnlyTaskOrEnd

-----------------------------------------------------------------------------
(* The heartbeat task: dcc_gateway_heartbeat_task.                          *)

\* Leaving the loop, the task drops its reference to the shared state.
BeatDone(b) == [b EXCEPT !.pc = "done", !.refs = @ - 1]

BeatStops ==
    /\ hb.pc = "sleep" /\ hb.stop
    /\ hb' = BeatDone(hb)
    /\ UNCHANGED <<flags, running, current_ws, ws, session, task, peer, call, env,
                   conns, ghosts>>

\* The interval is over: an unanswered heartbeat aborts the connection.
BeatTimer ==
    /\ hb.pc = "sleep" /\ ~hb.stop
    /\ \/ /\ hb.waiting_ack
          /\ hb' = BeatDone([hb EXCEPT !.failed = TRUE])
          /\ ws' = Abort(ws, hb.ws)
       \/ /\ ~hb.waiting_ack /\ peer.owed < env.owed
          /\ hb' = [hb EXCEPT !.waiting_ack = TRUE, !.pc = "send"]
          /\ UNCHANGED ws
    /\ UNCHANGED <<flags, running, current_ws, session, task, peer, call, env,
                   conns, ghosts>>

\* Mutant: waiting_ack is stored again after the payload was sent.
BeatSendThenMarks ==
    /\ \/ /\ hb.pc = "send" /\ ws[hb.ws].open
          /\ hb' = [hb EXCEPT !.pc = "sent"]
          /\ peer' = [peer EXCEPT !.owed = @ + 1]
       \/ /\ hb.pc = "sent"
          /\ hb' = [hb EXCEPT !.pc = "sleep", !.waiting_ack = TRUE]
          /\ UNCHANGED peer
    /\ UNCHANGED <<flags, running, current_ws, ws, session, task, call, env, conns, ghosts>>

BeatSend ==
    /\ hb.pc = "send"
    /\ \/ /\ ws[hb.ws].open
          /\ hb' = [hb EXCEPT !.pc = "sleep"]
          /\ peer' = [peer EXCEPT !.owed = @ + 1]
          /\ UNCHANGED ws
       \/ /\ hb' = BeatDone([hb EXCEPT !.failed = TRUE])
          /\ ws' = Abort(ws, hb.ws)
          /\ UNCHANGED peer
    /\ UNCHANGED <<flags, running, current_ws, session, task, call, env, conns, ghosts>>

-----------------------------------------------------------------------------
(* The public calls.  One that returns before it changes anything is a      *)
(* stutter.                                                                 *)

Enter(t, op, pc, w) ==
    /\ call[t].pc = "idle" /\ op \in env.ops /\ env.calls > 0
    /\ env' = [env EXCEPT !.calls = @ - 1]
    /\ call' = [call EXCEPT ![t] = [pc |-> pc, op |-> op, ws |-> w]]

Move(t, pc) == call' = [call EXCEPT ![t].pc = pc]
Return(t) == call' = [call EXCEPT ![t] = IdleCall]

\* dcc_gateway_request_reconnect: its checks, two stores and the interrupt.
RequestReconnect(t, op) ==
    /\ op \in {"resume", "fresh"}
    /\ ~ShouldStop /\ task_running
    /\ Enter(t, op, "set_resume", NONE)
    /\ UNCHANGED <<flags, running, current_ws, ws, session, task, hb, peer,
                   conns, ghosts>>

SetResume(t) ==
    /\ call[t].pc = "set_resume"
    /\ reconnect_resume' = (call[t].op = "resume")
    /\ Move(t, "set_requested")
    /\ UNCHANGED <<stopping, stop_requested, reconnect_requested, running, current_ws,
                   ws, session, task, hb, peer, env, conns, ghosts>>

\* Mutant: the socket is not interrupted.
SetRequestedOnly(t) ==
    /\ call[t].pc = "set_requested"
    /\ reconnect_requested' = TRUE
    /\ Return(t)
    /\ UNCHANGED <<stopping, stop_requested, reconnect_resume, running, current_ws,
                   ws, session, task, hb, peer, env, conns, ghosts>>

SetRequested(t) ==
    /\ call[t].pc = "set_requested"
    /\ reconnect_requested' = TRUE
    /\ Move(t, "interrupt")
    /\ UNCHANGED <<stopping, stop_requested, reconnect_resume, running, current_ws,
                   ws, session, task, hb, peer, env, conns, ghosts>>

\* Under the control lock, so that the socket cannot be destroyed meanwhile.
Interrupt(t) ==
    /\ call[t].pc = "interrupt"
    /\ ws' = Abort(ws, current_ws)
    /\ Return(t)
    /\ UNCHANGED <<flags, running, current_ws, session, task, hb, peer, env, conns, ghosts>>

\* dcc_client_gateway_stop, and dcc_client_stop, which sets stopping first.
RequestStop(t, op) ==
    /\ op \in {"stop", "client_stop"}
    /\ Enter(t, op, "set_stop", NONE)
    /\ stopping' = (stopping \/ op = "client_stop")
    /\ UNCHANGED <<stop_requested, reconnect_requested, reconnect_resume, running,
                   current_ws, ws, session, task, hb, peer, conns, ghosts>>

SetStop(t) ==
    /\ call[t].pc = "set_stop"
    /\ stop_requested' = TRUE
    /\ Move(t, "clear_requested")
    /\ UNCHANGED <<stopping, reconnect_requested, reconnect_resume, running, current_ws,
                   ws, session, task, hb, peer, env, conns, ghosts>>

ClearRequested(t) ==
    /\ call[t].pc = "clear_requested"
    /\ reconnect_requested' = FALSE
    /\ Move(t, "clear_resume")
    /\ UNCHANGED <<stopping, stop_requested, reconnect_resume, running, current_ws,
                   ws, session, task, hb, peer, env, conns, ghosts>>

\* Mutant: the socket is not interrupted.
ClearResumeLast(t) ==
    /\ call[t].pc = "clear_resume"
    /\ reconnect_resume' = FALSE
    /\ Return(t)
    /\ UNCHANGED <<stopping, stop_requested, reconnect_requested, running, current_ws,
                   ws, session, task, hb, peer, env, conns, ghosts>>

ClearResume(t) ==
    /\ call[t].pc = "clear_resume"
    /\ reconnect_resume' = FALSE
    /\ Move(t, "interrupt")
    /\ UNCHANGED <<stopping, stop_requested, reconnect_requested, running, current_ws,
                   ws, session, task, hb, peer, env, conns, ghosts>>

\* dcc_gateway_send_text_payload retains the socket under the control lock,
\* sends without it, and drops its reference.
SendBegin(t) ==
    /\ ~ShouldStop /\ task_running /\ current_ws # NONE
    /\ Enter(t, "send", "sending", current_ws)
    /\ ws' = Retained(ws, current_ws)
    /\ UNCHANGED <<flags, running, current_ws, session, task, hb, peer, conns, ghosts>>

SendEnd(t) ==
    /\ call[t].pc = "sending"
    /\ ws' = Released(ws, call[t].ws)
    /\ Return(t)
    /\ UNCHANGED <<flags, running, current_ws, session, task, hb, peer, env, conns, ghosts>>

\* dcc_gateway_start; the spawn may fail.  Starts are made one at a time.
Start ==
    /\ ~task_running
    /\ env.starts > 0 /\ env' = [env EXCEPT !.starts = @ - 1]
    /\ stop_requested' = FALSE /\ reconnect_requested' = FALSE /\ reconnect_resume' = FALSE
    /\ \/ /\ task_running' = TRUE /\ task_completed' = FALSE /\ last_status' = "ok"
          /\ task' = Do(<<"loop">>)
       \/ /\ task_completed' = TRUE /\ last_status' = "error"
          /\ UNCHANGED <<task_running, task>>
    /\ UNCHANGED <<stopping, current_ws, ws, session, hb, peer, call, conns, ghosts>>

\* The last statements of dcc_gateway_task.
Complete ==
    /\ call[Ender].pc = "complete"
    /\ task_completed' = TRUE
    /\ IF call[Ender].op # "ok" /\ ~stopping /\ env.stop_on_error
       THEN Move(Ender, "set_stopping") ELSE Return(Ender)
    /\ UNCHANGED <<flags, task_running, last_status, current_ws, ws, session, task, hb,
                   peer, env, conns, ghosts>>

StopClient ==
    /\ call[Ender].pc = "set_stopping"
    /\ stopping' = TRUE
    /\ Move(Ender, "set_stop")
    /\ UNCHANGED <<stop_requested, reconnect_requested, reconnect_resume, running,
                   current_ws, ws, session, task, hb, peer, env, conns, ghosts>>

-----------------------------------------------------------------------------
TaskStep ==
    \/ Loop \/ TakeRequested \/ TakeResume \/ Pick \/ WaitSlotFirst \/ Connect
    \/ BindWs \/ ReadHello \/ StartHeartbeat \/ WaitSlotLate \/ SendIdentity
    \/ Decide \/ RecvTest \/ RecvClosed \/ ReceiveFailed \/ ReceivedClose
    \/ ReceivedReady \/ ReceivedDispatch \/ ReceivedHeartbeatRequest
    \/ AnswerHeartbeat \/ ReceivedAck \/ ReceivedReconnect
    \/ ReceivedInvalidSession \/ StopHeartbeat \/ JoinHeartbeat \/ Finalize
    \/ ClearWs \/ DestroyWs \/ After \/ Backoff

BeatStep == BeatStops \/ BeatSend

StopStep(t) == SetStop(t) \/ ClearRequested(t) \/ ClearResume(t) \/ Interrupt(t)

ThreadStep(t) == SetResume(t) \/ SetRequested(t) \/ StopStep(t) \/ SendEnd(t)

EnderStep == Complete \/ StopClient \/ StopStep(Ender)

Call(t) ==
    /\ t \in env.callers
    /\ \/ \E op \in env.ops : RequestReconnect(t, op) \/ RequestStop(t, op)
       \/ SendBegin(t)

Next ==
    \/ TaskStep \/ RecvOpen
    \/ BeatStep \/ BeatTimer
    \/ EnderStep
    \/ Start
    \/ \E t \in Callers : Call(t) \/ ThreadStep(t)

\* Every task and thread goes on while it can.  Nothing is assumed of what
\* Discord sends, of the heartbeat's timer or of which calls are made.
Fairness ==
    /\ WF_vars(TaskStep)
    /\ WF_vars(BeatStep)
    /\ WF_vars(EnderStep)
    /\ \A t \in Callers : WF_vars(ThreadStep(t))

Spec == Init /\ [][Next]_vars

FairSpec == Spec /\ Fairness

-----------------------------------------------------------------------------
(* Properties.                                                              *)

Nexts == {"FATAL", "STOP", "RESUME", "IDENTIFY"}
Statuses == {"ok", "error", "canceled"}

Stages ==
    {"idle", "loop", "take_requested", "take_resume", "pick", "slot_first",
     "connect", "bind", "hello", "start_heartbeat", "slot_late", "send", "decide",
     "recv_test", "recv", "received", "answer", "stop_heartbeat", "join",
     "finalize", "clear_ws", "finish_ws", "destroy_ws", "after", "backoff"}
Receipts ==
    {"none", "error", "op1", "op7", "op9", "op9_resumable", "bad_json", "ready",
     "event", "resumed", "ack"} \cup Closes
CallStages ==
    {"idle", "set_resume", "set_requested", "interrupt", "set_stop",
     "clear_requested", "clear_resume", "sending", "complete", "set_stopping"}

TypeFlags ==
    /\ stopping \in BOOLEAN /\ stop_requested \in BOOLEAN
    /\ reconnect_requested \in BOOLEAN /\ reconnect_resume \in BOOLEAN
    /\ task_running \in BOOLEAN /\ task_completed \in BOOLEAN
    /\ last_status \in Statuses

TypeTask ==
    task \in [todo : Seq(Stages), resume : BOOLEAN, next : Nexts, status : Statuses,
              ws : Conns \cup {NONE}, taken : BOOLEAN, got : Receipts,
              beat_failed : BOOLEAN]

TypeBeat ==
    hb \in [pc : {"none", "sleep", "send", "done"}, stop : BOOLEAN,
            waiting_ack : BOOLEAN, failed : BOOLEAN, refs : 0..2,
            ws : Conns \cup {NONE}]

TypePeer ==
    /\ peer \in [phase : {"none", "identify", "resume", "live"},
                 id : Conns \cup {NONE}, owed : Nat]
    /\ session \in [id : Conns \cup {NONE}, seq : Conns \cup {NONE}, can : BOOLEAN]
    /\ invalid \subseteq Conns /\ unstored \in BOOLEAN

TypeSockets ==
    /\ ws \in [Conns -> [refs : Nat, open : BOOLEAN]]
    /\ current_ws \in Conns \cup {NONE} /\ conns \in 0..MaxConns

TypeCalls ==
    /\ call \in [Threads -> [pc : CallStages, op : AllOps \cup Statuses \cup {"none"},
                             ws : Conns \cup {NONE}]]
    /\ env \in Environment

\* Every variable keeps the type its C field has.
TypeOK ==
    TypeFlags /\ TypeTask /\ TypeBeat /\ TypePeer /\ TypeSockets /\ TypeCalls

Count(b) == IF b THEN 1 ELSE 0

\* A socket is freed exactly when the session, the heartbeat state and every
\* sender have dropped it, and gateway_current_ws, which interrupts and senders
\* read under the control lock, never names a freed one.
SocketReferences ==
    /\ \A w \in Conns :
          ws[w].refs = Count(task.ws = w) + Count(hb.ws = w)
                       + Cardinality({t \in Threads : call[t].ws = w})
    /\ current_ws \in {NONE, task.ws}

\* A heartbeat task never outlives the session that spawned it: it is joined
\* before its socket is dropped and before the next attempt starts.
HeartbeatHasSession == hb.pc # "none" => hb.ws = task.ws /\ task_running

\* While the receive loop reads, waiting_ack says that a heartbeat is being sent
\* or that Discord still owes an ACK: a fast ACK is never overwritten, so the
\* heartbeat task does not abort a connection whose heartbeats were answered.
AckFlagIsHonest ==
    (hb.waiting_ack /\ ~hb.failed /\ Head(task.todo) \in {"recv_test", "recv", "received"})
        => peer.owed > 0 \/ hb.pc = "send"

\* A RESUME can only name the session whose sequence number is kept with it, and
\* never one that Discord declared invalid (by op 9, or close code 4007 or 4009).
\* A READY that could not be stored is the one exception.
ResumeIsSound ==
    /\ CanResume /\ ~unstored => session.seq = session.id /\ session.id \notin invalid
    /\ At("send") /\ task.resume => CanResume

\* A stop ends the gateway task, wherever it was: blocked in a read, waiting
\* for an IDENTIFY slot, in its back-off, or between two attempts.
StopEndsTask == ShouldStop ~> (~task_running \/ ~ShouldStop)

\* A reconnect request is taken, wherever the gateway task was when it came.
RequestIsTaken == reconnect_requested ~> (~reconnect_requested \/ ~task_running)
=============================================================================
