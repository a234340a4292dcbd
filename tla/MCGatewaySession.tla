-------------------------- MODULE MCGatewaySession --------------------------
(* GatewaySession for TLC.                                                  *)
EXTENDS GatewaySession

CONSTANTS c1, c2

\* One start of a client of its own; one thread makes n calls of ops, and two
\* connections may be opened.
Calls(n, ops) ==
    [clustered |-> FALSE, stop_on_error |-> FALSE, callers |-> {c1}, ops |-> ops,
     calls |-> n, starts |-> 1, conns |-> 2, owed |-> 0]

\* Two threads whose calls interleave on one connection; one thread that stops
\* after it asked for a reconnect, with a heartbeat outstanding; a second start
\* and a second connection after a call that ends the first; no call but up to
\* three heartbeats that are not acknowledged.
SessionEnvironments ==
    {[Calls(2, {"resume", "stop", "send"}) EXCEPT
        !.stop_on_error = TRUE, !.callers = {c1, c2}, !.conns = 1],
     [Calls(2, {"resume", "stop"}) EXCEPT !.clustered = TRUE, !.conns = 1, !.owed = 1],
     [Calls(1, {"fresh", "client_stop"}) EXCEPT !.clustered = TRUE, !.starts = 2],
     Calls(1, {"resume", "send"}),
     [Calls(0, {}) EXCEPT !.owed = 3]}
=============================================================================
