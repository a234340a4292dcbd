---------------------------- MODULE MCRestHandle ----------------------------
(***************************************************************************)
(* Small instances of RestHandle.                                          *)
(***************************************************************************)
EXTENDS RestHandle

CONSTANTS p1, a1, a2, h1, t1

Use(requests, waits, cancels, destroys, bulk, timeouts) ==
    [requests |-> requests, waits |-> waits, cancels |-> cancels,
     destroys |-> destroys, bulk |-> bulk, nested |-> FALSE, timeouts |-> timeouts]

\* Waits, cancellation and destroy of a plain request; a chain of two actions
\* canceled and destroyed in every order; a bulk cancellation of both kinds.
HandleEnvironments ==
    {Use({p1}, 2, 1, 1, 1, TRUE), Use({a1, a2}, 1, 1, 1, 0, FALSE),
     Use({p1, a1}, 1, 0, 1, 1, FALSE)}

=============================================================================
