----------------------- MODULE MCIdentifyCoordinator -----------------------
(* Instances of IdentifyCoordinator for TLC.                                *)
EXTENDS IdentifyCoordinator

\* Limits that are used up before they are reset, one with an unreported total.
SmallLimits ==
    {[remaining |-> 3, total |-> 2, reset_at |-> 4],
     [remaining |-> 2, total |-> 0, reset_at |-> 3]}
KnownLimit == {[remaining |-> 3, total |-> 1, reset_at |-> 3]}
NoLimit == {}
OneDelay == {2}
NoDelay == {}
=============================================================================
