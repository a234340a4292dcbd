------------------------- MODULE MCClusterSupervisor -------------------------
EXTENDS ClusterSupervisor

CONSTANTS a, b

Use(max, policy, shards, callers, ops, calls, faults, starts) ==
    [max_restarts |-> max, policy |-> policy, shards |-> shards, callers |-> callers,
     ops |-> ops, calls |-> calls, faults |-> faults, starts |-> starts]

(* A supervised cluster that is stopped and started again; every answer of *)
(* a policy; drains, resumes and reconnects racing the supervisor; the     *)
(* same controls without a supervisor; two callers, one of which stops.    *)
E1 == Use(1, {}, {1, 2}, {a}, {"stop"}, 1, 2, 2)
E2 == Use(1, Decisions, {1}, {a}, {"stop", "rearm"}, 2, 3, 1)
E3 == Use(1, {}, {1}, {a}, {"drain", "resume", "reconnect"}, 3, 2, 1)
E4 == Use(0, {}, {1}, {a}, {"drain", "resume", "admission", "reconnect"}, 3, 1, 2)
E5 == Use(1, {}, {1}, {a, b}, {"stop", "resume"}, 2, 1, 1)
ClusterEnvironments == {E1, E2, E3, E4, E5}
=============================================================================
