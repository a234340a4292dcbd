---------------------------- MODULE MCHotReload ----------------------------
EXTENDS HotReload

CONSTANTS d1, d2, w1, w2

Use(dispatchers, events, reloaders, reloads, faults, canary, watched, destroy) ==
    [dispatchers |-> dispatchers, events |-> events, reloaders |-> reloaders,
     reloads |-> reloads, faults |-> faults, canary |-> canary, watched |-> watched,
     destroy |-> destroy]

(* One dispatcher and the supervisor through canaries; two dispatchers and *)
(* overlapping reloads, or two failing workers, without the watcher; the   *)
(* destruction of a watched hot reload.                                    *)
HotReloadEnvironments ==
    {Use({d1}, 2, {w1}, 2, 1, TRUE, TRUE, FALSE),
     Use({d1, d2}, 2, {w1, w2}, 2, 1, FALSE, FALSE, FALSE),
     Use({d1, d2}, 2, {w1}, 1, 2, FALSE, FALSE, FALSE),
     Use({d1}, 1, {w1}, 1, 1, FALSE, TRUE, TRUE)}

(* One dispatcher, one reload, the supervisor and one failing worker.      *)
WatchedEnvironments == {Use({d1}, 1, {w1}, 1, 1, FALSE, TRUE, FALSE)}
=============================================================================
