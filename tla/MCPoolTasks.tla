----------------------------- MODULE MCPoolTasks -----------------------------
(* Instances of PoolTasks for TLC.                                         *)
EXTENDS PoolTasks, TLC

CONSTANTS c1, c2

(* One thread owns the pool, the other commits to it and waits.            *)
OneOwner ==
    c1 :> {"start", "stop", "pause", "resume"} @@ c2 :> {"commit", "wait"}

(* Both threads control it.                                                *)
TwoOwners == c1 :> {"start", "stop"} @@ c2 :> {"pause", "resume"}

=============================================================================
