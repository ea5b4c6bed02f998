-------------------------- MODULE MCLazySingleton --------------------------
(* LazySingleton on small instances. In the diamond `top` is built from `mid` *)
(* and `side`, which two threads may create at once, and both are built from  *)
(* `base`, which is asked for along two paths.                                *)
EXTENDS LazySingleton, TLC

CONSTANTS base, mid, side, top

Chain == (base :> {} @@ mid :> {base})
Diamond == (base :> {} @@ mid :> {base} @@ side :> {base} @@ top :> {mid, side})
Apart == (base :> {} @@ mid :> {})

\* The process is gone, one way or another.
Finished ==
    /\ phase \in {"gone", "aborted", "corrupt"}
    /\ UNCHANGED vars

MCNext == Next \/ Finished
MCSpec == Init /\ [][MCNext]_vars
MCFairSpec == MCSpec /\ Fairness
=============================================================================
