--------------------------- MODULE MCInjectorLife ---------------------------
(* InjectorLife on three types in a chain, `app` built from `store` and that   *)
(* from `conf`, each bound in either way, twice or not at all, with cleanup    *)
(* actions in between; callbacks ask for the two ends of the chain. Where it   *)
(* is not bound, `store` is constructed by default.                            *)
EXTENDS InjectorLife, TLC

CONSTANTS app, store, conf

AppNeeds == (app :> {store} @@ store :> {conf} @@ conf :> {})

Finished ==
    /\ stage \in {"aborted", "corrupt", "deadlocked"} \/ phase = "gone"
    /\ UNCHANGED life_vars

MCNext == LifeNext \/ Finished
MCSpec == LifeInit /\ [][MCNext]_life_vars
MCFairSpec == MCSpec /\ WF_life_vars(DeletionStep)
=============================================================================
