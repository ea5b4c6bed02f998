--------------------------- MODULE SingletonScope ---------------------------
(***************************************************************************)
(* What BindToScope<T, LazySingleton>() promises the user of an injector   *)
(* (guicpp_binder.h, guicpp_singleton.h): the instance of each bound type  *)
(* comes to life at most once, after the singletons it is built from, and  *)
(* dies before any of them; nothing is created once instances start dying. *)
(***************************************************************************)
CONSTANTS
    Providers,  \* one per type bound to the scope
    Deps        \* the providers whose instances a constructor asks for

VARIABLE stage  \* the life of the one instance of each provider

Stages == {"unborn", "alive", "dead"}

\* Type invariant of the scope.
TypeOK == stage \in [Providers -> Stages]

Init == stage = [p \in Providers |-> "unborn"]

Create(p) ==
    /\ stage[p] = "unborn"
    /\ \A d \in Deps[p] : stage[d] = "alive"
    /\ \A q \in Providers : stage[q] # "dead"
    /\ stage' = [stage EXCEPT ![p] = "alive"]

Destroy(p) ==
    /\ stage[p] = "alive"
    /\ \A q \in Providers : p \in Deps[q] => stage[q] # "alive"
    /\ stage' = [stage EXCEPT ![p] = "dead"]

Next == \E p \in Providers : Create(p) \/ Destroy(p)

Spec == Init /\ [][Next]_stage
=============================================================================
