------------------------- MODULE LazySingletonProofs -------------------------
(***************************************************************************)
(* Theorems about LazySingleton, for any threads, providers, dependencies  *)
(* and number of requests, and either mutex: when GoogleOnceDynamic is     *)
(* ported, first requests may interleave in any way and there is one       *)
(* instance of each type, which every Get() returns.                       *)
(*                                                                         *)
(* The argument: a thread is inside Create() only while it is the runner   *)
(* of the provider's once and the once is not yet done (OneCreator); an    *)
(* instance exists exactly from the moment the creator has passed the      *)
(* constructor (CreatedByRunner); and a call can return only after that.   *)
(***************************************************************************)
EXTENDS LazySingleton, TLAPS, SequenceTheorems

\* Steps of a thread inside Create(), before and after the constructor.
Constructing == {"resolve"}
Registering == {"lock", "set_locked", "read_size", "append", "unlock", "set_called"}

OneCreator ==
    \A t \in Threads, p \in Providers :
      pc[<<t, p>>] \in Constructing \cup Registering => runner[p] = t /\ ~called[p]

CreatedByRunner ==
    /\ \A p \in Providers : made[p] \in {0, 1}
    /\ \A p \in Providers : ~called[p] /\ runner[p] = NoThread => made[p] = 0
    /\ \A p \in Providers : called[p] => made[p] = 1
    /\ \A t \in Threads, p \in Providers :
         /\ pc[<<t, p>>] \in Constructing => made[p] = 0
         /\ pc[<<t, p>>] \in Registering \cup {"return"} => made[p] = 1

ReturnedIsTheInstance ==
    \A p \in Providers :
      /\ seen[p] \subseteq {1}
      /\ seen[p] # {} => made[p] = 1
      /\ phase \in {"binding", "live"} => object[p] = made[p]

OnceInv ==
    /\ TypeOK
    /\ OneCreator
    /\ CreatedByRunner
    /\ ReturnedIsTheInstance

-----------------------------------------------------------------------------

\* Before the first provider is bound, every variable has its type.
LEMMA InitTyped == Init => TypeOK
  <1> SUFFICES ASSUME Init  PROVE TypeOK
    OBVIOUS
  <1> USE PortAssumption, SingletonAssumption DEF Init
  <1>1. PortTypeOK
    BY DEF PortInit, PortTypeOK
  <1>2. phase \in Phases /\ injector \in BOOLEAN /\ overlapped \in BOOLEAN
    BY DEF Phases
  <1>3. /\ init_list \in Seq(Providers) /\ cleanup_list_size \in Nat
        /\ cleanup_list \in Seq(Providers \cup {NoProvider}) /\ cursor \in Nat
    OBVIOUS
  <1>4. /\ pc \in [Frames -> PCs] /\ todo \in [Frames -> SUBSET Providers]
        /\ callee \in [Frames -> Providers \cup {NoProvider}]
        /\ slot \in [Frames -> Nat] /\ gets \in [Threads -> 0..MaxGets]
    BY DEF PCs
  <1>5. /\ object \in [Providers -> Nat] /\ made \in [Providers -> Nat]
        /\ alive \in [Providers -> SUBSET Nat]
        /\ seen \in [Providers -> SUBSET Nat]
    OBVIOUS
  <1> QED  BY <1>1, <1>2, <1>3, <1>4, <1>5 DEF TypeOK

\* A step of Get() or Create() keeps the types.
LEMMA GetStepTyped ==
    ASSUME TypeOK, NEW t \in Threads, NEW p \in Providers,
           Request(t, p) \/ GetStep(t, p)
    PROVE  TypeOK'
  <1> USE PortAssumption, SingletonAssumption
      DEF TypeOK, PortTypeOK, Frames, PCs, Goto, At, config_vars, list_vars,
          call_vars, user_vars, instance_vars, port_vars
  <1>1. CASE Request(t, p)
    BY <1>1 DEF Request
  <1>2. CASE SkipCreate(t, p)
    BY <1>2 DEF SkipCreate
  <1>3. CASE EnterCreate(t, p)
    BY <1>3 DEF EnterCreate, OnceRuns
  <1>4. ASSUME NEW d \in Providers, ResolveDep(t, p, d)
        PROVE  TypeOK'
    BY <1>4 DEF ResolveDep
  <1>5. CASE Construct(t, p)
    BY <1>5 DEF Construct
  <1>6. CASE LockList(t, p)
    BY <1>6 DEF LockList, LockTaken, LockTested
  <1>7. CASE SetLocked(t, p)
    BY <1>7 DEF SetLocked, LockSet
  <1>8. CASE ReadSize(t, p)
    BY <1>8 DEF ReadSize
  <1>9. CASE AppendSelf(t, p)
    <2>1. slot[<<t, p>>] + 1 \in 1..Len(cleanup_list)
      BY <1>9 DEF AppendSelf
    <2>2. cleanup_list' \in Seq(Providers \cup {NoProvider})
      BY <1>9, <2>1, ExceptSeq DEF AppendSelf
    <2> QED  BY <1>9, <2>1, <2>2 DEF AppendSelf
  <1>10. CASE UnlockList(t, p)
    BY <1>10 DEF UnlockList, Unlock
  <1>11. CASE SetCalled(t, p)
    BY <1>11 DEF SetCalled, OnceDone
  <1>12. CASE Return(t, p)
    BY <1>12 DEF Return
  <1> QED
    BY <1>1, <1>2, <1>3, <1>4, <1>5, <1>6, <1>7, <1>8, <1>9, <1>10, <1>11, <1>12
    DEF GetStep

\* So does every other step: configuration, Cleanup() and the deletions.
LEMMA StepTyped == TypeOK /\ [Next]_vars => TypeOK'
  <1> SUFFICES ASSUME TypeOK, [Next]_vars
               PROVE  TypeOK'
    OBVIOUS
  <1>1. ASSUME NEW t \in Threads, NEW p \in Providers,
               Request(t, p) \/ GetStep(t, p)
        PROVE  TypeOK'
    BY <1>1, GetStepTyped
  <1> USE PortAssumption, SingletonAssumption
      DEF TypeOK, PortTypeOK, Phases, config_vars, list_vars, call_vars, user_vars,
          instance_vars, port_vars
  <1>2. ASSUME NEW p \in Providers, AddToInitList(p)
        PROVE  TypeOK'
    BY <1>2 DEF AddToInitList
  <1>3. CASE ContextInit
    <2>1. cleanup_list' \in Seq(Providers \cup {NoProvider})
      BY <1>3 DEF ContextInit
    <2> QED  BY <1>3, <2>1 DEF ContextInit
  <1>4. CASE BeginCleanup
    <2>1. locked' \in BOOLEAN /\ phase' \in Phases /\ cursor' \in Nat
      BY <1>4 DEF BeginCleanup
    <2> QED  BY <1>4, <2>1 DEF BeginCleanup
  <1>5. CASE CleanupProvider
    <2>1. PICK p : /\ alive' = [alive EXCEPT ![p] = @ \ {object[p]}]
                   /\ object' = [object EXCEPT ![p] = 0]
      BY <1>5 DEF CleanupProvider
    <2>2. alive' \in [Providers -> SUBSET Nat] /\ object' \in [Providers -> Nat]
      BY <2>1
    <2>3. cursor' \in Nat
      BY <1>5 DEF CleanupProvider
    <2> QED  BY <1>5, <2>2, <2>3 DEF CleanupProvider
  <1>6. CASE EndCleanup
    <2>1. locked' \in BOOLEAN /\ phase' \in Phases
      BY <1>6 DEF EndCleanup, Unlock
    <2>2. cursor' \in Nat
      BY <1>6 DEF EndCleanup
    <2> QED  BY <1>6, <2>1, <2>2 DEF EndCleanup
  <1>7. CASE DeleteProvider \/ DeleteContext
    BY <1>7 DEF DeleteProvider, DeleteContext
  <1>8. CASE Abort \/ Overflow
    BY <1>8 DEF Abort, Overflow
  <1>9. CASE UNCHANGED vars
    BY <1>9 DEF vars
  <1> QED
    BY <1>1, <1>2, <1>3, <1>4, <1>5, <1>6, <1>7, <1>8, <1>9
    DEF Next, TeardownStep

\* Type correctness, for every port.
THEOREM SingletonTypeCorrect == Spec => []TypeOK
  <1> QED  BY InitTyped, StepTyped, PTL DEF Spec

-----------------------------------------------------------------------------
(* One instance of each type, whoever asks first.                           *)

\* At first nothing is under construction and nothing has been returned.
LEMMA OnceInitHolds == Init => OnceInv
  <1> SUFFICES ASSUME Init  PROVE OnceInv
    OBVIOUS
  <1>1. TypeOK
    BY InitTyped
  <1>2. OneCreator /\ CreatedByRunner /\ ReturnedIsTheInstance
    BY SingletonAssumption
    DEF Init, PortInit, OneCreator, CreatedByRunner, ReturnedIsTheInstance,
        Constructing, Registering, Frames
  <1> QED  BY <1>1, <1>2 DEF OnceInv

\* A step that leaves a frame where it is, or moves it within Create(), and
\* touches neither the once nor any instance, keeps all three parts.
LEMMA QuietStep ==
    ASSUME OnceInv, TypeOK',
           UNCHANGED <<called, runner, object, made, seen>>,
           phase' \in {"binding", "live"} => phase \in {"binding", "live"},
           \A t \in Threads, p \in Providers :
             \/ pc'[<<t, p>>] = pc[<<t, p>>]
             \/ pc'[<<t, p>>] \in {"idle", "once"}
             \/ pc'[<<t, p>>] \in Registering /\ pc[<<t, p>>] \in Registering
    PROVE  OnceInv'
  <1> USE DEF OnceInv, Constructing, Registering
  <1>1. OneCreator'
    BY DEF OneCreator
  <1>2. CreatedByRunner'
    BY DEF CreatedByRunner
  <1>3. ReturnedIsTheInstance'
    BY DEF ReturnedIsTheInstance
  <1> QED  BY <1>1, <1>2, <1>3

\* The frame of t for p takes a step to `step`, and leaves of p what it should.
OneMoves(t, p, step) ==
    /\ \A u \in Threads, q \in Providers :
         pc'[<<u, q>>] = IF u = t /\ q = p THEN step ELSE pc[<<u, q>>]
    /\ \A q \in Providers : q # p =>
         called'[q] = called[q] /\ runner'[q] = runner[q] /\ made'[q] = made[q]
    /\ made'[p] \in {0, 1} /\ (~called'[p] /\ runner'[p] = NoThread => made'[p] = 0)
    /\ called'[p] => made'[p] = 1
    /\ \A u \in Threads :
         /\ pc'[<<u, p>>] \in Constructing \cup Registering => runner'[p] = u /\ ~called'[p]
         /\ pc'[<<u, p>>] \in Constructing => made'[p] = 0
         /\ pc'[<<u, p>>] \in Registering \cup {"return"} => made'[p] = 1

\* Of the other providers everything stays as it is.
LEMMA OneProviderMoves ==
    ASSUME OneCreator, CreatedByRunner, NEW t \in Threads, NEW p \in Providers, NEW step,
           OneMoves(t, p, step)
    PROVE  OneCreator' /\ CreatedByRunner'
  <1> USE DEF OneMoves
  <1>1. \A u \in Threads, q \in Providers : q # p => pc'[<<u, q>>] = pc[<<u, q>>]
    OBVIOUS
  <1>2. OneCreator'
    BY <1>1 DEF OneCreator, Constructing, Registering
  <1>3. CreatedByRunner'
    BY <1>1 DEF CreatedByRunner, Constructing, Registering
  <1> QED  BY <1>2, <1>3

\* A step of Get() or Create() keeps the invariant: entering Create() makes the
\* frame the one runner, constructing uses that up, and Get() returns only what
\* a runner has left behind.
LEMMA GetStepOnce ==
    ASSUME PortedOnce, OnceInv, TypeOK', NEW t \in Threads, NEW p \in Providers,
           Request(t, p) \/ GetStep(t, p)
    PROVE  OnceInv'
  <1> USE PortAssumption, SingletonAssumption
      DEF OnceInv, TypeOK, PortTypeOK, Frames, Goto, At
  <1> DEFINE Moves(step) == pc' = [pc EXCEPT ![<<t, p>>] = step]
  <1>1. CASE \/ Request(t, p) \/ LockList(t, p) \/ SetLocked(t, p)
             \/ ReadSize(t, p) \/ AppendSelf(t, p) \/ UnlockList(t, p)
    <2>1. UNCHANGED <<called, runner, phase, object, made, seen>>
      BY <1>1 DEF Request, LockList, SetLocked, ReadSize, AppendSelf, UnlockList,
                  port_vars, config_vars, instance_vars
    <2>2. \/ Moves("once")
          \/ /\ pc[<<t, p>>] \in Registering
             /\ \E step \in Registering : Moves(step)
      <3>1. CASE Request(t, p) \/ LockList(t, p)
        BY <3>1 DEF Request, LockList, Registering
      <3>2. CASE SetLocked(t, p) \/ ReadSize(t, p)
        BY <3>2 DEF SetLocked, ReadSize, Registering
      <3>3. CASE AppendSelf(t, p) \/ UnlockList(t, p)
        BY <3>3 DEF AppendSelf, UnlockList, Registering
      <3> QED  BY <1>1, <3>1, <3>2, <3>3
    <2>3. \A u \in Threads, q \in Providers :
            \/ pc'[<<u, q>>] = pc[<<u, q>>]
            \/ pc'[<<u, q>>] \in {"idle", "once"}
            \/ pc'[<<u, q>>] \in Registering /\ pc[<<u, q>>] \in Registering
      <3>1. pc \in [Threads \X Providers -> PCs]
        OBVIOUS
      <3> HIDE DEF OnceInv, TypeOK, PortTypeOK, PCs
      <3>2. \A step : Moves(step) =>
              \A u \in Threads, q \in Providers :
                pc'[<<u, q>>] = IF u = t /\ q = p THEN step ELSE pc[<<u, q>>]
        BY <3>1
      <3> QED  BY <2>2, <3>2
    <2> HIDE DEF OnceInv, TypeOK
    <2> QED  BY <2>1, <2>3, QuietStep
  <1>2. CASE SkipCreate(t, p)
    <2>1. /\ called[p] /\ Moves("return")
          /\ UNCHANGED <<called, runner, phase, object, made, seen>>
      BY <1>2 DEF SkipCreate, OnceSkips, port_vars, config_vars, instance_vars
    <2>2. OneCreator'
      BY <2>1 DEF OneCreator, Constructing, Registering
    <2>3. CreatedByRunner'
      BY <2>1 DEF CreatedByRunner, Constructing, Registering
    <2>4. ReturnedIsTheInstance'
      BY <2>1 DEF ReturnedIsTheInstance
    <2> QED  BY <2>2, <2>3, <2>4
  <1>3. CASE EnterCreate(t, p)
    <2>1. /\ ~called[p] /\ runner[p] = NoThread
          /\ runner' = [runner EXCEPT ![p] = t]
          /\ Moves("resolve")
          /\ UNCHANGED <<called, phase, object, made, seen>>
      BY <1>3 DEF EnterCreate, OnceRuns, port_vars, config_vars, instance_vars
    <2>2. \A u \in Threads :
            pc[<<u, p>>] \notin Constructing \cup Registering \cup {"return"}
      BY <2>1 DEF OneCreator, CreatedByRunner
    <2>3. \A u \in Threads, q \in Providers :
            pc'[<<u, q>>] = IF u = t /\ q = p THEN "resolve" ELSE pc[<<u, q>>]
      BY <2>1
    <2>4. \A q \in Providers :
            /\ called'[q] = called[q] /\ made'[q] = made[q]
            /\ runner'[q] = IF q = p THEN t ELSE runner[q]
      BY <2>1
    <2>5. made[p] = 0
      BY <2>1 DEF CreatedByRunner
    <2>6. /\ \A q \in Providers : q # p =>
               called'[q] = called[q] /\ runner'[q] = runner[q] /\ made'[q] = made[q]
          /\ made'[p] \in {0, 1} /\ (~called'[p] /\ runner'[p] = NoThread => made'[p] = 0)
          /\ called'[p] => made'[p] = 1
      BY <2>1, <2>4, <2>5
    <2>7. \A u \in Threads :
            /\ pc'[<<u, p>>] \in Constructing \cup Registering => runner'[p] = u /\ ~called'[p]
            /\ pc'[<<u, p>>] \in Constructing => made'[p] = 0
            /\ pc'[<<u, p>>] \in Registering \cup {"return"} => made'[p] = 1
      BY <2>1, <2>2, <2>3, <2>4, <2>5 DEF Constructing, Registering
    <2>8. OneCreator' /\ CreatedByRunner'
      <3>1. OneMoves(t, p, "resolve")
        BY <2>3, <2>6, <2>7 DEF OneMoves
      <3> QED  BY <3>1, OneProviderMoves
    <2>9. ReturnedIsTheInstance'
      BY <2>1 DEF ReturnedIsTheInstance
    <2> QED  BY <2>8, <2>9
  <1>4. ASSUME NEW d \in Providers, ResolveDep(t, p, d)
        PROVE  OnceInv'
    <2>1. UNCHANGED <<called, runner, phase, object, made, seen>>
      BY <1>4 DEF ResolveDep, port_vars, config_vars, instance_vars
    <2>2. pc' = [pc EXCEPT ![<<t, d>>] = "once"]
      BY <1>4 DEF ResolveDep
    <2> QED  BY <2>1, <2>2, QuietStep
  <1>5. CASE Construct(t, p)
    <2>1. /\ phase = "live" /\ pc[<<t, p>>] = "resolve" /\ Moves("lock")
          /\ made' = [made EXCEPT ![p] = @ + 1]
          /\ object' = [object EXCEPT ![p] = made[p] + 1]
          /\ UNCHANGED <<called, runner, phase, seen>>
      BY <1>5 DEF Construct, port_vars, config_vars
    <2>2. made[p] = 0 /\ runner[p] = t /\ ~called[p]
      BY <2>1 DEF OneCreator, CreatedByRunner, Constructing
    <2>3. \A u \in Threads : u # t =>
            pc[<<u, p>>] \notin Constructing \cup Registering \cup {"return"}
      BY <2>2 DEF OneCreator, CreatedByRunner
    <2>4. \A u \in Threads, q \in Providers :
            pc'[<<u, q>>] = IF u = t /\ q = p THEN "lock" ELSE pc[<<u, q>>]
      BY <2>1
    <2>5. \A q \in Providers : made'[q] = IF q = p THEN 1 ELSE made[q]
      BY <2>1, <2>2
    <2>6. /\ \A q \in Providers : q # p =>
               called'[q] = called[q] /\ runner'[q] = runner[q] /\ made'[q] = made[q]
          /\ made'[p] \in {0, 1} /\ (~called'[p] /\ runner'[p] = NoThread => made'[p] = 0)
          /\ called'[p] => made'[p] = 1
      BY <2>1, <2>2, <2>5
    <2>7. \A u \in Threads :
            /\ pc'[<<u, p>>] \in Constructing \cup Registering => runner'[p] = u /\ ~called'[p]
            /\ pc'[<<u, p>>] \in Constructing => made'[p] = 0
            /\ pc'[<<u, p>>] \in Registering \cup {"return"} => made'[p] = 1
      BY <2>1, <2>2, <2>3, <2>4, <2>5 DEF Constructing, Registering
    <2>8. OneCreator' /\ CreatedByRunner'
      <3>1. OneMoves(t, p, "lock")
        BY <2>4, <2>6, <2>7 DEF OneMoves
      <3> QED  BY <3>1, OneProviderMoves
    <2>9. ReturnedIsTheInstance'
      BY <2>1, <2>2 DEF ReturnedIsTheInstance
    <2> QED  BY <2>8, <2>9
  <1>6. CASE SetCalled(t, p)
    <2>1. /\ pc[<<t, p>>] = "set_called" /\ Moves("return")
          /\ called' = [called EXCEPT ![p] = TRUE]
          /\ runner' = [runner EXCEPT ![p] = NoThread]
          /\ UNCHANGED <<phase, object, made, seen>>
      BY <1>6 DEF SetCalled, OnceDone, config_vars, instance_vars
    <2>2. made[p] = 1 /\ runner[p] = t
      BY <2>1 DEF OneCreator, CreatedByRunner, Registering
    <2>3. \A u \in Threads : u # t => pc[<<u, p>>] \notin Constructing \cup Registering
      BY <2>2 DEF OneCreator
    <2>4. \A u \in Threads, q \in Providers :
            pc'[<<u, q>>] = IF u = t /\ q = p THEN "return" ELSE pc[<<u, q>>]
      BY <2>1
    <2>5. \A q \in Providers :
            /\ called'[q] = IF q = p THEN TRUE ELSE called[q]
            /\ runner'[q] = IF q = p THEN NoThread ELSE runner[q]
      BY <2>1
    <2>6. /\ \A q \in Providers : q # p =>
               called'[q] = called[q] /\ runner'[q] = runner[q] /\ made'[q] = made[q]
          /\ made'[p] \in {0, 1} /\ (~called'[p] /\ runner'[p] = NoThread => made'[p] = 0)
          /\ called'[p] => made'[p] = 1
      BY <2>1, <2>2, <2>5
    <2>7. \A u \in Threads :
            /\ pc'[<<u, p>>] \in Constructing \cup Registering => runner'[p] = u /\ ~called'[p]
            /\ pc'[<<u, p>>] \in Constructing => made'[p] = 0
            /\ pc'[<<u, p>>] \in Registering \cup {"return"} => made'[p] = 1
      BY <2>1, <2>2, <2>3, <2>4, <2>5 DEF Constructing, Registering
    <2>8. OneCreator' /\ CreatedByRunner'
      <3>1. OneMoves(t, p, "return")
        BY <2>4, <2>6, <2>7 DEF OneMoves
      <3> QED  BY <3>1, OneProviderMoves
    <2>9. ReturnedIsTheInstance'
      BY <2>1 DEF ReturnedIsTheInstance
    <2> QED  BY <2>8, <2>9
  <1>7. CASE Return(t, p)
    <2>1. /\ phase = "live" /\ pc[<<t, p>>] = "return" /\ Moves("idle")
          /\ seen' = [seen EXCEPT ![p] = @ \cup {object[p]}]
          /\ UNCHANGED <<called, runner, phase, object, made>>
      BY <1>7 DEF Return, port_vars, config_vars
    <2>2. made[p] = 1 /\ object[p] = 1
      BY <2>1 DEF CreatedByRunner, ReturnedIsTheInstance
    <2>3. OneCreator'
      BY <2>1 DEF OneCreator, Constructing, Registering
    <2>4. CreatedByRunner'
      BY <2>1 DEF CreatedByRunner, Constructing, Registering
    <2>5. ReturnedIsTheInstance'
      BY <2>1, <2>2 DEF ReturnedIsTheInstance
    <2> QED  BY <2>3, <2>4, <2>5
  <1> QED
    BY <1>1, <1>2, <1>3, <1>4, <1>5, <1>6, <1>7 DEF GetStep

\* The steps outside Get() keep it: only Cleanup() touches an instance, and by
\* then no call returns any more.
LEMMA OnceStepHolds ==
    ASSUME PortedOnce
    PROVE  OnceInv /\ [Next]_vars => OnceInv'
  <1> SUFFICES ASSUME OnceInv, [Next]_vars
               PROVE  OnceInv'
    OBVIOUS
  <1>1. TypeOK'
    BY StepTyped DEF OnceInv
  <1>2. ASSUME NEW t \in Threads, NEW p \in Providers,
               Request(t, p) \/ GetStep(t, p)
        PROVE  OnceInv'
    BY <1>1, <1>2, GetStepOnce
  <1>3. CASE CleanupProvider
    <2>1. /\ phase = "cleanup" /\ phase' = phase
          /\ UNCHANGED <<called, runner, made, seen, pc>>
      BY <1>3 DEF CleanupProvider, port_vars, call_vars, user_vars
    <2>2. OneCreator' /\ CreatedByRunner'
      BY <2>1 DEF OnceInv, OneCreator, CreatedByRunner
    <2>3. ReturnedIsTheInstance'
      BY <2>1 DEF OnceInv, ReturnedIsTheInstance
    <2> QED  BY <1>1, <2>2, <2>3 DEF OnceInv
  <1>4. CASE \/ \E p \in Providers : AddToInitList(p)
             \/ ContextInit \/ BeginCleanup \/ EndCleanup \/ DeleteProvider
             \/ DeleteContext \/ Abort \/ Overflow \/ UNCHANGED vars
    <2>1. UNCHANGED <<called, runner, object, made, seen, pc>>
      BY <1>4
      DEF AddToInitList, ContextInit, BeginCleanup, EndCleanup, DeleteProvider,
          DeleteContext, Abort, Overflow, vars, port_vars, call_vars, user_vars,
          instance_vars
    <2>2. phase' \in {"binding", "live"} => phase \in {"binding", "live"}
      BY <1>4
      DEF AddToInitList, ContextInit, BeginCleanup, EndCleanup, DeleteProvider,
          DeleteContext, Abort, Overflow, vars, config_vars
    <2> QED  BY <1>1, <2>1, <2>2, QuietStep
  <1> QED
    BY <1>2, <1>3, <1>4 DEF Next, TeardownStep

\* The invariant holds of every execution on a port whose once waits.
THEOREM OnceInvariant == PortedOnce => (Spec => []OnceInv)
  <1> SUFFICES ASSUME PortedOnce  PROVE Spec => []OnceInv
    OBVIOUS
  <1> QED  BY OnceInitHolds, OnceStepHolds, PTL DEF Spec

\* With a once that keeps its promise, a type is constructed at most once.
THEOREM SingletonInstantiatedOnce == PortedOnce => (Spec => []InstantiatedOnce)
  <1>1. OnceInv => InstantiatedOnce
    BY DEF OnceInv, CreatedByRunner, InstantiatedOnce
  <1> QED  BY <1>1, OnceInvariant, PTL

\* Every Get() of a live injector has returned the one instance.
THEOREM SingletonSameInstance == PortedOnce => (Spec => []SameInstance)
  <1>1. OnceInv => SameInstance
    BY DEF OnceInv, ReturnedIsTheInstance, SameInstance
  <1> QED  BY <1>1, OnceInvariant, PTL

-----------------------------------------------------------------------------
(* NULL is not returned on any port, the shipped placeholders included: a    *)
(* first request that comes in between may replace the instance, but object_ *)
(* stays set from the constructor on, and no call is left when Cleanup()     *)
(* clears it.                                                                *)

SetOnceMade ==
    phase \in {"binding", "live"} =>
      /\ \A p \in Providers : called[p] => object[p] # 0
      /\ \A t \in Threads, p \in Providers :
           pc[<<t, p>>] \in Registering \cup {"return"} => object[p] # 0

NotNullInv == TypeOK /\ SetOnceMade /\ NeverNull

\* A step of Get() or Create() keeps it.
LEMMA GetStepNotNull ==
    ASSUME NotNullInv, NEW t \in Threads, NEW p \in Providers,
           Request(t, p) \/ GetStep(t, p)
    PROVE  SetOnceMade' /\ NeverNull'
  <1> USE PortAssumption, SingletonAssumption
      DEF NotNullInv, TypeOK, PortTypeOK, Frames, SetOnceMade, NeverNull, Registering
  <1> DEFINE Moves(step) == pc' = [pc EXCEPT ![<<t, p>>] = step]
  <1>1. phase = "live" /\ phase' = phase
    BY DEF Request, GetStep, SkipCreate, EnterCreate, ResolveDep, Construct, LockList,
           SetLocked, ReadSize, AppendSelf, UnlockList, SetCalled, Return, At,
           config_vars
  <1>2. CASE \/ Request(t, p) \/ SkipCreate(t, p) \/ EnterCreate(t, p) \/ LockList(t, p)
             \/ SetLocked(t, p) \/ ReadSize(t, p) \/ AppendSelf(t, p) \/ UnlockList(t, p)
    <2>1. UNCHANGED <<called, object, seen>>
      BY <1>2 DEF Request, SkipCreate, EnterCreate, LockList, SetLocked, ReadSize,
                  AppendSelf, UnlockList, port_vars, instance_vars
    <2>2. \/ Moves("once") \/ Moves("resolve")
          \/ called[p] /\ Moves("return")
          \/ /\ pc[<<t, p>>] \in Registering
             /\ \E step \in Registering : Moves(step)
      BY <1>2 DEF Request, SkipCreate, EnterCreate, LockList, SetLocked, ReadSize,
                  AppendSelf, UnlockList, At, Goto, OnceSkips
    <2>3. \A u \in Threads, q \in Providers :
            pc'[<<u, q>>] \in Registering \cup {"return"} =>
              called[q] \/ pc[<<u, q>>] \in Registering \cup {"return"}
      BY <2>2
    <2>4. SetOnceMade'
      BY <1>1, <2>1, <2>3
    <2> QED  BY <2>1, <2>4
  <1>3. ASSUME NEW d \in Providers, ResolveDep(t, p, d)
        PROVE  SetOnceMade' /\ NeverNull'
    <2>1. pc' = [pc EXCEPT ![<<t, d>>] = "once"] /\ UNCHANGED <<called, object, seen>>
      BY <1>3 DEF ResolveDep, Goto, port_vars, instance_vars
    <2> QED  BY <1>1, <2>1
  <1>4. CASE Construct(t, p)
    <2>1. /\ Moves("lock") /\ object' = [object EXCEPT ![p] = made[p] + 1]
          /\ UNCHANGED <<called, seen>>
      BY <1>4 DEF Construct, Goto, port_vars
    <2>2. made[p] + 1 # 0
      OBVIOUS
    <2> QED  BY <1>1, <2>1, <2>2
  <1>5. CASE SetCalled(t, p)
    <2>1. /\ pc[<<t, p>>] = "set_called" /\ Moves("return")
          /\ called' = [called EXCEPT ![p] = TRUE] /\ UNCHANGED <<object, seen>>
      BY <1>5 DEF SetCalled, OnceDone, At, Goto, instance_vars
    <2> QED  BY <1>1, <2>1
  <1>6. CASE Return(t, p)
    <2>1. /\ pc[<<t, p>>] = "return" /\ Moves("idle")
          /\ seen' = [seen EXCEPT ![p] = @ \cup {object[p]}]
          /\ UNCHANGED <<called, object>>
      BY <1>6 DEF Return, At, Goto, port_vars
    <2> QED  BY <1>1, <2>1
  <1> QED  BY <1>2, <1>3, <1>4, <1>5, <1>6 DEF GetStep

\* So does every other step.
LEMMA NotNullStep == NotNullInv /\ [Next]_vars => NotNullInv'
  <1> SUFFICES ASSUME NotNullInv, [Next]_vars  PROVE NotNullInv'
    OBVIOUS
  <1>1. TypeOK'
    BY StepTyped DEF NotNullInv
  <1>2. ASSUME NEW t \in Threads, NEW p \in Providers, Request(t, p) \/ GetStep(t, p)
        PROVE  NotNullInv'
    BY <1>1, <1>2, GetStepNotNull DEF NotNullInv
  <1>3. CASE CleanupProvider
    BY <1>1, <1>3 DEF CleanupProvider, NotNullInv, SetOnceMade, NeverNull
  <1>4. CASE \/ \E p \in Providers : AddToInitList(p)
             \/ ContextInit \/ BeginCleanup \/ EndCleanup \/ DeleteProvider
             \/ DeleteContext \/ Abort \/ Overflow \/ UNCHANGED vars
    <2>1. UNCHANGED <<called, object, seen, pc>>
      BY <1>4
      DEF AddToInitList, ContextInit, BeginCleanup, EndCleanup, DeleteProvider,
          DeleteContext, Abort, Overflow, vars, port_vars, call_vars, user_vars,
          instance_vars
    <2>2. phase' \in {"binding", "live"} => phase \in {"binding", "live"}
      BY <1>4
      DEF AddToInitList, ContextInit, BeginCleanup, EndCleanup, DeleteProvider,
          DeleteContext, Abort, Overflow, vars, config_vars
    <2> QED  BY <1>1, <2>1, <2>2 DEF NotNullInv, SetOnceMade, NeverNull
  <1> QED  BY <1>2, <1>3, <1>4 DEF Next, TeardownStep

\* No Get() returns NULL, however first requests interleave.
THEOREM SingletonNeverNull == Spec => []NeverNull
  <1>1. Init => NotNullInv
    BY InitTyped, SingletonAssumption
    DEF Init, PortInit, NotNullInv, SetOnceMade, NeverNull, Registering, Frames
  <1>2. NotNullInv => NeverNull
    BY DEF NotNullInv
  <1> QED  BY <1>1, <1>2, NotNullStep, PTL DEF Spec
=============================================================================
