---------------------- MODULE LazySingletonScopeProofs ----------------------
(***************************************************************************)
(* What the whole scope promises, proved for any threads, providers,       *)
(* dependencies and number of requests: no check fails and no write goes   *)
(* past the array, what an instance was built from outlives it, Cleanup()  *)
(* leaves nothing behind, and LazySingleton implements SingletonScope, the *)
(* scope as its user sees it, and OwnerStack, an owner of instances.       *)
(*                                                                         *)
(* It holds in two cases, which one invariant covers (Orderly): the port   *)
(* provides a mutex and a once that wait, or it ships the placeholders and *)
(* no two threads have been inside Get() at once so far.                   *)
(*                                                                         *)
(* The argument: the frames of a thread form a stack of which only the top *)
(* runs (CallStack), so that in either case one frame at a time is in      *)
(* Create() for a provider and one is in the critical section (OneCreates, *)
(* MutexHeld). A constructor runs when every argument has been returned    *)
(* (ArgumentsReturned), which happens after the argument was appended, so  *)
(* the list has dependencies before their users, each provider once        *)
(* (ListedOnce, DependenciesFirst), and never more than were registered.   *)
(* Cleanup() then walks down from the last (CleanedFromTheEnd). The steps  *)
(* of the abstract specifications follow: a constructor meets living       *)
(* arguments, and a turn of Cleanup()'s loop deletes the last provider of  *)
(* the list, which nobody alive was built from.                            *)
(***************************************************************************)
EXTENDS LazySingletonProofs, FiniteSets, FiniteSetTheorems, WellFoundedInduction

\* The two cases in which the scope keeps its promises.
Orderly == ~overlapped \/ (PortedMutex /\ PortedOnce)

InCreate == Constructing \cup Registering
Critical == {"set_locked", "read_size", "append", "unlock"}
Holding == {"read_size", "append", "unlock"}
Past == {"unlock", "set_called"}   \* in Create(), after the append

Top(t, p) == pc[<<t, p>>] # "idle" /\ callee[<<t, p>>] = NoProvider
Appended(p) == called[p] \/ \E t \in Threads : pc[<<t, p>>] \in Past

\* The frames of one thread: a frame that waits is at its arguments, the frame
\* it waits for is under way and nobody else waits for it, and one frame runs.
CalleesRun ==
    \A t \in Threads, p \in Providers :
      callee[<<t, p>>] # NoProvider =>
        pc[<<t, p>>] = "resolve" /\ pc[<<t, callee[<<t, p>>]>>] # "idle"

CallersDiffer ==
    \A t \in Threads, p, q \in Providers :
      callee[<<t, p>>] = callee[<<t, q>>] /\ callee[<<t, p>>] # NoProvider => p = q

OneRuns ==
    \A t \in Threads, p, q \in Providers : Top(t, p) /\ Top(t, q) => p = q

CallStack == CalleesRun /\ CallersDiffer /\ OneRuns

OverlapNoticed ==
    \A t, u \in Threads, p, q \in Providers :
      pc[<<t, p>>] # "idle" /\ pc[<<u, q>>] # "idle" /\ t # u => overlapped

\* The mutex, or the absence of a second thread, keeps the critical section to
\* one frame, whose copy of the size is up to date.
OneInside ==
    \A t, u \in Threads, p, q \in Providers :
      pc[<<t, p>>] \in Critical /\ pc[<<u, q>>] \in Critical => t = u /\ p = q

SlotIsNext ==
    \A t \in Threads, p \in Providers :
      /\ PortedMutex => pc[<<t, p>>] # "set_locked"
      /\ pc[<<t, p>>] = "append" => slot[<<t, p>>] = cleanup_list_size

LockedWhileInside ==
    /\ phase \in {"binding", "live"} =>
         (locked <=> \E t \in Threads, p \in Providers : pc[<<t, p>>] \in Holding)
    /\ phase = "cleanup" => locked

MutexHeld == OneInside /\ SlotIsNext /\ LockedWhileInside

\* One frame at a time is in Create() for a provider, before the once is done;
\* the instance is there from the constructor on.
OneCreates ==
    /\ \A t, u \in Threads, p \in Providers :
         pc[<<t, p>>] \in InCreate /\ pc[<<u, p>>] \in InCreate => t = u
    /\ \A t \in Threads, p \in Providers :
         /\ pc[<<t, p>>] \in InCreate => ~called[p]
         /\ pc[<<t, p>>] = "return" => called[p]
    /\ \A p \in Providers :
         /\ made[p] \in {0, 1}
         /\ made[p] = 1 <=>
              called[p] \/ \E t \in Threads : pc[<<t, p>>] \in Registering
         /\ seen[p] \subseteq {1}
         /\ seen[p] # {} => called[p]

\* A constructor's arguments have been returned when it runs.
ArgumentsReturned ==
    \A p \in Providers : \A d \in Deps[p] :
      /\ made[p] = 1 => seen[d] # {}
      /\ \A t \in Threads : pc[<<t, p>>] = "resolve" =>
           d \in todo[<<t, p>>] \/ callee[<<t, p>>] = d \/ seen[d] # {}

\* The array: every provider that has been appended once, and no other.
ListedOnce ==
    /\ cleanup_list_size <= Len(cleanup_list)
    /\ \A i \in 1..cleanup_list_size :
         cleanup_list[i] \in Providers /\ Appended(cleanup_list[i])
    /\ \A p \in Providers : Appended(p) =>
         \E i \in 1..cleanup_list_size : cleanup_list[i] = p
    /\ \A i, j \in 1..cleanup_list_size : cleanup_list[i] = cleanup_list[j] => i = j

DependenciesFirst ==
    \A i \in 1..cleanup_list_size : \A d \in Deps[cleanup_list[i]] :
      \E j \in 1..(i - 1) : cleanup_list[j] = d

\* What Cleanup() has passed is deleted, and the rest is not.
CleanedFromTheEnd ==
    /\ \A p \in Providers : alive[p] = {object[p]} \ {0}
    /\ phase \in {"binding", "live"} => object = made
    /\ phase = "cleanup" =>
         /\ cursor <= cleanup_list_size
         /\ \A p \in Providers :
              object[p] = IF \E i \in 1..cursor : cleanup_list[i] = p THEN 1 ELSE 0
    /\ phase \in {"deleting", "gone"} => \A p \in Providers : object[p] = 0

PhasesInOrder ==
    /\ phase \notin {"aborted", "corrupt"}
    /\ phase # "live" => \A t \in Threads : Idle(t)
    /\ phase = "binding" => cleanup_list_size = 0
    /\ phase # "binding" =>
         /\ injector
         /\ Registered = Providers
         /\ Len(cleanup_list) = Len(init_list)
    /\ phase \in {"deleting", "gone"} => cursor <= Len(init_list)

OrderlyInv ==
    /\ PhasesInOrder
    /\ MutexHeld
    /\ OneCreates
    /\ ArgumentsReturned
    /\ ListedOnce
    /\ DependenciesFirst
    /\ CleanedFromTheEnd

ScopeInv ==
    /\ TypeOK
    /\ PortedOnce => OnceInv
    /\ CallStack
    /\ OverlapNoticed
    /\ Orderly => OrderlyInv

-----------------------------------------------------------------------------
(* The stack of frames.                                                     *)

\* Goto(t, p, step) moves that frame and no other.
LEMMA FrameMoves ==
    ASSUME TypeOK, NEW t \in Threads, NEW p \in Providers, NEW step \in PCs,
           Goto(t, p, step)
    PROVE  \A u \in Threads, q \in Providers :
             pc'[<<u, q>>] = IF u = t /\ q = p THEN step ELSE pc[<<u, q>>]
  BY DEF TypeOK, Goto, Frames

\* What a step of Get() by frame <<t, p>> that neither starts nor ends a call
\* has in common: the frame is the top of its stack and stays there.
LEMMA TopAdvances ==
    ASSUME TypeOK, NEW t \in Threads, NEW p \in Providers,
           \/ SkipCreate(t, p) \/ EnterCreate(t, p) \/ Construct(t, p)
           \/ LockList(t, p) \/ SetLocked(t, p) \/ ReadSize(t, p)
           \/ AppendSelf(t, p) \/ UnlockList(t, p) \/ SetCalled(t, p)
    PROVE  /\ Top(t, p)
           /\ callee' = callee /\ overlapped' = overlapped
           /\ phase = "live" /\ phase' = "live"
           /\ \E step \in PCs \ {"idle"} :
                \A u \in Threads, q \in Providers :
                  pc'[<<u, q>>] = IF u = t /\ q = p THEN step ELSE pc[<<u, q>>]
  <1>1. Top(t, p) /\ phase = "live"
    BY DEF SkipCreate, EnterCreate, Construct, LockList, SetLocked, ReadSize,
           AppendSelf, UnlockList, SetCalled, At, Top
  <1>2. callee' = callee /\ overlapped' = overlapped /\ phase' = phase
    BY DEF SkipCreate, EnterCreate, Construct, LockList, SetLocked, ReadSize,
           AppendSelf, UnlockList, SetCalled, config_vars, user_vars
  <1>3. \E step \in PCs \ {"idle"} : Goto(t, p, step)
    BY DEF SkipCreate, EnterCreate, Construct, LockList, SetLocked, ReadSize,
           AppendSelf, UnlockList, SetCalled, PCs
  <1> QED  BY <1>1, <1>2, <1>3, FrameMoves

\* A step outside Get() leaves every frame where it is.
OwnerStep ==
    \/ \E p \in Providers : AddToInitList(p)
    \/ ContextInit \/ BeginCleanup \/ CleanupProvider \/ EndCleanup
    \/ DeleteProvider \/ DeleteContext \/ Abort \/ Overflow \/ UNCHANGED vars

LEMMA OwnerStepFrames == OwnerStep => UNCHANGED call_vars
  BY DEF OwnerStep, AddToInitList, ContextInit, BeginCleanup, CleanupProvider,
         EndCleanup, DeleteProvider, DeleteContext, Abort, Overflow, vars

LEMMA StepCases ==
    ASSUME [Next]_vars
    PROVE  \/ OwnerStep
           \/ \E t \in Threads, p \in Providers :
                \/ Request(t, p) \/ Return(t, p)
                \/ \E d \in Providers : ResolveDep(t, p, d)
                \/ \/ SkipCreate(t, p) \/ EnterCreate(t, p) \/ Construct(t, p)
                   \/ LockList(t, p) \/ SetLocked(t, p) \/ ReadSize(t, p)
                   \/ AppendSelf(t, p) \/ UnlockList(t, p) \/ SetCalled(t, p)
  BY DEF Next, GetStep, TeardownStep, OwnerStep

\* Calls push and pop frames of a thread's stack, whatever the port.
LEMMA CallStackHolds ==
    ASSUME TypeOK, CallStack, [Next]_vars
    PROVE  CallStack'
  <1>0. \A u \in Threads, q \in Providers :
          callee[<<u, q>>] \in Providers \cup {NoProvider}
    BY DEF TypeOK, Frames
  <1>1. NoProvider \notin Providers
    BY SingletonAssumption
  <1>2. CASE OwnerStep
    <2>1. pc' = pc /\ callee' = callee
      BY <1>2, OwnerStepFrames DEF call_vars
    <2>6. CalleesRun'
      BY <1>0, <1>1, <2>1 DEF CallStack, CalleesRun
    <2>7. CallersDiffer'
      BY <1>0, <1>1, <2>1 DEF CallStack, CalleesRun, CallersDiffer
    <2>8. OneRuns'
      BY <1>0, <1>1, <2>1 DEF CallStack, CalleesRun, CallersDiffer, OneRuns, Top
    <2> QED  BY <2>6, <2>7, <2>8 DEF CallStack
  <1>3. ASSUME NEW t \in Threads, NEW p \in Providers, Request(t, p)
        PROVE  CallStack'
    <2>1. \A u \in Threads, q \in Providers :
            pc'[<<u, q>>] = IF u = t /\ q = p THEN "once" ELSE pc[<<u, q>>]
      BY <1>3 DEF Request, Goto, TypeOK, Frames
    <2>2. callee' = callee /\ \A q \in Providers : pc[<<t, q>>] = "idle"
      BY <1>3 DEF Request, Idle
    <2>3. \A q \in Providers : callee[<<t, q>>] = NoProvider
      BY <1>1, <2>2 DEF CallStack, CalleesRun
    <2>6. CalleesRun'
      BY <1>0, <1>1, <2>1, <2>2, <2>3 DEF CallStack, CalleesRun
    <2>7. CallersDiffer'
      BY <1>0, <1>1, <2>1, <2>2, <2>3 DEF CallStack, CalleesRun, CallersDiffer
    <2>8. OneRuns'
      BY <1>0, <1>1, <2>1, <2>2, <2>3
      DEF CallStack, CalleesRun, CallersDiffer, OneRuns, Top
    <2> QED  BY <2>6, <2>7, <2>8 DEF CallStack
  <1>4. ASSUME NEW t \in Threads, NEW p \in Providers, NEW d \in Providers,
               ResolveDep(t, p, d)
        PROVE  CallStack'
    <2>1. \A u \in Threads, q \in Providers :
            pc'[<<u, q>>] = IF u = t /\ q = d THEN "once" ELSE pc[<<u, q>>]
      BY <1>4 DEF ResolveDep, Goto, TypeOK, Frames
    <2>2. /\ pc[<<t, p>>] = "resolve" /\ pc[<<t, d>>] = "idle" /\ p # d
          /\ callee[<<t, p>>] = NoProvider /\ callee[<<t, d>>] = NoProvider
      BY <1>4 DEF ResolveDep, At, CallStack, CalleesRun
    <2>3. \A u \in Threads, q \in Providers :
            callee'[<<u, q>>] = IF u = t /\ q = p THEN d ELSE callee[<<u, q>>]
      BY <1>4 DEF ResolveDep, TypeOK, Frames
    <2>4. \A q \in Providers : callee[<<t, q>>] # d
      BY <1>1, <2>2 DEF CallStack, CalleesRun
    <2>5. \A q \in Providers : Top(t, q) => q = p
      BY <2>2 DEF CallStack, OneRuns, Top
    <2>6. CalleesRun'
      BY <1>0, <1>1, <2>1, <2>2, <2>3, <2>4, <2>5 DEF CallStack, CalleesRun
    <2>7. CallersDiffer'
      BY <1>0, <1>1, <2>1, <2>2, <2>3, <2>4, <2>5
      DEF CallStack, CalleesRun, CallersDiffer
    <2>8. OneRuns'
      BY <1>0, <1>1, <2>1, <2>2, <2>3, <2>4, <2>5
      DEF CallStack, CalleesRun, CallersDiffer, OneRuns, Top
    <2> QED  BY <2>6, <2>7, <2>8 DEF CallStack
  <1>5. ASSUME NEW t \in Threads, NEW p \in Providers, Return(t, p)
        PROVE  CallStack'
    <2>1. \A u \in Threads, q \in Providers :
            pc'[<<u, q>>] = IF u = t /\ q = p THEN "idle" ELSE pc[<<u, q>>]
      BY <1>5 DEF Return, Goto, TypeOK, Frames
    <2>2. pc[<<t, p>>] = "return" /\ callee[<<t, p>>] = NoProvider
      BY <1>5 DEF Return, At
    <2>3. \A u \in Threads, q \in Providers :
            callee'[<<u, q>>] = IF u = t /\ callee[<<u, q>>] = p THEN NoProvider
                                ELSE callee[<<u, q>>]
      BY <1>5 DEF Return, Frames
    <2>4. \A q \in Providers : Top(t, q) => q = p
      BY <2>2 DEF CallStack, OneRuns, Top
    <2>6. CalleesRun'
      BY <1>0, <1>1, <2>1, <2>2, <2>3, <2>4 DEF CallStack, CalleesRun
    <2>7. CallersDiffer'
      BY <1>0, <1>1, <2>1, <2>2, <2>3, <2>4
      DEF CallStack, CalleesRun, CallersDiffer
    <2>8. OneRuns'
      BY <1>0, <1>1, <2>1, <2>2, <2>3, <2>4
      DEF CallStack, CalleesRun, CallersDiffer, OneRuns, Top
    <2> QED  BY <2>6, <2>7, <2>8 DEF CallStack
  <1>6. ASSUME NEW t \in Threads, NEW p \in Providers,
               \/ SkipCreate(t, p) \/ EnterCreate(t, p) \/ Construct(t, p)
               \/ LockList(t, p) \/ SetLocked(t, p) \/ ReadSize(t, p)
               \/ AppendSelf(t, p) \/ UnlockList(t, p) \/ SetCalled(t, p)
        PROVE  CallStack'
    <2>1. Top(t, p) /\ callee' = callee
      BY <1>6, TopAdvances
    <2>2. PICK step \in PCs \ {"idle"} : \A u \in Threads, q \in Providers :
            pc'[<<u, q>>] = IF u = t /\ q = p THEN step ELSE pc[<<u, q>>]
      BY <1>6, TopAdvances
    <2>6. CalleesRun'
      BY <1>0, <1>1, <2>1, <2>2 DEF CallStack, CalleesRun, Top
    <2>7. CallersDiffer'
      BY <1>0, <1>1, <2>1, <2>2 DEF CallStack, CalleesRun, CallersDiffer
    <2>8. OneRuns'
      BY <1>0, <1>1, <2>1, <2>2
      DEF CallStack, CalleesRun, CallersDiffer, OneRuns, Top
    <2> QED  BY <2>6, <2>7, <2>8 DEF CallStack
  <1> QED  BY <1>2, <1>3, <1>4, <1>5, <1>6, StepCases

\* Only a request can bring in a second thread, and it is noticed.
LEMMA OverlapHolds ==
    ASSUME TypeOK, OverlapNoticed, [Next]_vars
    PROVE  OverlapNoticed'
  <1>1. CASE OwnerStep
    <2>1. pc' = pc /\ overlapped' = overlapped
      BY <1>1, OwnerStepFrames DEF call_vars, user_vars
    <2> QED  BY <2>1 DEF OverlapNoticed
  <1>2. ASSUME NEW t \in Threads, NEW p \in Providers, Request(t, p)
        PROVE  OverlapNoticed'
    <2>1. \A u \in Threads, q \in Providers :
            pc'[<<u, q>>] = IF u = t /\ q = p THEN "once" ELSE pc[<<u, q>>]
      BY <1>2 DEF Request, Goto, TypeOK, Frames
    <2>2. overlapped' <=>
            overlapped \/ \E u \in Threads \ {t}, q \in Providers : pc[<<u, q>>] # "idle"
      BY <1>2 DEF Request, Idle
    <2> QED  BY <2>1, <2>2 DEF OverlapNoticed
  <1>3. ASSUME NEW t \in Threads, NEW p \in Providers, NEW d \in Providers,
               ResolveDep(t, p, d)
        PROVE  OverlapNoticed'
    <2>1. \A u \in Threads, q \in Providers :
            pc'[<<u, q>>] = IF u = t /\ q = d THEN "once" ELSE pc[<<u, q>>]
      BY <1>3 DEF ResolveDep, Goto, TypeOK, Frames
    <2>2. pc[<<t, p>>] # "idle" /\ overlapped' = overlapped
      BY <1>3 DEF ResolveDep, At, user_vars
    <2> QED  BY <2>1, <2>2 DEF OverlapNoticed
  <1>4. ASSUME NEW t \in Threads, NEW p \in Providers, Return(t, p)
        PROVE  OverlapNoticed'
    <2>1. \A u \in Threads, q \in Providers :
            pc'[<<u, q>>] = IF u = t /\ q = p THEN "idle" ELSE pc[<<u, q>>]
      BY <1>4 DEF Return, Goto, TypeOK, Frames
    <2>2. overlapped' = overlapped
      BY <1>4 DEF Return, user_vars
    <2> QED  BY <2>1, <2>2 DEF OverlapNoticed
  <1>5. ASSUME NEW t \in Threads, NEW p \in Providers,
               \/ SkipCreate(t, p) \/ EnterCreate(t, p) \/ Construct(t, p)
               \/ LockList(t, p) \/ SetLocked(t, p) \/ ReadSize(t, p)
               \/ AppendSelf(t, p) \/ UnlockList(t, p) \/ SetCalled(t, p)
        PROVE  OverlapNoticed'
    <2>1. Top(t, p) /\ overlapped' = overlapped
      BY <1>5, TopAdvances
    <2>2. PICK step \in PCs \ {"idle"} : \A u \in Threads, q \in Providers :
            pc'[<<u, q>>] = IF u = t /\ q = p THEN step ELSE pc[<<u, q>>]
      BY <1>5, TopAdvances
    <2> QED  BY <2>1, <2>2 DEF OverlapNoticed, Top
  <1> QED  BY <1>1, <1>2, <1>3, <1>4, <1>5, StepCases

-----------------------------------------------------------------------------
(* While the execution is orderly.                                          *)

\* An overlap is never forgotten.
LEMMA OrderlyBefore == [Next]_vars /\ Orderly' => Orderly
  <1> SUFFICES ASSUME [Next]_vars, overlapped
               PROVE  overlapped'
    BY DEF Orderly
  <1>1. CASE OwnerStep
    BY <1>1, OwnerStepFrames DEF call_vars, user_vars
  <1>2. ASSUME NEW t \in Threads, NEW p \in Providers,
               \/ Request(t, p) \/ Return(t, p)
               \/ \E d \in Providers : ResolveDep(t, p, d)
        PROVE  overlapped'
    BY <1>2 DEF Request, Return, ResolveDep, user_vars
  <1>3. ASSUME NEW t \in Threads, NEW p \in Providers,
               \/ SkipCreate(t, p) \/ EnterCreate(t, p) \/ Construct(t, p)
               \/ LockList(t, p) \/ SetLocked(t, p) \/ ReadSize(t, p)
               \/ AppendSelf(t, p) \/ UnlockList(t, p) \/ SetCalled(t, p)
        PROVE  overlapped'
    BY <1>3 DEF SkipCreate, EnterCreate, Construct, LockList, SetLocked, ReadSize,
           AppendSelf, UnlockList, SetCalled, user_vars
  <1> QED  BY <1>1, <1>2, <1>3, StepCases

\* Without overlap, no other thread is inside Get(), and of this one's frames
\* only the top is past its arguments.
LEMMA NobodyElse ==
    ASSUME CallStack, OverlapNoticed, ~overlapped, NoProvider \notin Providers,
           NEW t \in Threads, NEW p \in Providers, Top(t, p)
    PROVE  \A u \in Threads, q \in Providers :
             /\ pc[<<u, q>>] # "idle" => u = t
             /\ pc[<<u, q>>] \notin {"idle", "resolve"} => u = t /\ q = p
  <1>1. \A u \in Threads, q \in Providers : pc[<<u, q>>] # "idle" => u = t
    BY DEF OverlapNoticed, Top
  <1>2. \A q \in Providers : pc[<<t, q>>] \notin {"idle", "resolve"} => q = p
    BY DEF CallStack, CalleesRun, OneRuns, Top
  <1> QED  BY <1>1, <1>2

\* A step at which no frame enters or leaves the critical section.
LEMMA MutexUntouched ==
    ASSUME MutexHeld, UNCHANGED <<locked, cleanup_list_size, phase>>,
           \A u \in Threads, q \in Providers :
             \/ /\ pc'[<<u, q>>] = pc[<<u, q>>]
                /\ pc[<<u, q>>] = "append" => slot'[<<u, q>>] = slot[<<u, q>>]
             \/ pc'[<<u, q>>] \notin Critical /\ pc[<<u, q>>] \notin Critical
    PROVE  MutexHeld'
  <1>1. \A u \in Threads, q \in Providers :
          /\ pc'[<<u, q>>] \in Critical <=> pc[<<u, q>>] \in Critical
          /\ pc'[<<u, q>>] \in Critical => pc'[<<u, q>>] = pc[<<u, q>>]
    OBVIOUS
  <1>2. \A u \in Threads, q \in Providers :
          pc'[<<u, q>>] \in Holding <=> pc[<<u, q>>] \in Holding
    BY <1>1 DEF Holding, Critical
  <1>3. \A u \in Threads, q \in Providers :
          pc'[<<u, q>>] = "append" =>
            pc[<<u, q>>] = "append" /\ slot'[<<u, q>>] = slot[<<u, q>>]
    BY DEF Critical
  <1>4. \A u \in Threads, q \in Providers :
          pc'[<<u, q>>] = "set_locked" => pc[<<u, q>>] = "set_locked"
    BY DEF Critical
  <1> QED
    BY <1>1, <1>2, <1>3, <1>4
    DEF MutexHeld, OneInside, SlotIsNext, LockedWhileInside

\* The critical section stays with one frame.
LEMMA MutexHolds ==
    ASSUME ScopeInv, OrderlyInv, Orderly, [Next]_vars
    PROVE  MutexHeld'
  <1> USE DEF OrderlyInv
  <1>0. TypeOK /\ CallStack /\ OverlapNoticed /\ NoProvider \notin Providers
    BY SingletonAssumption DEF ScopeInv
  <1>1. CASE OwnerStep
    <2>1. pc' = pc /\ slot' = slot /\ cleanup_list_size' = cleanup_list_size
      BY <1>1, OwnerStepFrames
      DEF call_vars, OwnerStep, AddToInitList, ContextInit, BeginCleanup,
          CleanupProvider, EndCleanup, DeleteProvider, DeleteContext, Abort,
          Overflow, vars, list_vars
    <2>2. CASE \/ \E p \in Providers : AddToInitList(p)
               \/ ContextInit \/ CleanupProvider \/ UNCHANGED vars
      <3>1. locked' = locked
        BY <2>2 DEF AddToInitList, ContextInit, CleanupProvider, vars, port_vars
      <3>2. \/ phase' = phase
            \/ phase = "binding" /\ phase' = "live"
        BY <2>2 DEF AddToInitList, ContextInit, CleanupProvider, vars, config_vars
      <3> QED
        BY <2>1, <3>1, <3>2
        DEF MutexHeld, OneInside, SlotIsNext, LockedWhileInside
    <2>3. CASE BeginCleanup
      <3>1. phase' = "cleanup" /\ locked' = TRUE
        BY <2>3 DEF BeginCleanup
      <3> QED
        BY <2>1, <3>1 DEF MutexHeld, OneInside, SlotIsNext, LockedWhileInside
    <2>4. CASE EndCleanup \/ DeleteProvider \/ DeleteContext \/ Abort \/ Overflow
      <3>1. phase' \in {"deleting", "gone", "aborted", "corrupt"}
        BY <2>4 DEF EndCleanup, DeleteProvider, DeleteContext, Abort, Overflow
      <3> QED
        BY <2>1, <3>1 DEF MutexHeld, OneInside, SlotIsNext, LockedWhileInside
    <2> QED  BY <1>1, <2>2, <2>3, <2>4 DEF OwnerStep
  <1>2. ASSUME NEW t \in Threads, NEW p \in Providers,
               \/ Request(t, p) \/ Return(t, p)
               \/ SkipCreate(t, p) \/ EnterCreate(t, p) \/ Construct(t, p)
        PROVE  MutexHeld'
    <2>1. /\ UNCHANGED <<locked, cleanup_list_size, phase>>
          /\ \/ slot' = slot
             \/ slot' = [slot EXCEPT ![<<t, p>>] = 0]
      BY <1>2 DEF Request, Return, SkipCreate, EnterCreate, Construct, port_vars,
                  list_vars, config_vars
    <2>2. \E step \in {"once", "idle", "return", "resolve", "lock"} :
            pc' = [pc EXCEPT ![<<t, p>>] = step]
      BY <1>2 DEF Request, Return, SkipCreate, EnterCreate, Construct, Goto
    <2>3. pc[<<t, p>>] \in {"idle", "return", "once", "resolve"}
      BY <1>2 DEF Request, Return, SkipCreate, EnterCreate, Construct, At, Idle
    <2>4. \A u \in Threads, q \in Providers :
             \/ /\ pc'[<<u, q>>] = pc[<<u, q>>]
                /\ slot'[<<u, q>>] = slot[<<u, q>>]
             \/ u = t /\ q = p /\ pc'[<<u, q>>] \in {"once", "idle", "return", "resolve", "lock"}
      BY <1>0, <2>1, <2>2 DEF TypeOK, Frames
    <2>5. \A u \in Threads, q \in Providers :
             \/ /\ pc'[<<u, q>>] = pc[<<u, q>>]
                /\ pc[<<u, q>>] = "append" => slot'[<<u, q>>] = slot[<<u, q>>]
             \/ pc'[<<u, q>>] \notin Critical /\ pc[<<u, q>>] \notin Critical
      BY <2>3, <2>4 DEF Critical
    <2> QED  BY <2>1, <2>5, MutexUntouched
  <1>3. ASSUME NEW t \in Threads, NEW p \in Providers, NEW d \in Providers,
               ResolveDep(t, p, d)
        PROVE  MutexHeld'
    <2>1. UNCHANGED <<locked, cleanup_list_size, phase, slot>>
      BY <1>3 DEF ResolveDep, port_vars, list_vars, config_vars
    <2>2. \A u \in Threads, q \in Providers :
            pc'[<<u, q>>] = IF u = t /\ q = d THEN "once" ELSE pc[<<u, q>>]
      BY <1>3, <1>0 DEF ResolveDep, Goto, TypeOK, Frames
    <2>3. pc[<<t, d>>] = "idle"
      BY <1>3 DEF ResolveDep
    <2>4. \A u \in Threads, q \in Providers :
             \/ /\ pc'[<<u, q>>] = pc[<<u, q>>]
                /\ pc[<<u, q>>] = "append" => slot'[<<u, q>>] = slot[<<u, q>>]
             \/ pc'[<<u, q>>] \notin Critical /\ pc[<<u, q>>] \notin Critical
      BY <2>1, <2>2, <2>3 DEF Critical
    <2> QED  BY <2>1, <2>4, MutexUntouched
  <1>4. ASSUME NEW t \in Threads, NEW p \in Providers, SetCalled(t, p)
        PROVE  MutexHeld'
    <2>1. UNCHANGED <<locked, cleanup_list_size, phase, slot>>
      BY <1>4 DEF SetCalled, list_vars, config_vars
    <2>2. \A u \in Threads, q \in Providers :
            pc'[<<u, q>>] = IF u = t /\ q = p THEN "return" ELSE pc[<<u, q>>]
      BY <1>4, <1>0 DEF SetCalled, Goto, TypeOK, Frames
    <2>3. pc[<<t, p>>] = "set_called"
      BY <1>4 DEF SetCalled, At
    <2>4. \A u \in Threads, q \in Providers :
             \/ /\ pc'[<<u, q>>] = pc[<<u, q>>]
                /\ pc[<<u, q>>] = "append" => slot'[<<u, q>>] = slot[<<u, q>>]
             \/ pc'[<<u, q>>] \notin Critical /\ pc[<<u, q>>] \notin Critical
      BY <2>1, <2>2, <2>3 DEF Critical
    <2> QED  BY <2>1, <2>4, MutexUntouched
  <1>5. ASSUME NEW t \in Threads, NEW p \in Providers, LockList(t, p)
        PROVE  MutexHeld'
    <2>1. /\ UNCHANGED <<cleanup_list_size, phase, slot>>
          /\ phase = "live" /\ ~locked /\ Top(t, p) /\ pc[<<t, p>>] = "lock"
      BY <1>5 DEF LockList, LockTaken, LockTested, list_vars, config_vars, At, Top
    <2>2. \A u \in Threads, q \in Providers : pc[<<u, q>>] \notin Holding
      BY <2>1 DEF MutexHeld, OneInside, SlotIsNext, LockedWhileInside
    <2>3. CASE PortedMutex
      <3>1. locked' = TRUE
        BY <1>5, <2>3 DEF LockList, LockTaken, LockTested
      <3>2. \A u \in Threads, q \in Providers :
              pc'[<<u, q>>] = IF u = t /\ q = p THEN "read_size" ELSE pc[<<u, q>>]
        BY <1>5, <1>0, <2>3
        DEF LockList, LockTaken, LockTested, Goto, TypeOK, Frames
      <3>3. \A u \in Threads, q \in Providers : pc[<<u, q>>] \notin Critical
        BY <2>2, <2>3
        DEF MutexHeld, OneInside, SlotIsNext, LockedWhileInside, Critical,
            Holding
      <3> QED
        BY <2>1, <2>3, <3>1, <3>2, <3>3
        DEF MutexHeld, OneInside, SlotIsNext, LockedWhileInside, Critical,
            Holding
    <2>4. CASE ~PortedMutex
      <3>1. locked' = locked
        BY <1>5, <2>4 DEF LockList, LockTaken, LockTested
      <3>2. \A u \in Threads, q \in Providers :
              pc'[<<u, q>>] = IF u = t /\ q = p THEN "set_locked" ELSE pc[<<u, q>>]
        BY <1>5, <1>0, <2>4
        DEF LockList, LockTaken, LockTested, Goto, TypeOK, Frames
      <3>3. \A u \in Threads, q \in Providers : pc[<<u, q>>] \notin Critical
        <4>1. ~overlapped
          BY <2>4 DEF Orderly
        <4>2. \A u \in Threads, q \in Providers :
                pc[<<u, q>>] \notin {"idle", "resolve"} => u = t /\ q = p
          BY <1>0, <2>1, <4>1, NobodyElse
        <4> QED  BY <2>1, <4>2 DEF Critical
      <3>4. OneInside'
        BY <3>2, <3>3 DEF OneInside, Critical
      <3>5. SlotIsNext'
        BY <2>1, <2>4, <3>2, <3>3 DEF SlotIsNext, Critical
      <3>6. LockedWhileInside'
        BY <2>1, <2>2, <3>1, <3>2 DEF LockedWhileInside, Holding
      <3> QED  BY <3>4, <3>5, <3>6 DEF MutexHeld
    <2> QED  BY <2>3, <2>4
  <1>6. ASSUME NEW t \in Threads, NEW p \in Providers,
               SetLocked(t, p) \/ ReadSize(t, p) \/ AppendSelf(t, p)
        PROVE  MutexHeld'
    <2>1. pc[<<t, p>>] \in {"set_locked", "read_size", "append"} /\ phase = "live"
      BY <1>6 DEF SetLocked, ReadSize, AppendSelf, At
    <2>2. phase' = phase /\ locked'
      BY <1>6, <2>1
      DEF SetLocked, LockSet, ReadSize, AppendSelf, port_vars, config_vars,
                  MutexHeld, OneInside, SlotIsNext, LockedWhileInside, Holding, At
    <2>3. \E step \in Holding :
            \A u \in Threads, q \in Providers :
              pc'[<<u, q>>] = IF u = t /\ q = p THEN step ELSE pc[<<u, q>>]
      <3>1. \E step \in Holding : Goto(t, p, step)
        BY <1>6 DEF SetLocked, ReadSize, AppendSelf, Holding
      <3> QED  BY <1>0, <3>1 DEF Goto, TypeOK, Frames
    <2>4. \A u \in Threads, q \in Providers :
            pc[<<u, q>>] \in Critical => u = t /\ q = p
      BY <2>1 DEF MutexHeld, OneInside, SlotIsNext, LockedWhileInside, Critical
    <2>5. pc'[<<t, p>>] = "append" =>
            slot'[<<t, p>>] = cleanup_list_size' /\ cleanup_list_size' = cleanup_list_size
      BY <1>6, <1>0
      DEF SetLocked, ReadSize, AppendSelf, Goto, TypeOK, Frames, list_vars
    <2> QED
      BY <2>1, <2>2, <2>3, <2>4, <2>5
      DEF MutexHeld, OneInside, SlotIsNext, LockedWhileInside, Critical, Holding
  <1>7. ASSUME NEW t \in Threads, NEW p \in Providers, UnlockList(t, p)
        PROVE  MutexHeld'
    <2>1. /\ pc[<<t, p>>] = "unlock" /\ phase = "live" /\ phase' = phase
          /\ locked' = FALSE
      BY <1>7 DEF UnlockList, Unlock, At, config_vars
    <2>2. \A u \in Threads, q \in Providers :
            pc'[<<u, q>>] = IF u = t /\ q = p THEN "set_called" ELSE pc[<<u, q>>]
      BY <1>7, <1>0 DEF UnlockList, Goto, TypeOK, Frames
    <2>3. \A u \in Threads, q \in Providers :
            pc[<<u, q>>] \in Critical => u = t /\ q = p
      BY <2>1 DEF MutexHeld, OneInside, SlotIsNext, LockedWhileInside, Critical
    <2>4. OneInside' /\ SlotIsNext'
      <3>1. slot' = slot /\ cleanup_list_size' = cleanup_list_size
        BY <1>7 DEF UnlockList, list_vars
      <3> QED  BY <2>2, <2>3, <3>1 DEF MutexHeld, OneInside, SlotIsNext, Critical
    <2>5. LockedWhileInside'
      BY <2>1, <2>2, <2>3 DEF LockedWhileInside, Critical, Holding
    <2> QED  BY <2>4, <2>5 DEF MutexHeld
  <1> QED  BY <1>1, <1>2, <1>3, <1>4, <1>5, <1>6, <1>7, StepCases

\* A step that touches neither the once nor an instance, and moves frames only
\* to where they were, or within Create() behind the constructor, or before it.
LEMMA CreationUntouched ==
    ASSUME OneCreates, UNCHANGED <<called, made, seen>>,
           \A u \in Threads, q \in Providers :
             \/ pc'[<<u, q>>] = pc[<<u, q>>]
             \/ pc'[<<u, q>>] \in Registering /\ pc[<<u, q>>] \in Registering
             \/ pc'[<<u, q>>] = "once" /\ pc[<<u, q>>] = "idle"
    PROVE  OneCreates'
  <1>1. \A u \in Threads, q \in Providers :
          /\ pc'[<<u, q>>] \in InCreate => pc[<<u, q>>] \in InCreate
          /\ pc'[<<u, q>>] \in Registering <=> pc[<<u, q>>] \in Registering
          /\ pc'[<<u, q>>] = "return" => pc[<<u, q>>] = "return"
    BY DEF InCreate, Constructing, Registering
  <1> QED  BY <1>1 DEF OneCreates

\* One frame at a time is in Create() for a provider, ported or not.
LEMMA OneCreatesHolds ==
    ASSUME ScopeInv, OrderlyInv, Orderly, [Next]_vars
    PROVE  OneCreates'
  <1> USE DEF OrderlyInv
  <1>0. /\ TypeOK /\ CallStack /\ OverlapNoticed /\ NoProvider \notin Providers
        /\ NoThread \notin Threads /\ OneCreates
    BY SingletonAssumption, PortAssumption DEF ScopeInv
  <1>00. /\ called \in [Providers -> BOOLEAN]
         /\ runner \in [Providers -> Threads \cup {NoThread}]
    BY <1>0, SingletonAssumption DEF TypeOK, PortTypeOK
  <1>1. CASE OwnerStep
    <2>1. UNCHANGED <<pc, called, made, seen>>
      BY <1>1, OwnerStepFrames
      DEF call_vars, OwnerStep, AddToInitList, ContextInit, BeginCleanup,
          CleanupProvider, EndCleanup, DeleteProvider, DeleteContext, Abort,
          Overflow, vars, instance_vars, port_vars
    <2> QED  BY <1>0, <2>1, CreationUntouched
  <1>2. ASSUME NEW t \in Threads, NEW p \in Providers,
               \/ Request(t, p) \/ \E d \in Providers : ResolveDep(t, p, d)
        PROVE  OneCreates'
    <2>1. UNCHANGED <<called, made, seen>>
      BY <1>2 DEF Request, ResolveDep, port_vars, instance_vars
    <2>2. \E q \in Providers : pc[<<t, q>>] = "idle" /\ Goto(t, q, "once")
      BY <1>2 DEF Request, ResolveDep, Idle
    <2>3. \A u \in Threads, q \in Providers :
            \/ pc'[<<u, q>>] = pc[<<u, q>>]
            \/ pc'[<<u, q>>] = "once" /\ pc[<<u, q>>] = "idle"
      BY <1>0, <2>2 DEF Goto, TypeOK, Frames
    <2> QED  BY <1>0, <2>1, <2>3, CreationUntouched
  <1>3. ASSUME NEW t \in Threads, NEW p \in Providers,
               \/ LockList(t, p) \/ SetLocked(t, p) \/ ReadSize(t, p)
               \/ AppendSelf(t, p) \/ UnlockList(t, p)
        PROVE  OneCreates'
    <2>1. UNCHANGED <<called, made, seen>>
      BY <1>3 DEF LockList, SetLocked, ReadSize, AppendSelf, UnlockList,
                  port_vars, instance_vars
    <2>2. pc[<<t, p>>] \in Registering /\ \E step \in Registering : Goto(t, p, step)
      BY <1>3
      DEF LockList, SetLocked, ReadSize, AppendSelf, UnlockList, At, Registering
    <2>3. \A u \in Threads, q \in Providers :
            \/ pc'[<<u, q>>] = pc[<<u, q>>]
            \/ pc'[<<u, q>>] \in Registering /\ pc[<<u, q>>] \in Registering
      BY <1>0, <2>2 DEF Goto, TypeOK, Frames
    <2> QED  BY <1>0, <2>1, <2>3, CreationUntouched
  <1>4. ASSUME NEW t \in Threads, NEW p \in Providers, SkipCreate(t, p)
        PROVE  OneCreates'
    <2>1. /\ UNCHANGED <<called, made, seen>>
          /\ called[p] /\ pc[<<t, p>>] = "once"
      BY <1>4 DEF SkipCreate, At, OnceSkips, port_vars, instance_vars
    <2>2. \A u \in Threads, q \in Providers :
            pc'[<<u, q>>] = IF u = t /\ q = p THEN "return" ELSE pc[<<u, q>>]
      BY <1>4, <1>0 DEF SkipCreate, Goto, TypeOK, Frames
    <2> QED
      BY <1>0, <2>1, <2>2
      DEF OneCreates, InCreate, Constructing, Registering
  <1>5. ASSUME NEW t \in Threads, NEW p \in Providers, EnterCreate(t, p)
        PROVE  OneCreates'
    <2>1. /\ UNCHANGED <<called, made, seen>>
          /\ ~called[p] /\ pc[<<t, p>>] = "once" /\ Top(t, p)
          /\ PortedOnce => runner[p] = NoThread
      BY <1>5 DEF EnterCreate, At, OnceRuns, instance_vars, Top
    <2>2. \A u \in Threads, q \in Providers :
            pc'[<<u, q>>] = IF u = t /\ q = p THEN "resolve" ELSE pc[<<u, q>>]
      BY <1>5, <1>0 DEF EnterCreate, Goto, TypeOK, Frames
    <2>3. \A u \in Threads : pc[<<u, p>>] \notin InCreate
      <3>1. CASE PortedOnce
        BY <1>0, <2>1, <3>1 DEF ScopeInv, OnceInv, OneCreator, InCreate
      <3>2. CASE ~overlapped
        BY <1>0, <2>1, <3>2, NobodyElse DEF InCreate, Constructing, Registering
      <3> QED  BY <3>1, <3>2 DEF Orderly
    <2> QED
      BY <1>0, <2>1, <2>2, <2>3
      DEF OneCreates, InCreate, Constructing, Registering
  <1>6. ASSUME NEW t \in Threads, NEW p \in Providers, Construct(t, p)
        PROVE  OneCreates'
    <2>1. /\ UNCHANGED <<called, seen>> /\ pc[<<t, p>>] = "resolve"
          /\ made' = [made EXCEPT ![p] = @ + 1]
      BY <1>6 DEF Construct, At, port_vars
    <2>2. \A u \in Threads, q \in Providers :
            pc'[<<u, q>>] = IF u = t /\ q = p THEN "lock" ELSE pc[<<u, q>>]
      BY <1>6, <1>0 DEF Construct, Goto, TypeOK, Frames
    <2>3. ~called[p] /\ \A u \in Threads : pc[<<u, p>>] \in InCreate => u = t
      BY <1>0, <2>1 DEF OneCreates, InCreate, Constructing
    <2>4. made[p] = 0
      BY <1>0, <2>1, <2>3 DEF OneCreates, InCreate, Registering
    <2>5. \A q \in Providers : made'[q] = IF q = p THEN 1 ELSE made[q]
      BY <1>0, <2>1, <2>4 DEF TypeOK
    <2> QED
      BY <1>0, <2>1, <2>2, <2>3, <2>5
      DEF OneCreates, InCreate, Constructing, Registering
  <1>7. ASSUME NEW t \in Threads, NEW p \in Providers, SetCalled(t, p)
        PROVE  OneCreates'
    <2>1. /\ UNCHANGED <<made, seen>> /\ pc[<<t, p>>] = "set_called"
          /\ called' = [called EXCEPT ![p] = TRUE]
      BY <1>7 DEF SetCalled, OnceDone, At, instance_vars
    <2>2. \A u \in Threads, q \in Providers :
            pc'[<<u, q>>] = IF u = t /\ q = p THEN "return" ELSE pc[<<u, q>>]
      BY <1>7, <1>0 DEF SetCalled, Goto, TypeOK, Frames
    <2>3. \A u \in Threads : pc[<<u, p>>] \in InCreate => u = t
      BY <1>0, <2>1 DEF OneCreates, InCreate, Registering
    <2>4. made[p] = 1
      BY <1>0, <2>1 DEF OneCreates, Registering
    <2>5. \A q \in Providers : called'[q] <=> q = p \/ called[q]
      BY <1>00, <2>1
    <2>6. /\ \A q \in Providers : made'[q] = made[q] /\ seen'[q] = seen[q]
          /\ \A u \in Threads, q \in Providers :
               pc'[<<u, q>>] \in InCreate => pc[<<u, q>>] \in InCreate /\ q # p
      BY <2>1, <2>2, <2>3 DEF InCreate, Constructing, Registering
    <2>7. \A u, v \in Threads, q \in Providers :
            pc'[<<u, q>>] \in InCreate /\ pc'[<<v, q>>] \in InCreate => u = v
      BY <1>0, <2>6 DEF OneCreates
    <2>8. \A u \in Threads, q \in Providers :
            /\ pc'[<<u, q>>] \in InCreate => ~called'[q]
            /\ pc'[<<u, q>>] = "return" => called'[q]
      <3>1. \A u \in Threads, q \in Providers :
              /\ pc[<<u, q>>] \in InCreate => ~called[q]
              /\ pc[<<u, q>>] = "return" => called[q]
        BY <1>0 DEF OneCreates
      <3>2. \A u \in Threads, q \in Providers : pc'[<<u, q>>] \in InCreate => ~called'[q]
        BY <2>5, <2>6, <3>1
      <3>3. \A u \in Threads, q \in Providers : pc'[<<u, q>>] = "return" => called'[q]
        BY <2>2, <2>5, <3>1
      <3> QED  BY <3>2, <3>3
    <2>9. \A u \in Threads, q \in Providers : q # p => pc'[<<u, q>>] = pc[<<u, q>>]
      BY <2>2
    <2>10. \A q \in Providers :
             /\ made'[q] \in {0, 1}
             /\ made'[q] = 1 <=>
                  called'[q] \/ \E u \in Threads : pc'[<<u, q>>] \in Registering
             /\ seen'[q] \subseteq {1} /\ (seen'[q] # {} => called'[q])
      <3> SUFFICES ASSUME NEW q \in Providers
                   PROVE  /\ made[q] \in {0, 1}
                          /\ made[q] = 1 <=>
                               called'[q] \/ \E u \in Threads : pc'[<<u, q>>] \in Registering
                          /\ seen[q] \subseteq {1} /\ (seen[q] # {} => called'[q])
        BY <2>6
      <3>1. CASE q = p
        BY <1>0, <2>4, <2>5, <3>1 DEF OneCreates
      <3>2. CASE q # p
        BY <1>0, <2>5, <2>9, <3>2 DEF OneCreates
      <3> QED  BY <3>1, <3>2
    <2> QED  BY <2>7, <2>8, <2>10 DEF OneCreates, InCreate, Constructing, Registering
  <1>8. ASSUME NEW t \in Threads, NEW p \in Providers, Return(t, p)
        PROVE  OneCreates'
    <2>1. /\ UNCHANGED <<made, called>> /\ pc[<<t, p>>] = "return" /\ phase = "live"
          /\ seen' = [seen EXCEPT ![p] = @ \cup {object[p]}]
      BY <1>8 DEF Return, At, port_vars
    <2>2. \A u \in Threads, q \in Providers :
            pc'[<<u, q>>] = IF u = t /\ q = p THEN "idle" ELSE pc[<<u, q>>]
      BY <1>8, <1>0 DEF Return, Goto, TypeOK, Frames
    <2>3. called[p] /\ object[p] = 1
      BY <1>0, <2>1 DEF OneCreates, CleanedFromTheEnd
    <2>4. \A q \in Providers : seen'[q] = IF q = p THEN seen[q] \cup {1} ELSE seen[q]
      BY <1>0, <2>1, <2>3 DEF TypeOK
    <2> QED
      BY <1>0, <2>1, <2>2, <2>3, <2>4
      DEF OneCreates, InCreate, Constructing, Registering
  <1> QED
    BY <1>1, <1>2, <1>3, <1>4, <1>5, <1>6, <1>7, <1>8, StepCases

\* Once an argument has been returned it stays so; a constructor waits for all.
LEMMA ArgumentsHold ==
    ASSUME ScopeInv, OrderlyInv, Orderly, [Next]_vars
    PROVE  ArgumentsReturned'
  <1> USE DEF OrderlyInv
  <1>0. /\ TypeOK /\ NoProvider \notin Providers /\ OneCreates /\ ArgumentsReturned
        /\ \A q \in Providers : Deps[q] \subseteq Providers
    BY SingletonAssumption DEF ScopeInv
  <1>1. ASSUME UNCHANGED <<made, seen, todo, callee>>,
               \A u \in Threads, q \in Providers :
                 pc'[<<u, q>>] = "resolve" => pc[<<u, q>>] = "resolve"
        PROVE  ArgumentsReturned'
    BY <1>0, <1>1 DEF ArgumentsReturned
  <1>2. CASE OwnerStep
    <2>1. UNCHANGED <<pc, made, seen, todo, callee>>
      BY <1>2, OwnerStepFrames
      DEF call_vars, OwnerStep, AddToInitList, ContextInit, BeginCleanup,
          CleanupProvider, EndCleanup, DeleteProvider, DeleteContext, Abort,
          Overflow, vars, instance_vars
    <2> QED  BY <1>1, <2>1
  <1>3. ASSUME NEW t \in Threads, NEW p \in Providers,
               \/ Request(t, p) \/ SkipCreate(t, p)
               \/ LockList(t, p) \/ SetLocked(t, p) \/ ReadSize(t, p)
               \/ AppendSelf(t, p) \/ UnlockList(t, p) \/ SetCalled(t, p)
        PROVE  ArgumentsReturned'
    <2>1. UNCHANGED <<made, seen, todo, callee>>
      BY <1>3 DEF Request, SkipCreate, LockList, SetLocked, ReadSize, AppendSelf,
                  UnlockList, SetCalled, instance_vars
    <2>2. \E step \in PCs \ {"resolve"} : Goto(t, p, step)
      BY <1>3 DEF Request, SkipCreate, LockList, SetLocked, ReadSize, AppendSelf,
                  UnlockList, SetCalled, PCs
    <2>3. \A u \in Threads, q \in Providers :
            pc'[<<u, q>>] = "resolve" => pc[<<u, q>>] = "resolve"
      BY <1>0, <2>2 DEF Goto, TypeOK, Frames
    <2> QED  BY <1>1, <2>1, <2>3
  <1>4. ASSUME NEW t \in Threads, NEW p \in Providers, EnterCreate(t, p)
        PROVE  ArgumentsReturned'
    <2>1. /\ UNCHANGED <<made, seen, callee>>
          /\ \A u \in Threads, q \in Providers :
               todo'[<<u, q>>] = IF u = t /\ q = p THEN Deps[p] ELSE todo[<<u, q>>]
      BY <1>4, <1>0 DEF EnterCreate, instance_vars, TypeOK, Frames
    <2>2. \A u \in Threads, q \in Providers :
            pc'[<<u, q>>] = IF u = t /\ q = p THEN "resolve" ELSE pc[<<u, q>>]
      BY <1>4, <1>0 DEF EnterCreate, Goto, TypeOK, Frames
    <2> QED  BY <1>0, <2>1, <2>2 DEF ArgumentsReturned
  <1>5. ASSUME NEW t \in Threads, NEW p \in Providers, NEW d \in Providers,
               ResolveDep(t, p, d)
        PROVE  ArgumentsReturned'
    <2>1. /\ UNCHANGED <<made, seen>>
          /\ \A u \in Threads, q \in Providers :
               todo'[<<u, q>>] = IF u = t /\ q = p THEN todo[<<u, q>>] \ {d}
                                 ELSE todo[<<u, q>>]
      BY <1>5, <1>0 DEF ResolveDep, instance_vars, TypeOK, Frames
    <2>2. \A u \in Threads, q \in Providers :
            pc'[<<u, q>>] = IF u = t /\ q = d THEN "once" ELSE pc[<<u, q>>]
      BY <1>5, <1>0 DEF ResolveDep, Goto, TypeOK, Frames
    <2>3. \A u \in Threads, q \in Providers :
            callee'[<<u, q>>] = IF u = t /\ q = p THEN d ELSE callee[<<u, q>>]
      BY <1>5, <1>0 DEF ResolveDep, TypeOK, Frames
    <2>4. callee[<<t, p>>] = NoProvider
      BY <1>5 DEF ResolveDep, At
    <2>5. ASSUME NEW q \in Providers, NEW e \in Deps[q]
          PROVE  /\ made'[q] = 1 => seen'[e] # {}
                 /\ \A u \in Threads : pc'[<<u, q>>] = "resolve" =>
                      e \in todo'[<<u, q>>] \/ callee'[<<u, q>>] = e \/ seen'[e] # {}
      <3>1. e \in Providers
        BY <1>0
      <3>2. made'[q] = 1 => seen'[e] # {}
        BY <1>0, <2>1, <3>1 DEF ArgumentsReturned
      <3>3. ASSUME NEW u \in Threads, pc'[<<u, q>>] = "resolve"
            PROVE  e \in todo'[<<u, q>>] \/ callee'[<<u, q>>] = e \/ seen'[e] # {}
        <4>1. pc[<<u, q>>] = "resolve" /\ ~(u = t /\ q = d)
          BY <2>2, <3>3
        <4>2. e \in todo[<<u, q>>] \/ callee[<<u, q>>] = e \/ seen[e] # {}
          BY <1>0, <4>1 DEF ArgumentsReturned
        <4>3. CASE u = t /\ q = p
          <5>1. callee[<<u, q>>] # e
            BY <1>0, <2>4, <3>1, <4>3
          <5> QED  BY <2>1, <2>3, <4>2, <4>3, <5>1
        <4>4. CASE ~(u = t /\ q = p)
          BY <2>1, <2>3, <4>2, <4>4
        <4> QED  BY <4>3, <4>4
      <3> QED  BY <3>2, <3>3
    <2> QED  BY <2>5 DEF ArgumentsReturned
  <1>6. ASSUME NEW t \in Threads, NEW p \in Providers, Construct(t, p)
        PROVE  ArgumentsReturned'
    <2>1. /\ UNCHANGED <<seen, todo, callee>>
          /\ todo[<<t, p>>] = {} /\ callee[<<t, p>>] = NoProvider
          /\ pc[<<t, p>>] = "resolve"
      BY <1>6 DEF Construct, At
    <2>2. \A u \in Threads, q \in Providers :
            pc'[<<u, q>>] = IF u = t /\ q = p THEN "lock" ELSE pc[<<u, q>>]
      BY <1>6, <1>0 DEF Construct, Goto, TypeOK, Frames
    <2>3. \A q \in Providers : q # p => made'[q] = made[q]
      BY <1>6, <1>0 DEF Construct, TypeOK
    <2>4. \A d \in Deps[p] : seen[d] # {}
      BY <1>0, <2>1 DEF ArgumentsReturned
    <2> QED  BY <1>0, <2>1, <2>2, <2>3, <2>4 DEF ArgumentsReturned
  <1>7. ASSUME NEW t \in Threads, NEW p \in Providers, Return(t, p)
        PROVE  ArgumentsReturned'
    <2>1. UNCHANGED <<made, todo>>
      BY <1>7 DEF Return
    <2>2. \A u \in Threads, q \in Providers :
            pc'[<<u, q>>] = IF u = t /\ q = p THEN "idle" ELSE pc[<<u, q>>]
      BY <1>7, <1>0 DEF Return, Goto, TypeOK, Frames
    <2>3. \A u \in Threads, q \in Providers :
            callee'[<<u, q>>] = IF u = t /\ callee[<<u, q>>] = p THEN NoProvider
                                ELSE callee[<<u, q>>]
      BY <1>7 DEF Return, Frames
    <2>4. \A q \in Providers : (seen[q] # {} \/ q = p) => seen'[q] # {}
      BY <1>7, <1>0 DEF Return, TypeOK
    <2> QED  BY <1>0, <2>1, <2>2, <2>3, <2>4 DEF ArgumentsReturned
  <1> QED
    BY <1>2, <1>3, <1>4, <1>5, <1>6, <1>7, StepCases

\* An append puts one more provider into the array, behind its dependencies.
LEMMA ListGrowsInOrder ==
    ASSUME TypeOK, TypeOK', OrderlyInv, NoProvider \notin Providers,
           \A q \in Providers : Deps[q] \subseteq Providers,
           NEW t \in Threads, NEW p \in Providers, AppendSelf(t, p)
    PROVE  ListedOnce' /\ DependenciesFirst'
  <1> USE DEF OrderlyInv
  <1>1. /\ pc[<<t, p>>] = "append"
        /\ slot[<<t, p>>] = cleanup_list_size
        /\ called' = called
    BY DEF AppendSelf, At, MutexHeld, SlotIsNext, port_vars
  <1>2. \A u \in Threads, q \in Providers :
          pc'[<<u, q>>] = IF u = t /\ q = p THEN "unlock" ELSE pc[<<u, q>>]
    BY DEF AppendSelf, Goto, TypeOK, Frames
  <1> DEFINE n == cleanup_list_size
  <1>3. /\ n \in Nat /\ Len(cleanup_list) \in Nat /\ n + 1 <= Len(cleanup_list)
        /\ cleanup_list_size' = n + 1
        /\ Len(cleanup_list') = Len(cleanup_list)
        /\ cleanup_list'[n + 1] = p
        /\ \A i \in 1..n : cleanup_list'[i] = cleanup_list[i]
    BY <1>1 DEF AppendSelf, TypeOK
  <1>4. /\ ~called[p]
        /\ \A u \in Threads : pc[<<u, p>>] \notin Past
    BY <1>1 DEF OneCreates, InCreate, Registering, Past
  <1>5. ~Appended(p) /\ Appended(p)'
    BY <1>2, <1>4 DEF Appended, Past
  <1>6. \A q \in Providers : q # p => (Appended(q)' <=> Appended(q))
    BY <1>1, <1>2 DEF Appended, Past
  <1>7. \A i \in 1..n : cleanup_list[i] \in Providers /\ cleanup_list[i] # p
    BY <1>5 DEF ListedOnce
  <1> HIDE DEF n
  <1>8. \A i \in 1..(n + 1) : i \in 1..n \/ i = n + 1
    BY <1>3
  <1>9. ListedOnce'
    <2>1. \A i \in 1..(n + 1) :
            cleanup_list'[i] \in Providers /\ Appended(cleanup_list[i])'
      <3> SUFFICES ASSUME NEW i \in 1..(n + 1)
                   PROVE  cleanup_list'[i] \in Providers /\ Appended(cleanup_list[i])'
        OBVIOUS
      <3>1. CASE i = n + 1
        BY <1>3, <1>5, <3>1 DEF Appended
      <3>2. CASE i \in 1..n
        <4>1. PICK q \in Providers : q = cleanup_list[i] /\ q # p /\ Appended(q)
          BY <1>7, <3>2 DEF ListedOnce, n
        <4>2. Appended(q)' /\ cleanup_list'[i] = q
          BY <1>3, <1>6, <3>2, <4>1
        <4> QED  BY <4>2 DEF Appended
      <3> QED  BY <1>8, <3>1, <3>2
    <2>2. ASSUME NEW q \in Providers, Appended(q)'
          PROVE  \E i \in 1..(n + 1) : cleanup_list'[i] = q
      <3>1. CASE q = p
        BY <1>3, <3>1
      <3>2. CASE q # p
        <4>1. PICK i \in 1..n : cleanup_list[i] = q
          BY <2>2, <1>6, <3>2 DEF ListedOnce, n
        <4> QED  BY <4>1, <1>3
      <3> QED  BY <3>1, <3>2
    <2>3. \A i, j \in 1..(n + 1) : cleanup_list'[i] = cleanup_list'[j] => i = j
      BY <1>3, <1>7, <1>8 DEF ListedOnce, n
    <2> QED  BY <1>3, <2>1, <2>2, <2>3 DEF ListedOnce
  <1>10. DependenciesFirst'
    <2> SUFFICES ASSUME NEW i \in 1..(n + 1), NEW d \in Deps[cleanup_list'[i]]
                 PROVE  \E j \in 1..(i - 1) : cleanup_list'[j] = d
      BY <1>3 DEF DependenciesFirst
    <2>1. CASE i \in 1..n
      <3>1. PICK j \in 1..(i - 1) : cleanup_list[j] = d
        BY <1>3, <2>1 DEF DependenciesFirst, n
      <3> QED  BY <1>3, <2>1, <3>1
    <2>2. CASE i = n + 1
      <3>1. d \in Deps[p] /\ d \in Providers
        BY <1>3, <2>2
      <3>2. made[p] = 1
        BY <1>1 DEF OneCreates, Registering
      <3>3. Appended(d)
        BY <3>1, <3>2 DEF ArgumentsReturned, OneCreates, Appended
      <3>4. PICK j \in 1..n : cleanup_list[j] = d
        BY <3>1, <3>3 DEF ListedOnce, n
      <3> QED  BY <1>3, <2>2, <3>4
    <2> QED  BY <1>8, <2>1, <2>2
  <1> QED  BY <1>9, <1>10

\* Nothing else changes the part of the array that is in use.
LEMMA ListHolds ==
    ASSUME ScopeInv, OrderlyInv, Orderly, [Next]_vars, TypeOK'
    PROVE  ListedOnce' /\ DependenciesFirst'
  <1> USE DEF OrderlyInv
  <1>0. /\ TypeOK /\ NoProvider \notin Providers
        /\ \A q \in Providers : Deps[q] \subseteq Providers
        /\ called \in [Providers -> BOOLEAN]
    BY SingletonAssumption DEF ScopeInv, TypeOK, PortTypeOK
  <1>1. ASSUME UNCHANGED <<cleanup_list, cleanup_list_size>>,
               \A q \in Providers : Appended(q)' <=> Appended(q)
        PROVE  ListedOnce' /\ DependenciesFirst'
    <2>1. ListedOnce'
      BY <1>1 DEF ListedOnce
    <2>2. DependenciesFirst'
      BY <1>1 DEF DependenciesFirst
    <2> QED  BY <2>1, <2>2
  <1>2. ASSUME UNCHANGED <<cleanup_list, cleanup_list_size, called>>,
               \A u \in Threads, q \in Providers :
                 pc'[<<u, q>>] \in Past <=> pc[<<u, q>>] \in Past
        PROVE  ListedOnce' /\ DependenciesFirst'
    BY <1>1, <1>2 DEF Appended
  <1>3. CASE ContextInit
    <2>1. /\ cleanup_list_size = 0 /\ cleanup_list_size' = 0
          /\ Len(cleanup_list') \in Nat
          /\ UNCHANGED <<called, pc>>
      BY <1>3 DEF ContextInit, PhasesInOrder, port_vars, call_vars, TypeOK
    <2>2. 1..0 = {}
      OBVIOUS
    <2>3. \A q \in Providers : ~Appended(q) /\ ~Appended(q)'
      BY <2>1, <2>2 DEF ListedOnce, Appended
    <2> QED  BY <2>1, <2>2, <2>3 DEF ListedOnce, DependenciesFirst
  <1>4. CASE OwnerStep /\ ~ContextInit
    <2>1. UNCHANGED <<pc, called, cleanup_list, cleanup_list_size>>
      BY <1>4, OwnerStepFrames
      DEF call_vars, OwnerStep, AddToInitList, BeginCleanup,
          CleanupProvider, EndCleanup, DeleteProvider, DeleteContext, Abort,
          Overflow, vars, list_vars, port_vars
    <2> QED  BY <1>2, <2>1
  <1>5. ASSUME NEW t \in Threads, NEW p \in Providers, AppendSelf(t, p)
        PROVE  ListedOnce' /\ DependenciesFirst'
    BY <1>0, <1>5, ListGrowsInOrder
  <1>6. ASSUME NEW t \in Threads, NEW p \in Providers,
               \/ Request(t, p) \/ Return(t, p)
               \/ \E d \in Providers : ResolveDep(t, p, d)
               \/ SkipCreate(t, p) \/ EnterCreate(t, p) \/ Construct(t, p)
               \/ LockList(t, p) \/ SetLocked(t, p) \/ ReadSize(t, p)
        PROVE  ListedOnce' /\ DependenciesFirst'
    <2>1. UNCHANGED <<cleanup_list, cleanup_list_size, called>>
      BY <1>6 DEF Request, Return, ResolveDep, SkipCreate, EnterCreate, Construct,
                  LockList, SetLocked, ReadSize, list_vars, port_vars
    <2>2. \E q \in Providers : pc[<<t, q>>] \notin Past /\
            \E step \in PCs \ Past : Goto(t, q, step)
      BY <1>6 DEF Request, Return, ResolveDep, SkipCreate, EnterCreate, Construct,
                  LockList, SetLocked, ReadSize, At, Idle, Past, PCs
    <2>3. \A u \in Threads, q \in Providers :
            pc'[<<u, q>>] \in Past <=> pc[<<u, q>>] \in Past
      BY <1>0, <2>2 DEF Goto, TypeOK, Frames
    <2> QED  BY <1>2, <2>1, <2>3
  <1>7. ASSUME NEW t \in Threads, NEW p \in Providers, UnlockList(t, p)
        PROVE  ListedOnce' /\ DependenciesFirst'
    <2>1. UNCHANGED <<cleanup_list, cleanup_list_size, called>> /\ pc[<<t, p>>] = "unlock"
      BY <1>7 DEF UnlockList, At, list_vars
    <2>2. \A u \in Threads, q \in Providers :
            pc'[<<u, q>>] = IF u = t /\ q = p THEN "set_called" ELSE pc[<<u, q>>]
      BY <1>7, <1>0 DEF UnlockList, Goto, TypeOK, Frames
    <2>3. \A u \in Threads, q \in Providers :
            pc'[<<u, q>>] \in Past <=> pc[<<u, q>>] \in Past
      BY <2>1, <2>2 DEF Past
    <2> QED  BY <1>2, <2>1, <2>3
  <1>8. ASSUME NEW t \in Threads, NEW p \in Providers, SetCalled(t, p)
        PROVE  ListedOnce' /\ DependenciesFirst'
    <2>1. /\ UNCHANGED <<cleanup_list, cleanup_list_size>> /\ pc[<<t, p>>] = "set_called"
          /\ \A q \in Providers : called'[q] <=> called[q] \/ q = p
      BY <1>8, <1>0 DEF SetCalled, OnceDone, At, list_vars
    <2>2. \A u \in Threads, q \in Providers :
            pc'[<<u, q>>] = IF u = t /\ q = p THEN "return" ELSE pc[<<u, q>>]
      BY <1>8, <1>0 DEF SetCalled, Goto, TypeOK, Frames
    <2>3. \A q \in Providers : Appended(q)' <=> Appended(q)
      BY <2>1, <2>2 DEF Appended, Past
    <2> QED  BY <1>1, <2>1, <2>3
  <1> QED  BY <1>3, <1>4, <1>5, <1>6, <1>7, <1>8, StepCases

\* The array has room for whoever is about to append itself: everything in it
\* and the provider at hand were registered, one by one.
LEMMA ListHasRoom ==
    ASSUME TypeOK, OrderlyInv, phase = "live",
           NEW t \in Threads, NEW p \in Providers, pc[<<t, p>>] = "append"
    PROVE  slot[<<t, p>>] < Len(cleanup_list)
  <1> DEFINE n == cleanup_list_size
             m == Len(init_list)
  <1>1. /\ n \in Nat /\ m \in Nat /\ slot[<<t, p>>] = n
        /\ Len(cleanup_list) = m /\ Registered = Providers
    BY DEF TypeOK, OrderlyInv, MutexHeld, SlotIsNext, PhasesInOrder
  <1>2. ~Appended(p)
    BY DEF OrderlyInv, OneCreates, InCreate, Registering, Past, Appended
  <1>3. /\ \A i \in 1..n : cleanup_list[i] \in Providers /\ cleanup_list[i] # p
        /\ \A i, j \in 1..n : cleanup_list[i] = cleanup_list[j] => i = j
    BY <1>2 DEF OrderlyInv, ListedOnce
  <1>4. SUFFICES ASSUME n >= m  PROVE FALSE
    BY <1>1
  <1> DEFINE who == [i \in 1..(n + 1) |-> IF i <= n THEN cleanup_list[i] ELSE p]
             place == [i \in 1..(n + 1) |->
                         CHOOSE k \in 1..m : init_list[k] = who[i]]
  <1> HIDE DEF n, m
  <1>5. \A i \in 1..(n + 1) : who[i] \in Providers
    BY <1>1, <1>3
  <1>6. \A i, j \in 1..(n + 1) : who[i] = who[j] => i = j
    BY <1>1, <1>3
  <1>7. \A i \in 1..(n + 1) : place[i] \in 1..m /\ init_list[place[i]] = who[i]
    <2> SUFFICES ASSUME NEW i \in 1..(n + 1)
                 PROVE  place[i] \in 1..m /\ init_list[place[i]] = who[i]
      OBVIOUS
    <2>1. \E k \in 1..m : init_list[k] = who[i]
      BY <1>1, <1>5 DEF Registered, m
    <2>2. place[i] = CHOOSE k \in 1..m : init_list[k] = who[i]
      OBVIOUS
    <2> QED  BY <2>1, <2>2, Zenon
  <1>8. place \in [1..(n + 1) -> 1..m]
    BY <1>7
  <1>9. /\ IsFiniteSet(1..(n + 1)) /\ Cardinality(1..(n + 1)) = n + 1
        /\ IsFiniteSet(1..m) /\ Cardinality(1..m) = m
    <2>1. 1 \in Int /\ n + 1 \in Int /\ m \in Int
      BY <1>1
    <2>2. /\ IsFiniteSet(1..(n + 1))
          /\ Cardinality(1..(n + 1)) = IF 1 > n + 1 THEN 0 ELSE (n + 1) - 1 + 1
      BY <2>1, FS_Interval
    <2>3. /\ IsFiniteSet(1..m)
          /\ Cardinality(1..m) = IF 1 > m THEN 0 ELSE m - 1 + 1
      BY <2>1, FS_Interval
    <2> QED  BY <1>1, <2>2, <2>3
  <1>10. Cardinality(1..m) < Cardinality(1..(n + 1))
    BY <1>1, <1>4, <1>9 DEF n, m
  <1> HIDE DEF place, who
  <1>11. PICK i \in 1..(n + 1), j \in 1..(n + 1) : i # j /\ place[i] = place[j]
    <2> DEFINE I == 1..(n + 1)
               K == 1..m
    <2>1. IsFiniteSet(I) /\ IsFiniteSet(K) /\ Cardinality(K) < Cardinality(I)
      BY <1>9, <1>10
    <2>2. place \in [I -> K]
      BY <1>8
    <2>3. SUFFICES \E i \in I, j \in I : i # j /\ place[i] = place[j]
      OBVIOUS
    <2> HIDE DEF I, K
    <2> QED  BY <2>1, <2>2, FS_PigeonHole, Zenon
  <1> QED  BY <1>6, <1>7, <1>11

\* Cleanup() deletes from the end of the array, and the array has everything.
LEMMA CleanedHolds ==
    ASSUME ScopeInv, OrderlyInv, Orderly, [Next]_vars, TypeOK'
    PROVE  CleanedFromTheEnd'
  <1> USE DEF OrderlyInv
  <1>0. /\ TypeOK /\ CleanedFromTheEnd
        /\ object \in [Providers -> Nat] /\ alive \in [Providers -> SUBSET Nat]
        /\ made \in [Providers -> Nat] /\ cursor \in Nat /\ cleanup_list_size \in Nat
        /\ Len(cleanup_list) \in Nat
    BY DEF ScopeInv, TypeOK
  <1>1. ASSUME NEW t \in Threads, NEW p \in Providers, Construct(t, p)
        PROVE  CleanedFromTheEnd'
    <2>1. /\ phase = "live" /\ phase' = "live" /\ pc[<<t, p>>] = "resolve"
          /\ made' = [made EXCEPT ![p] = made[p] + 1]
          /\ alive' = [alive EXCEPT ![p] = alive[p] \cup {made[p] + 1}]
          /\ object' = [object EXCEPT ![p] = made[p] + 1]
      BY <1>1 DEF Construct, At, config_vars
    <2>2. made[p] = 0
      BY <2>1 DEF OneCreates, InCreate, Constructing, Registering
    <2>3. object = made /\ alive[p] = {}
      BY <1>0, <2>1, <2>2 DEF CleanedFromTheEnd
    <2>4. \A q \in Providers : alive'[q] = {object'[q]} \ {0}
      BY <1>0, <2>1, <2>2, <2>3 DEF CleanedFromTheEnd
    <2>5. object' = made'
      BY <2>1, <2>3
    <2> QED  BY <2>1, <2>4, <2>5 DEF CleanedFromTheEnd
  <1>2. ASSUME NEW t \in Threads, NEW p \in Providers,
               \/ Request(t, p) \/ Return(t, p)
               \/ \E d \in Providers : ResolveDep(t, p, d)
               \/ SkipCreate(t, p) \/ EnterCreate(t, p)
               \/ LockList(t, p) \/ SetLocked(t, p) \/ ReadSize(t, p)
               \/ AppendSelf(t, p) \/ UnlockList(t, p) \/ SetCalled(t, p)
        PROVE  CleanedFromTheEnd'
    <2>1. UNCHANGED <<object, alive, made>> /\ phase = "live" /\ phase' = "live"
      BY <1>2 DEF Request, Return, ResolveDep, SkipCreate, EnterCreate,
                  LockList, SetLocked, ReadSize, AppendSelf, UnlockList, SetCalled,
                  At, instance_vars, config_vars
    <2> QED  BY <1>0, <2>1 DEF CleanedFromTheEnd
  <1>3. CASE BeginCleanup
    <2>1. /\ UNCHANGED <<object, alive, made, cleanup_list, cleanup_list_size>>
          /\ phase = "live" /\ phase' = "cleanup" /\ cursor' = cleanup_list_size
          /\ \A t \in Threads, p \in Providers : pc[<<t, p>>] = "idle"
      BY <1>3 DEF BeginCleanup, instance_vars, list_vars, Idle
    <2>2. ASSUME NEW p \in Providers
          PROVE  object[p] = IF \E i \in 1..cleanup_list_size : cleanup_list[i] = p
                             THEN 1 ELSE 0
      <3>1. object[p] = made[p] /\ made[p] \in {0, 1}
        BY <1>0, <2>1 DEF CleanedFromTheEnd, OneCreates
      <3>2. made[p] = 1 <=> Appended(p)
        BY <2>1 DEF OneCreates, Appended, Registering, Past
      <3>3. Appended(p) <=> \E i \in 1..cleanup_list_size : cleanup_list[i] = p
        BY DEF ListedOnce
      <3> QED  BY <3>1, <3>2, <3>3
    <2> QED  BY <1>0, <2>1, <2>2 DEF CleanedFromTheEnd
  <1>4. CASE CleanupProvider
    <2>1. /\ UNCHANGED <<made, cleanup_list, cleanup_list_size>>
          /\ phase = "cleanup" /\ phase' = "cleanup"
          /\ cursor > 0 /\ cursor' = cursor - 1
      BY <1>4 DEF CleanupProvider, list_vars
    <2>2. cursor \in 1..cleanup_list_size
      BY <1>0, <2>1 DEF CleanedFromTheEnd
    <2> DEFINE p == cleanup_list[cursor]
    <2>3. p \in Providers
      BY <2>2 DEF ListedOnce
    <2>4. /\ alive' = [alive EXCEPT ![p] = alive[p] \ {object[p]}]
          /\ object' = [object EXCEPT ![p] = 0]
      BY <1>4 DEF CleanupProvider
    <2> HIDE DEF p
    <2>5. \A q \in Providers : alive'[q] = {object'[q]} \ {0}
      BY <1>0, <2>3, <2>4 DEF CleanedFromTheEnd
    <2>6. \A i \in 1..(cursor - 1) : cleanup_list[i] # p
      BY <1>0, <2>2 DEF ListedOnce, p
    <2>7. \A i \in 1..cursor : i \in 1..(cursor - 1) \/ i = cursor
      BY <1>0
    <2>8. ASSUME NEW q \in Providers
          PROVE  object'[q] = IF \E i \in 1..(cursor - 1) : cleanup_list[i] = q
                              THEN 1 ELSE 0
      <3>1. CASE q = p
        BY <1>0, <2>3, <2>4, <2>6, <3>1
      <3>2. CASE q # p
        <4>1. object'[q] = object[q]
          BY <1>0, <2>3, <2>4, <3>2
        <4>2. (\E i \in 1..(cursor - 1) : cleanup_list[i] = q) <=>
                (\E i \in 1..cursor : cleanup_list[i] = q)
          BY <1>0, <2>2, <2>7, <3>2 DEF p
        <4> QED  BY <1>0, <2>1, <4>1, <4>2 DEF CleanedFromTheEnd
      <3> QED  BY <3>1, <3>2
    <2>9. cursor - 1 <= cleanup_list_size
      BY <1>0, <2>2
    <2> QED  BY <2>1, <2>5, <2>8, <2>9 DEF CleanedFromTheEnd
  <1>5. CASE EndCleanup
    <2>1. /\ UNCHANGED <<object, alive, made>>
          /\ phase = "cleanup" /\ phase' = "deleting" /\ cursor = 0
      BY <1>5 DEF EndCleanup, instance_vars
    <2>2. 1..0 = {}
      OBVIOUS
    <2>3. \A p \in Providers : object[p] = 0
      BY <1>0, <2>1, <2>2 DEF CleanedFromTheEnd
    <2> QED  BY <1>0, <2>1, <2>3 DEF CleanedFromTheEnd
  <1>6. CASE \/ \E p \in Providers : AddToInitList(p)
             \/ ContextInit \/ DeleteProvider \/ DeleteContext
             \/ Abort \/ Overflow \/ UNCHANGED vars
    <2>1. UNCHANGED <<object, alive, made, cleanup_list_size>>
      BY <1>6
      DEF AddToInitList, ContextInit, DeleteProvider, DeleteContext, Abort,
                  Overflow, vars, instance_vars, list_vars
    <2>2. \/ phase' = phase /\ UNCHANGED <<cleanup_list, cursor>>
          \/ phase \in {"binding", "live"} /\ phase' \in {"binding", "live"}
          \/ phase = "deleting" /\ phase' \in {"deleting", "gone"}
          \/ phase' \in {"aborted", "corrupt"}
      BY <1>6
      DEF AddToInitList, ContextInit, DeleteProvider, DeleteContext, Abort,
                  Overflow, vars, config_vars, list_vars
    <2> QED  BY <1>0, <2>1, <2>2 DEF CleanedFromTheEnd
  <1> QED
    BY <1>1, <1>2, <1>3, <1>4, <1>5, <1>6, StepCases DEF OwnerStep

\* No check on the way fails, and no write goes past the array.
LEMMA ChecksPass ==
    ASSUME ScopeInv, OrderlyInv, Orderly
    PROVE  ~CheckFails /\ ~Overflow
  <1> USE DEF OrderlyInv
  <1>0. TypeOK /\ CallStack /\ OverlapNoticed /\ NoProvider \notin Providers
    BY SingletonAssumption DEF ScopeInv
  <1>1. ASSUME NEW t \in Threads, NEW p \in Providers, At(t, p, "once"), ~injector
        PROVE  FALSE
    BY <1>1 DEF At, PhasesInOrder
  <1>2. ASSUME NEW t \in Threads, NEW p \in Providers, At(t, p, "lock")
        PROVE  p \in Registered /\ ~LockAborts
    <2>1. p \in Registered /\ phase = "live" /\ pc[<<t, p>>] = "lock" /\ Top(t, p)
      BY <1>2 DEF At, Top, PhasesInOrder
    <2>2. CASE PortedMutex
      BY <2>1, <2>2 DEF LockAborts
    <2>3. CASE ~overlapped
      <3>1. \A u \in Threads, q \in Providers :
              pc[<<u, q>>] \notin {"idle", "resolve"} => u = t /\ q = p
        BY <1>0, <2>1, <2>3, NobodyElse
      <3>2. \A u \in Threads, q \in Providers : pc[<<u, q>>] \notin Holding
        BY <2>1, <3>1 DEF Holding
      <3> QED  BY <2>1, <3>2 DEF LockAborts, MutexHeld, LockedWhileInside
    <2> QED  BY <2>2, <2>3 DEF Orderly
  <1>3. ASSUME NEW t \in Threads, NEW p \in Providers, At(t, p, "unlock")
        PROVE  ~UnlockAborts
    BY <1>3 DEF At, UnlockAborts, MutexHeld, LockedWhileInside, Holding
  <1>4. phase = "cleanup" => ~UnlockAborts
    BY DEF UnlockAborts, MutexHeld, LockedWhileInside
  <1>5. phase = "deleting" /\ cursor > 0 => object[init_list[cursor]] = 0
    <2> SUFFICES ASSUME phase = "deleting", cursor > 0
                 PROVE  object[init_list[cursor]] = 0
      OBVIOUS
    <2>1. cursor \in 1..Len(init_list)
      BY <1>0 DEF PhasesInOrder, TypeOK
    <2>2. init_list[cursor] \in Providers
      BY <1>0, <2>1 DEF TypeOK
    <2> QED  BY <2>2 DEF CleanedFromTheEnd
  <1>6. ~CheckFails
    BY <1>1, <1>2, <1>3, <1>4, <1>5 DEF CheckFails
  <1>7. ASSUME NEW t \in Threads, NEW p \in Providers, At(t, p, "append")
        PROVE  ~(slot[<<t, p>>] >= Len(cleanup_list))
    <2>1. slot[<<t, p>>] < Len(cleanup_list)
      BY <1>0, <1>7, ListHasRoom DEF At
    <2>2. slot[<<t, p>>] \in Nat /\ Len(cleanup_list) \in Nat
      BY <1>0 DEF TypeOK, Frames
    <2> QED  BY <2>1, <2>2
  <1>8. ~Overflow
    BY <1>7 DEF Overflow
  <1> QED  BY <1>6, <1>8

\* The injector goes through its phases and never out of them.
LEMMA PhasesHold ==
    ASSUME ScopeInv, OrderlyInv, Orderly, [Next]_vars, TypeOK'
    PROVE  PhasesInOrder'
  <1> USE DEF OrderlyInv
  <1>0. TypeOK /\ PhasesInOrder /\ ~Abort /\ ~Overflow
    BY ChecksPass DEF ScopeInv, Abort
  <1>1. ASSUME NEW p \in Providers, AddToInitList(p)
        PROVE  PhasesInOrder'
    <2>1. phase = "binding" /\ UNCHANGED <<phase, pc, cleanup_list_size>>
      BY <1>1 DEF AddToInitList, list_vars, call_vars
    <2> QED  BY <1>0, <2>1 DEF PhasesInOrder, Idle
  <1>2. CASE ContextInit
    <2>1. /\ phase' = "live" /\ injector' /\ Registered' = Providers
          /\ Len(cleanup_list') = Len(init_list) /\ init_list' = init_list
      BY <1>0, <1>2 DEF ContextInit, Registered, TypeOK
    <2> QED  BY <2>1 DEF PhasesInOrder
  <1>3. ASSUME NEW t \in Threads, NEW p \in Providers,
               Request(t, p) \/ GetStep(t, p)
        PROVE  PhasesInOrder'
    <2>1. phase = "live" /\ UNCHANGED <<phase, injector, init_list>>
      BY <1>3 DEF GetStep, Request, Return, ResolveDep, SkipCreate, EnterCreate,
                  Construct, LockList, SetLocked, ReadSize, AppendSelf, UnlockList,
                  SetCalled, At, config_vars
    <2>2. Len(cleanup_list') = Len(cleanup_list)
      <3>1. CASE AppendSelf(t, p)
        BY <1>0, <3>1 DEF AppendSelf, TypeOK
      <3>2. CASE ~AppendSelf(t, p)
        BY <1>3, <3>2
        DEF GetStep, Request, Return, ResolveDep, SkipCreate, EnterCreate,
            Construct, LockList, SetLocked, ReadSize, UnlockList, SetCalled,
            list_vars
      <3> QED  BY <3>1, <3>2
    <2> QED  BY <1>0, <2>1, <2>2 DEF PhasesInOrder, Registered
  <1>4. CASE BeginCleanup \/ CleanupProvider \/ EndCleanup \/ DeleteProvider \/ DeleteContext
    <2>1. /\ phase \in {"live", "cleanup", "deleting"}
          /\ phase' \in {"cleanup", "deleting", "gone"}
          /\ UNCHANGED <<injector, init_list, cleanup_list, pc>>
      BY <1>4 DEF BeginCleanup, CleanupProvider, EndCleanup, DeleteProvider,
                  DeleteContext, list_vars, call_vars
    <2>2. \A t \in Threads : Idle(t)
      BY <1>0, <1>4 DEF BeginCleanup, CleanupProvider, EndCleanup, DeleteProvider,
                  DeleteContext, PhasesInOrder
    <2>3. phase' \in {"deleting", "gone"} => cursor' <= Len(init_list)
      BY <1>0, <1>4 DEF BeginCleanup, CleanupProvider, EndCleanup, DeleteProvider,
                  DeleteContext, PhasesInOrder, TypeOK
    <2> QED  BY <1>0, <2>1, <2>2, <2>3 DEF PhasesInOrder, Registered, Idle
  <1>5. CASE UNCHANGED vars
    BY <1>0, <1>5 DEF vars, config_vars, list_vars, call_vars, PhasesInOrder,
                      Registered, Idle
  <1> QED
    BY <1>0, <1>1, <1>2, <1>3, <1>4, <1>5 DEF Next, TeardownStep


-----------------------------------------------------------------------------

\* Before the first provider is bound nothing has happened yet.
LEMMA ScopeInitHolds == Init => ScopeInv
  <1> SUFFICES ASSUME Init  PROVE ScopeInv
    OBVIOUS
  <1> USE DEF Init, PortInit
  <1>1. TypeOK /\ OnceInv
    BY InitTyped, OnceInitHolds
  <1>2. \A t \in Threads, p \in Providers :
          pc[<<t, p>>] = "idle" /\ callee[<<t, p>>] = NoProvider
    BY DEF Frames
  <1>3. CallStack
    BY <1>2 DEF CallStack, CalleesRun, CallersDiffer, OneRuns, Top
  <1>4. OverlapNoticed
    BY <1>2 DEF OverlapNoticed
  <1>5. PhasesInOrder
    BY <1>2 DEF PhasesInOrder, Idle
  <1>6. MutexHeld
    BY <1>2
    DEF MutexHeld, OneInside, SlotIsNext, LockedWhileInside, Critical, Holding
  <1>7. \A p \in Providers :
          made[p] = 0 /\ object[p] = 0 /\ alive[p] = {} /\ seen[p] = {} /\ ~called[p]
    BY SingletonAssumption
  <1>8. OneCreates
    <2>1. \A t \in Threads, p \in Providers :
            pc[<<t, p>>] \notin InCreate \cup Registering \cup {"return"}
      BY <1>2 DEF InCreate, Constructing, Registering
    <2>2. \A p \in Providers : 0 \in {0, 1} /\ 0 # 1 /\ {} \subseteq {1}
      OBVIOUS
    <2> QED  BY <1>7, <2>1, <2>2 DEF OneCreates
  <1>9. ArgumentsReturned
    BY <1>2, <1>7 DEF ArgumentsReturned
  <1>10. 1..0 = {} /\ Len(<<>>) = 0
    OBVIOUS
  <1>11. ListedOnce
    <2>1. \A p \in Providers : ~Appended(p)
      BY <1>2, <1>7 DEF Appended, Past
    <2>2. cleanup_list_size = 0 /\ cleanup_list_size <= Len(cleanup_list)
      BY <1>10
    <2> QED  BY <1>10, <2>1, <2>2 DEF ListedOnce
  <1>12. DependenciesFirst
    BY <1>10 DEF DependenciesFirst
  <1>13. CleanedFromTheEnd
    BY <1>7 DEF CleanedFromTheEnd
  <1> QED
    BY <1>1, <1>3, <1>4, <1>5, <1>6, <1>8, <1>9, <1>11, <1>12, <1>13
    DEF ScopeInv, OrderlyInv

\* Every step keeps it: that of OnceInv, then of the stack of frames, and in an
\* orderly execution of the mutex, the once, the list and the phases.
LEMMA ScopeStepHolds == ScopeInv /\ [Next]_vars => ScopeInv'
  <1> SUFFICES ASSUME ScopeInv, [Next]_vars
               PROVE  ScopeInv'
    OBVIOUS
  <1>1. TypeOK'
    BY StepTyped DEF ScopeInv
  <1>2. PortedOnce => OnceInv'
    BY OnceStepHolds DEF ScopeInv
  <1>3. CallStack'
    BY CallStackHolds DEF ScopeInv
  <1>4. OverlapNoticed'
    BY OverlapHolds DEF ScopeInv
  <1>5. ASSUME Orderly'
        PROVE  OrderlyInv'
    <2>1. Orderly
      BY <1>5, OrderlyBefore
    <2>2. OrderlyInv
      BY <2>1 DEF ScopeInv
    <2>3. MutexHeld'
      BY <2>1, <2>2, MutexHolds
    <2>4. OneCreates'
      BY <2>1, <2>2, OneCreatesHolds
    <2>5. ArgumentsReturned'
      BY <2>1, <2>2, ArgumentsHold
    <2>6. ListedOnce' /\ DependenciesFirst'
      BY <1>1, <2>1, <2>2, ListHolds
    <2>7. CleanedFromTheEnd'
      BY <1>1, <2>1, <2>2, CleanedHolds
    <2>8. PhasesInOrder'
      BY <1>1, <2>1, <2>2, PhasesHold
    <2> QED  BY <2>3, <2>4, <2>5, <2>6, <2>7, <2>8 DEF OrderlyInv
  <1> QED  BY <1>1, <1>2, <1>3, <1>4, <1>5 DEF ScopeInv

\* The invariant holds of every execution, on every port.
THEOREM ScopeInvariant == Spec => []ScopeInv
  <1> QED  BY ScopeInitHolds, ScopeStepHolds, PTL DEF Spec

-----------------------------------------------------------------------------
(* What follows from it. *)

\* No GUICPP_CHECK_ fails and no write goes past the array, with a port that
\* waits.
THEOREM SingletonNeverCrashes ==
    PortedMutex /\ PortedOnce => (Spec => []NeverCrashes)
  <1> SUFFICES ASSUME PortedMutex, PortedOnce  PROVE Spec => []NeverCrashes
    OBVIOUS
  <1>1. ScopeInv => NeverCrashes
    BY DEF ScopeInv, Orderly, OrderlyInv, PhasesInOrder, NeverCrashes
  <1> QED  BY <1>1, ScopeInvariant, PTL

\* The placeholders do as well, and every Get() has returned the one instance, as
\* long as the calls of two threads have never overlapped.
THEOREM SingletonSequentialKeepsPromises == Spec => []SequentialKeepsPromises
  <1>1. ASSUME ScopeInv, ~overlapped
        PROVE  SameInstance
    <2>1. OneCreates /\ CleanedFromTheEnd
      BY <1>1 DEF ScopeInv, Orderly, OrderlyInv
    <2>2. ASSUME phase = "live", NEW p \in Providers
          PROVE  seen[p] \subseteq {object[p]} \ {0}
      <3>1. seen[p] \subseteq {1} /\ (seen[p] # {} => made[p] = 1)
        BY <2>1 DEF OneCreates
      <3>2. object[p] = made[p]
        BY <2>1, <2>2 DEF CleanedFromTheEnd
      <3> QED  BY <3>1, <3>2
    <2> QED  BY <2>2 DEF SameInstance
  <1>2. ScopeInv /\ ~overlapped => NeverCrashes
    BY DEF ScopeInv, Orderly, OrderlyInv, PhasesInOrder, NeverCrashes
  <1>3. ScopeInv => SequentialKeepsPromises
    BY <1>1, <1>2 DEF SequentialKeepsPromises
  <1> QED  BY <1>3, ScopeInvariant, PTL

\* Cleanup() leaves nothing behind, and nothing is created after it.
THEOREM SingletonAllDestroyed ==
    PortedMutex /\ PortedOnce => (Spec => []AllDestroyed)
  <1> SUFFICES ASSUME PortedMutex, PortedOnce  PROVE Spec => []AllDestroyed
    OBVIOUS
  <1>1. ScopeInv => AllDestroyed
    BY DEF ScopeInv, Orderly, OrderlyInv, CleanedFromTheEnd, AllDestroyed
  <1> QED  BY <1>1, ScopeInvariant, PTL

\* An instance and those it is built from, in every phase.
LEMMA UsersDieFirst ==
    ASSUME ScopeInv, OrderlyInv, NEW p \in Providers, object[p] = 1,
           NEW d \in Deps[p]
    PROVE  seen[d] = {1} /\ object[d] = 1
  <1>0. /\ d \in Providers /\ cursor \in Nat
        /\ phase \in {"binding", "live", "cleanup", "deleting", "gone"}
    BY SingletonAssumption
    DEF ScopeInv, TypeOK, Phases, OrderlyInv, PhasesInOrder
  <1> USE DEF OrderlyInv
  <1>1. CASE phase \in {"binding", "live"}
    <2>1. made[p] = 1
      BY <1>1 DEF CleanedFromTheEnd
    <2>2. seen[d] = {1} /\ made[d] = 1
      BY <1>0, <2>1 DEF ArgumentsReturned, OneCreates
    <2> QED  BY <1>1, <2>2 DEF CleanedFromTheEnd
  <1>2. CASE phase = "cleanup"
    <2>1. PICK i \in 1..cursor : cleanup_list[i] = p
      BY <1>2 DEF CleanedFromTheEnd
    <2>2. i \in 1..cleanup_list_size
      BY <1>0, <1>2, <2>1 DEF CleanedFromTheEnd, ScopeInv, TypeOK
    <2>3. PICK j \in 1..(i - 1) : cleanup_list[j] = d
      BY <2>1, <2>2 DEF DependenciesFirst
    <2>4. j \in 1..cursor
      BY <1>0, <2>1, <2>3
    <2>5. object[d] = 1
      BY <1>0, <1>2, <2>3, <2>4 DEF CleanedFromTheEnd
    <2>6. made[p] = 1
      <3>1. Appended(p) /\ \A t \in Threads : pc[<<t, p>>] = "idle"
        BY <1>2, <2>1, <2>2 DEF ListedOnce, PhasesInOrder, Idle
      <3> QED  BY <3>1 DEF Appended, Past, OneCreates
    <2>7. seen[d] = {1}
      BY <1>0, <2>6 DEF ArgumentsReturned, OneCreates
    <2> QED  BY <2>5, <2>7
  <1>3. CASE phase \in {"deleting", "gone"}
    BY <1>3 DEF CleanedFromTheEnd
  <1> QED  BY <1>0, <1>1, <1>2, <1>3

\* What an instance was built from outlives it.
THEOREM SingletonDependenciesOutlive ==
    PortedMutex /\ PortedOnce => (Spec => []DependenciesOutlive)
  <1> SUFFICES ASSUME PortedMutex, PortedOnce  PROVE Spec => []DependenciesOutlive
    OBVIOUS
  <1>1. ASSUME ScopeInv
        PROVE  DependenciesOutlive
    <2>1. OrderlyInv
      BY <1>1 DEF ScopeInv, Orderly
    <2> SUFFICES ASSUME NEW p \in Providers, alive[p] # {}, NEW d \in Deps[p]
                 PROVE  seen[d] # {} /\ seen[d] \subseteq alive[d]
      BY DEF DependenciesOutlive
    <2>2. d \in Providers
      BY SingletonAssumption
    <2>3. object[p] \in {0, 1}
      <3>1. made[p] \in {0, 1}
        BY <2>1 DEF OrderlyInv, OneCreates
      <3>2. phase \in {"binding", "live", "cleanup", "deleting", "gone"}
        BY <1>1, <2>1 DEF ScopeInv, TypeOK, Phases, OrderlyInv, PhasesInOrder
      <3> QED  BY <2>1, <3>1, <3>2 DEF OrderlyInv, CleanedFromTheEnd
    <2>4. \A q \in Providers : alive[q] = {object[q]} \ {0}
      BY <2>1 DEF OrderlyInv, CleanedFromTheEnd
    <2>5. object[p] = 1
      BY <2>3, <2>4
    <2>6. seen[d] = {1} /\ object[d] = 1
      BY <1>1, <2>1, <2>5, UsersDieFirst
    <2> QED  BY <2>2, <2>4, <2>6
  <1> QED  BY <1>1, ScopeInvariant, PTL

-----------------------------------------------------------------------------
(* The scope as its user sees it.                                           *)

\* Only the constructor and Cleanup() change the life of an instance: the one
\* brings it to life after what it is built from, the other ends it first.
LEMMA InstanceStep ==
    ASSUME ScopeInv, OrderlyInv, [Next]_vars
    PROVE  Scope!Next \/ UNCHANGED <<made, alive>>
  <1> USE DEF OrderlyInv
  <1>0. /\ made \in [Providers -> Nat] /\ alive \in [Providers -> SUBSET Nat]
        /\ object \in [Providers -> Nat] /\ cursor \in Nat /\ cleanup_list_size \in Nat
        /\ NoProvider \notin Providers
        /\ \A q \in Providers : Deps[q] \subseteq Providers
        /\ \A q \in Providers : made[q] \in {0, 1} /\ alive[q] = {object[q]} \ {0}
    BY SingletonAssumption DEF ScopeInv, TypeOK, OneCreates, CleanedFromTheEnd
  <1> DEFINE stageOf(q) == IF made[q] = 0 THEN "unborn"
                           ELSE IF alive[q] # {} THEN "alive" ELSE "dead"
             stage == [q \in Providers |-> stageOf(q)]
  <1>1. ASSUME NEW t \in Threads, NEW p \in Providers, Construct(t, p)
        PROVE  Scope!Next
    <2>1. /\ phase = "live" /\ pc[<<t, p>>] = "resolve"
          /\ todo[<<t, p>>] = {} /\ callee[<<t, p>>] = NoProvider
          /\ made' = [made EXCEPT ![p] = made[p] + 1]
          /\ alive' = [alive EXCEPT ![p] = alive[p] \cup {made[p] + 1}]
      BY <1>1 DEF Construct, At
    <2>2. object = made /\ \A q \in Providers : alive[q] = {made[q]} \ {0}
      BY <1>0, <2>1 DEF CleanedFromTheEnd
    <2>3. made[p] = 0
      BY <2>1 DEF OneCreates, InCreate, Constructing, Registering
    <2>4. \A q \in Providers : stageOf(q) # "dead"
      BY <1>0, <2>2
    <2>5. \A d \in Deps[p] : stageOf(d) = "alive"
      <3> SUFFICES ASSUME NEW d \in Deps[p]  PROVE stageOf(d) = "alive"
        OBVIOUS
      <3>1. d \in Providers /\ seen[d] # {}
        BY <1>0, <2>1 DEF ArgumentsReturned
      <3>2. made[d] = 1
        BY <3>1 DEF OneCreates
      <3> QED  BY <2>2, <3>1, <3>2
    <2>6. stageOf(p) = "unborn" /\ stageOf(p)' = "alive"
      BY <1>0, <2>1, <2>3
    <2>7. \A q \in Providers : q # p => stageOf(q)' = stageOf(q)
      BY <1>0, <2>1
    <2> HIDE DEF stageOf
    <2>8. stage' = [stage EXCEPT ![p] = "alive"]
      BY <2>6, <2>7
    <2>9. /\ stage[p] = "unborn"
          /\ \A d \in Deps[p] : stage[d] = "alive"
          /\ \A q \in Providers : stage[q] # "dead"
      BY <1>0, <2>4, <2>5, <2>6
    <2> HIDE DEF stage
    <2> SUFFICES Scope!Create(p)
      BY DEF Scope!Next
    <2> QED  BY <2>8, <2>9 DEF Scope!Create, stage, stageOf
  <1>2. CASE CleanupProvider
    <2>1. phase = "cleanup" /\ cursor > 0 /\ made' = made
      BY <1>2 DEF CleanupProvider
    <2>2. cursor \in 1..cleanup_list_size
      BY <1>0, <2>1 DEF CleanedFromTheEnd
    <2>3. PICK p \in Providers : p = cleanup_list[cursor] /\ Appended(p)
      BY <2>2 DEF ListedOnce
    <2>4. alive' = [alive EXCEPT ![p] = alive[p] \ {object[p]}]
      BY <1>2, <2>3 DEF CleanupProvider
    <2>5. made[p] = 1
      BY <2>1, <2>3 DEF Appended, Past, OneCreates, PhasesInOrder, Idle
    <2>6. cursor \in 1..cursor
      BY <1>0, <2>1
    <2>7. object[p] = 1
      BY <2>1, <2>3, <2>6 DEF CleanedFromTheEnd
    <2>8. ASSUME NEW q \in Providers, p \in Deps[q]
          PROVE  stageOf(q) # "alive"
      <3> SUFFICES ASSUME alive[q] # {}  PROVE FALSE
        OBVIOUS
      <3>1. object[q] # 0
        BY <1>0
      <3>2. PICK i \in 1..cursor : cleanup_list[i] = q
        BY <2>1, <3>1 DEF CleanedFromTheEnd
      <3>3. i \in 1..cleanup_list_size
        BY <1>0, <2>2, <3>2
      <3>4. PICK j \in 1..(i - 1) : cleanup_list[j] = p
        BY <2>8, <3>2, <3>3 DEF DependenciesFirst
      <3>5. j \in 1..cleanup_list_size /\ j < cursor
        BY <1>0, <2>2, <3>2, <3>4
      <3> QED  BY <2>2, <2>3, <3>4, <3>5 DEF ListedOnce
    <2>9. stageOf(p) = "alive" /\ stageOf(p)' = "dead"
      BY <1>0, <2>1, <2>3, <2>4, <2>5, <2>7
    <2>10. \A q \in Providers : q # p => stageOf(q)' = stageOf(q)
      BY <1>0, <2>1, <2>4
    <2> HIDE DEF stageOf
    <2>11. stage' = [stage EXCEPT ![p] = "dead"]
      BY <2>9, <2>10
    <2>12. /\ stage[p] = "alive"
           /\ \A q \in Providers : p \in Deps[q] => stage[q] # "alive"
      BY <2>3, <2>8, <2>9
    <2> HIDE DEF stage
    <2>13. Scope!Destroy(p)
      BY <2>11, <2>12 DEF Scope!Destroy, stage, stageOf
    <2> QED  BY <2>3, <2>13 DEF Scope!Next
  <1>3. ASSUME NEW t \in Threads, NEW p \in Providers,
               \/ Request(t, p) \/ Return(t, p)
               \/ \E d \in Providers : ResolveDep(t, p, d)
               \/ SkipCreate(t, p) \/ EnterCreate(t, p)
               \/ LockList(t, p) \/ SetLocked(t, p) \/ ReadSize(t, p)
               \/ AppendSelf(t, p) \/ UnlockList(t, p) \/ SetCalled(t, p)
        PROVE  UNCHANGED <<made, alive>>
    BY <1>3 DEF Request, Return, ResolveDep, SkipCreate, EnterCreate, LockList,
                SetLocked, ReadSize, AppendSelf, UnlockList, SetCalled,
                instance_vars
  <1>4. CASE OwnerStep /\ ~CleanupProvider
    BY <1>4 DEF OwnerStep, AddToInitList, ContextInit, BeginCleanup, EndCleanup,
                DeleteProvider, DeleteContext, Abort, Overflow, vars, instance_vars
  <1> QED  BY <1>1, <1>2, <1>3, <1>4, StepCases

\* At first no instance of any provider has come to life.
LEMMA ScopeStarts == Init => Scope!Init
  BY DEF Init, Scope!Init

\* With a port that waits, the scope is the one its user was promised.
THEOREM SingletonImplementsScope ==
    PortedMutex /\ PortedOnce => (Spec => ImplementsScope)
  <1> SUFFICES ASSUME PortedMutex, PortedOnce  PROVE Spec => ImplementsScope
    OBVIOUS
  <1>1. ScopeInv /\ [Next]_vars =>
          [Scope!Next]_([p \in Providers |-> IF made[p] = 0 THEN "unborn"
                                            ELSE IF alive[p] # {} THEN "alive"
                                            ELSE "dead"])
    <2>1. ASSUME ScopeInv, [Next]_vars
          PROVE  Scope!Next \/ UNCHANGED <<made, alive>>
      <3>1. OrderlyInv
        BY <2>1 DEF ScopeInv, Orderly
      <3> QED  BY <2>1, <3>1, InstanceStep
    <2> QED  BY <2>1
  <1> QED
    BY <1>1, ScopeStarts, ScopeInvariant, PTL
    DEF Spec, ImplementsScope, Scope!Spec

\* With the placeholders it is, up to the first overlap of two threads.
THEOREM SingletonSequentialScope == Spec => SequentialScope
  <1>1. ScopeInv /\ [Next]_vars => [overlapped' \/ Scope!Next]_<<made, alive>>
    <2> SUFFICES ASSUME ScopeInv, [Next]_vars, ~overlapped'
                 PROVE  Scope!Next \/ UNCHANGED <<made, alive>>
      OBVIOUS
    <2>1. OrderlyInv
      BY OrderlyBefore DEF ScopeInv, Orderly
    <2> QED  BY <2>1, InstanceStep
  <1> QED
    BY <1>1, ScopeStarts, ScopeInvariant, PTL DEF Spec, SequentialScope

-----------------------------------------------------------------------------
(* The context as an owner of instances.                                    *)

\* Replacing the element behind a prefix appends to the prefix.
LEMMA PrefixGrows ==
    ASSUME NEW S, NEW s \in Seq(S), NEW n \in Nat, n < Len(s), NEW e \in S
    PROVE  SubSeq([s EXCEPT ![n + 1] = e], 1, n + 1) = Append(SubSeq(s, 1, n), e)
  <1> DEFINE r == [s EXCEPT ![n + 1] = e]
             a == SubSeq(r, 1, n + 1)
             b == Append(SubSeq(s, 1, n), e)
  <1>1. n + 1 \in 1..Len(s) /\ Len(s) \in Nat
    OBVIOUS
  <1>2. r \in Seq(S) /\ Len(r) = Len(s)
    BY <1>1, ExceptSeq
  <1>3. \A k \in 1..(n + 1) : r[k] = IF k = n + 1 THEN e ELSE s[k]
    BY <1>1
  <1> HIDE DEF r
  <1>4. /\ a \in Seq(S) /\ Len(a) = n + 1
        /\ \A k \in 1..(n + 1) : a[k] = r[k]
    BY <1>1, <1>2
  <1>5. /\ SubSeq(s, 1, n) \in Seq(S) /\ Len(SubSeq(s, 1, n)) = n
        /\ \A k \in 1..n : SubSeq(s, 1, n)[k] = s[k]
    BY <1>1
  <1>6. /\ b \in Seq(S) /\ Len(b) = n + 1
        /\ \A k \in 1..(n + 1) : b[k] = IF k = n + 1 THEN e ELSE s[k]
    BY <1>5
  <1> HIDE DEF a, b
  <1>7. \A k \in 1..(n + 1) : a[k] = b[k]
    BY <1>3, <1>4, <1>6
  <1>8. a = b
    BY <1>4, <1>6, <1>7, SeqEqual
  <1> QED  BY <1>8 DEF a, b, r

\* A prefix without its last element.
LEMMA PrefixShrinks ==
    ASSUME NEW S, NEW s \in Seq(S), NEW n \in 1..Len(s)
    PROVE  /\ SubSeq(s, 1, n) # <<>>
           /\ Len(SubSeq(s, 1, n)) = n
           /\ SubSeq(s, 1, n)[n] = s[n]
           /\ SubSeq(SubSeq(s, 1, n), 1, n - 1) = SubSeq(s, 1, n - 1)
  <1> DEFINE a == SubSeq(SubSeq(s, 1, n), 1, n - 1)
             b == SubSeq(s, 1, n - 1)
  <1>0. n \in Nat /\ n >= 1 /\ Len(s) \in Nat /\ n <= Len(s)
    OBVIOUS
  <1>1. SubSeq(s, 1, n) \in Seq(S) /\ Len(SubSeq(s, 1, n)) = n
    BY <1>0
  <1>2. \A k \in 1..n : SubSeq(s, 1, n)[k] = s[k]
    BY <1>0
  <1>3. a \in Seq(S) /\ Len(a) = n - 1 /\ b \in Seq(S) /\ Len(b) = n - 1
    BY <1>0, <1>1
  <1>4. \A k \in 1..(n - 1) : a[k] = b[k]
    BY <1>0, <1>1, <1>2
  <1> HIDE DEF a, b
  <1>5. a = b
    BY <1>3, <1>4, SeqEqual
  <1> QED  BY <1>0, <1>1, <1>2, <1>5 DEF a, b

\* Nothing is held by a prefix of no elements, whatever the array.
LEMMA PrefixEmpty == \A s : SubSeq(s, 1, 0) = <<>>
  OBVIOUS

\* What the context holds: the entries Cleanup() has not deleted yet.
Held == SubSeq(cleanup_list, 1,
               IF phase = "cleanup" THEN cursor
               ELSE IF phase \in {"deleting", "gone"} THEN 0
               ELSE cleanup_list_size)
Released == {p \in Providers : made[p] # 0 /\ alive[p] = {}}

\* An append adopts an instance, a turn of Cleanup()'s loop deletes the youngest,
\* and nothing else changes hands.
LEMMA OwnerAdvances ==
    ASSUME ScopeInv, OrderlyInv, Orderly, [Next]_vars
    PROVE  Owner!Next \/ UNCHANGED <<Held, Released>>
  <1> USE DEF OrderlyInv
  <1>0. /\ made \in [Providers -> Nat] /\ alive \in [Providers -> SUBSET Nat]
        /\ object \in [Providers -> Nat] /\ cursor \in Nat /\ cleanup_list_size \in Nat
        /\ cleanup_list \in Seq(Providers \cup {NoProvider})
        /\ \A q \in Providers : made[q] \in {0, 1} /\ alive[q] = {object[q]} \ {0}
        /\ ~Abort /\ ~Overflow
    BY ChecksPass DEF ScopeInv, TypeOK, OneCreates, CleanedFromTheEnd, Abort
  <1>1. ASSUME NEW t \in Threads, NEW p \in Providers, AppendSelf(t, p)
        PROVE  Owner!Next
    <2> DEFINE n == cleanup_list_size
    <2>1. /\ phase = "live" /\ phase' = "live" /\ pc[<<t, p>>] = "append"
          /\ UNCHANGED <<made, alive>>
          /\ slot[<<t, p>>] = n /\ n < Len(cleanup_list)
          /\ cleanup_list' = [cleanup_list EXCEPT ![n + 1] = p]
          /\ cleanup_list_size' = n + 1
      BY <1>1
      DEF AppendSelf, At, MutexHeld, SlotIsNext, config_vars, instance_vars
    <2>2. Held' = Append(Held, p)
      BY <1>0, <2>1, PrefixGrows DEF Held
    <2>3. Released = {} /\ Released' = Released
      <3>1. object = made
        BY <2>1 DEF CleanedFromTheEnd
      <3>2. \A q \in Providers : made[q] # 0 => alive[q] # {}
        BY <1>0, <3>1
      <3> QED  BY <2>1, <3>2 DEF Released
    <2>4. ~Appended(p)
      BY <2>1 DEF OneCreates, InCreate, Registering, Past, Appended
    <2>5. \A i \in 1..n : cleanup_list[i] # p
      BY <2>4 DEF ListedOnce
    <2>6. DOMAIN Held = 1..n /\ \A i \in 1..n : Held[i] = cleanup_list[i]
      BY <1>0, <2>1 DEF Held
    <2>7. Owner!Adopt(p)
      BY <2>2, <2>3, <2>5, <2>6 DEF Owner!Adopt, Held, Released
    <2> QED  BY <2>7 DEF Owner!Next
  <1>2. CASE CleanupProvider
    <2>1. /\ phase = "cleanup" /\ phase' = "cleanup"
          /\ cursor > 0 /\ cursor' = cursor - 1
          /\ UNCHANGED <<made, cleanup_list>>
      BY <1>2 DEF CleanupProvider, list_vars
    <2>2. cursor \in 1..cleanup_list_size /\ cursor \in 1..Len(cleanup_list)
      BY <1>0, <2>1 DEF CleanedFromTheEnd, ListedOnce
    <2>3. PICK p \in Providers : p = cleanup_list[cursor] /\ Appended(p)
      BY <2>2 DEF ListedOnce
    <2>4. alive' = [alive EXCEPT ![p] = alive[p] \ {object[p]}]
      BY <1>2, <2>3 DEF CleanupProvider
    <2>5. made[p] = 1
      BY <2>1, <2>3 DEF Appended, Past, OneCreates, PhasesInOrder, Idle
    <2>6. Released' = Released \cup {p}
      BY <1>0, <2>1, <2>4, <2>5 DEF Released
    <2>7. /\ Held # <<>> /\ Len(Held) = cursor /\ Held[cursor] = p
          /\ Held' = SubSeq(Held, 1, cursor - 1)
      BY <1>0, <2>1, <2>2, <2>3, PrefixShrinks DEF Held
    <2>8. Owner!ReleaseYoungest
      BY <2>6, <2>7 DEF Owner!ReleaseYoungest, Held, Released
    <2> QED  BY <2>8 DEF Owner!Next
  <1>3. ASSUME NEW t \in Threads, NEW p \in Providers, Construct(t, p)
        PROVE  UNCHANGED <<Held, Released>>
    <2>1. /\ phase = "live" /\ pc[<<t, p>>] = "resolve"
          /\ made' = [made EXCEPT ![p] = made[p] + 1]
          /\ alive' = [alive EXCEPT ![p] = alive[p] \cup {made[p] + 1}]
          /\ UNCHANGED <<phase, cursor, cleanup_list, cleanup_list_size>>
      BY <1>3 DEF Construct, At, config_vars, list_vars
    <2>2. made[p] = 0
      BY <2>1 DEF OneCreates, InCreate, Constructing, Registering
    <2>3. Released' = Released
      BY <1>0, <2>1, <2>2 DEF Released
    <2> QED  BY <2>1, <2>3 DEF Held
  <1>4. ASSUME NEW t \in Threads, NEW p \in Providers,
               \/ Request(t, p) \/ Return(t, p)
               \/ \E d \in Providers : ResolveDep(t, p, d)
               \/ SkipCreate(t, p) \/ EnterCreate(t, p)
               \/ LockList(t, p) \/ SetLocked(t, p) \/ ReadSize(t, p)
               \/ UnlockList(t, p) \/ SetCalled(t, p)
        PROVE  UNCHANGED <<Held, Released>>
    <2>1. UNCHANGED <<made, alive, phase, cursor, cleanup_list, cleanup_list_size>>
      BY <1>4 DEF Request, Return, ResolveDep, SkipCreate, EnterCreate, LockList,
                  SetLocked, ReadSize, UnlockList, SetCalled, instance_vars,
                  config_vars, list_vars
    <2> QED  BY <2>1 DEF Held, Released
  <1>5. CASE ContextInit
    <2>1. /\ phase = "binding" /\ phase' = "live"
          /\ cleanup_list_size = 0 /\ cleanup_list_size' = 0
          /\ UNCHANGED <<made, alive>>
      BY <1>5 DEF ContextInit, PhasesInOrder, instance_vars
    <2>2. Held = <<>> /\ Held' = <<>>
      BY <2>1, PrefixEmpty DEF Held
    <2> QED  BY <2>1, <2>2 DEF Released
  <1>6. CASE BeginCleanup
    <2>1. /\ phase = "live" /\ phase' = "cleanup" /\ cursor' = cleanup_list_size
          /\ UNCHANGED <<made, alive, cleanup_list>>
      BY <1>6 DEF BeginCleanup, instance_vars, list_vars
    <2> QED  BY <2>1 DEF Held, Released
  <1>7. CASE EndCleanup
    <2>1. /\ phase = "cleanup" /\ phase' = "deleting" /\ cursor = 0
          /\ UNCHANGED <<made, alive, cleanup_list>>
      BY <1>7 DEF EndCleanup, instance_vars, list_vars
    <2> QED  BY <2>1 DEF Held, Released
  <1>8. CASE \/ \E p \in Providers : AddToInitList(p)
             \/ DeleteProvider \/ DeleteContext \/ UNCHANGED vars
    <2>1. UNCHANGED <<made, alive, cleanup_list, cleanup_list_size>>
      BY <1>8
      DEF AddToInitList, DeleteProvider, DeleteContext, vars, instance_vars,
                  list_vars
    <2>2. \/ UNCHANGED <<phase, cursor>>
          \/ phase = "deleting" /\ phase' \in {"deleting", "gone"}
      BY <1>8 DEF AddToInitList, DeleteProvider, DeleteContext, vars, config_vars
    <2> QED  BY <2>1, <2>2 DEF Held, Released
  <1> QED
    BY <1>0, <1>1, <1>2, <1>3, <1>4, <1>5, <1>6, <1>7, <1>8, StepCases
    DEF OwnerStep

\* The context deletes the instances youngest first, each once, and takes none
\* on after that.
THEOREM SingletonImplementsOwner ==
    PortedMutex /\ PortedOnce => (Spec => ImplementsOwner)
  <1> SUFFICES ASSUME PortedMutex, PortedOnce  PROVE Spec => ImplementsOwner
    OBVIOUS
  <1>1. Init => Owner!Init
    BY PrefixEmpty DEF Init, Owner!Init
  <1>2. ScopeInv /\ [Next]_vars => [Owner!Next]_Owner!vars
    <2>1. ASSUME ScopeInv, [Next]_vars
          PROVE  Owner!Next \/ UNCHANGED <<Held, Released>>
      <3>1. Orderly /\ OrderlyInv
        BY <2>1 DEF ScopeInv, Orderly
      <3> QED  BY <2>1, <3>1, OwnerAdvances
    <2> QED  BY <2>1 DEF Owner!vars, Held, Released
  <1> QED
    BY <1>1, <1>2, ScopeInvariant, PTL DEF Spec, ImplementsOwner, Owner!Spec

-----------------------------------------------------------------------------
(* Who waits for whom, on any port. A frame that cannot go on waits for one  *)
(* of a provider its own is built from, for the frame that creates the same  *)
(* instance, or for one at the list; so the frame of a provider that is built *)
(* from the least waits for nobody, or somebody at the list waits for nobody. *)

\* A thread that keeps others out of Create() is inside of it.
RunnerCreates ==
    PortedOnce => \A p \in Providers :
      runner[p] # NoThread /\ ~called[p] =>
        \E t \in Threads : pc[<<t, p>>] \in InCreate

\* One that keeps others from the list is at the list.
HolderIsInside ==
    PortedMutex /\ phase \in {"binding", "live"} /\ locked =>
      \E t \in Threads, p \in Providers : pc[<<t, p>>] \in Holding

\* A nested Get() is for an argument of the constructor.
ArgumentsOnly ==
    \A t \in Threads, p \in Providers :
      /\ todo[<<t, p>>] \subseteq Deps[p]
      /\ callee[<<t, p>>] # NoProvider => callee[<<t, p>>] \in Deps[p]

WaitInv == RunnerCreates /\ HolderIsInside /\ ArgumentsOnly

\* The arguments are taken on by Create() and requested one after the other.
LEMMA ArgumentsOnlyHolds ==
    ASSUME TypeOK, ArgumentsOnly, [Next]_vars
    PROVE  ArgumentsOnly'
  <1> USE SingletonAssumption DEF TypeOK, Frames
  <1>1. CASE OwnerStep
    BY <1>1, OwnerStepFrames DEF call_vars, ArgumentsOnly
  <1>2. ASSUME NEW t \in Threads, NEW p \in Providers, EnterCreate(t, p)
        PROVE  ArgumentsOnly'
    <2>1. todo' = [todo EXCEPT ![<<t, p>>] = Deps[p]] /\ callee' = callee
      BY <1>2 DEF EnterCreate
    <2> QED  BY <2>1 DEF ArgumentsOnly
  <1>3. ASSUME NEW t \in Threads, NEW p \in Providers, NEW d \in Providers,
               ResolveDep(t, p, d)
        PROVE  ArgumentsOnly'
    <2>1. /\ d \in todo[<<t, p>>]
          /\ todo' = [todo EXCEPT ![<<t, p>>] = todo[<<t, p>>] \ {d}]
          /\ callee' = [callee EXCEPT ![<<t, p>>] = d]
      BY <1>3 DEF ResolveDep
    <2> QED  BY <2>1 DEF ArgumentsOnly
  <1>4. ASSUME NEW t \in Threads, NEW p \in Providers, Return(t, p)
        PROVE  ArgumentsOnly'
    BY <1>4 DEF Return, ArgumentsOnly
  <1>5. ASSUME NEW t \in Threads, NEW p \in Providers,
               \/ Request(t, p) \/ SkipCreate(t, p) \/ Construct(t, p)
               \/ LockList(t, p) \/ SetLocked(t, p) \/ ReadSize(t, p)
               \/ AppendSelf(t, p) \/ UnlockList(t, p) \/ SetCalled(t, p)
        PROVE  ArgumentsOnly'
    <2>1. UNCHANGED <<todo, callee>>
      BY <1>5 DEF Request, SkipCreate, Construct, LockList, SetLocked, ReadSize,
                  AppendSelf, UnlockList, SetCalled
    <2> QED  BY <2>1 DEF ArgumentsOnly
  <1> QED  BY <1>1, <1>2, <1>3, <1>4, <1>5, StepCases

\* A step at which nothing is acquired or released, no frame leaves Create() and
\* none leaves the list.
LEMMA NobodyLeaves ==
    ASSUME RunnerCreates, HolderIsInside, UNCHANGED port_vars,
           phase' \in {"binding", "live"} => phase \in {"binding", "live"},
           \A u \in Threads, q \in Providers :
             /\ pc[<<u, q>>] \in InCreate => pc'[<<u, q>>] \in InCreate
             /\ pc[<<u, q>>] \in Holding => pc'[<<u, q>>] \in Holding
    PROVE  RunnerCreates' /\ HolderIsInside'
  <1>1. RunnerCreates'
    BY DEF RunnerCreates, port_vars
  <1>2. HolderIsInside'
    BY DEF HolderIsInside, port_vars
  <1> QED  BY <1>1, <1>2

\* The frame takes a step to `step`, and no other moves.
Moves(t, p, step) ==
    \A u \in Threads, q \in Providers :
      pc'[<<u, q>>] = IF u = t /\ q = p THEN step ELSE pc[<<u, q>>]

\* Create() is left when called_ is set, and the list when the mutex is released.
LEMMA HoldersHold ==
    ASSUME TypeOK, CallStack, RunnerCreates, HolderIsInside, [Next]_vars
    PROVE  RunnerCreates' /\ HolderIsInside'
  <1>0. ASSUME NEW t \in Threads, NEW p \in Providers, NEW step \in PCs,
               Goto(t, p, step)
        PROVE  Moves(t, p, step)
    BY <1>0 DEF Moves, Goto, TypeOK, Frames
  <1> USE DEF Moves, InCreate, Constructing, Registering, Holding
  <1>1. CASE OwnerStep
    <2>1. pc' = pc /\ runner' = runner /\ called' = called
      BY <1>1 DEF OwnerStep, AddToInitList, ContextInit, BeginCleanup,
                  CleanupProvider, EndCleanup, DeleteProvider, DeleteContext, Abort,
                  Overflow, vars, port_vars, call_vars
    <2>2. phase' \in {"binding", "live"} =>
            phase \in {"binding", "live"} /\ locked' = locked
      BY <1>1 DEF OwnerStep, AddToInitList, ContextInit, BeginCleanup,
                  CleanupProvider, EndCleanup, DeleteProvider, DeleteContext, Abort,
                  Overflow, vars, port_vars, config_vars
    <2>3. RunnerCreates'
      BY <2>1 DEF RunnerCreates
    <2>4. HolderIsInside'
      BY <2>1, <2>2 DEF HolderIsInside
    <2> QED  BY <2>3, <2>4
  <1>2. ASSUME NEW t \in Threads, NEW p \in Providers,
               Request(t, p) \/ SkipCreate(t, p) \/ Return(t, p)
        PROVE  RunnerCreates' /\ HolderIsInside'
    <2>1. UNCHANGED port_vars /\ phase' = phase
      BY <1>2 DEF Request, SkipCreate, Return, config_vars
    <2>2. pc[<<t, p>>] \in {"idle", "once", "return"}
      BY <1>2 DEF Request, SkipCreate, Return, At, Idle
    <2>3. \E step \in PCs : Goto(t, p, step)
      BY <1>2 DEF Request, SkipCreate, Return, PCs
    <2>4. \A u \in Threads, q \in Providers :
            pc[<<u, q>>] \in InCreate \cup Holding => pc'[<<u, q>>] = pc[<<u, q>>]
      BY <1>0, <2>2, <2>3
    <2> QED  BY <2>1, <2>4, NobodyLeaves
  <1>3. ASSUME NEW t \in Threads, NEW p \in Providers, NEW d \in Providers,
               ResolveDep(t, p, d)
        PROVE  RunnerCreates' /\ HolderIsInside'
    <2>1. /\ UNCHANGED port_vars /\ phase' = phase
          /\ pc[<<t, d>>] = "idle" /\ Goto(t, d, "once")
      BY <1>3 DEF ResolveDep, config_vars
    <2>2. \A u \in Threads, q \in Providers :
            pc[<<u, q>>] \in InCreate \cup Holding => pc'[<<u, q>>] = pc[<<u, q>>]
      BY <1>0, <2>1 DEF PCs
    <2> QED  BY <2>1, <2>2, NobodyLeaves
  <1>4. ASSUME NEW t \in Threads, NEW p \in Providers,
               Construct(t, p) \/ ReadSize(t, p) \/ AppendSelf(t, p)
        PROVE  RunnerCreates' /\ HolderIsInside'
    <2>1. UNCHANGED port_vars /\ phase' = phase
      BY <1>4 DEF Construct, ReadSize, AppendSelf, config_vars
    <2>2. \/ pc[<<t, p>>] = "resolve" /\ Goto(t, p, "lock")
          \/ pc[<<t, p>>] = "read_size" /\ Goto(t, p, "append")
          \/ pc[<<t, p>>] = "append" /\ Goto(t, p, "unlock")
      BY <1>4 DEF Construct, ReadSize, AppendSelf, At
    <2>3. \/ pc[<<t, p>>] = "resolve" /\ Moves(t, p, "lock")
          \/ pc[<<t, p>>] = "read_size" /\ Moves(t, p, "append")
          \/ pc[<<t, p>>] = "append" /\ Moves(t, p, "unlock")
      BY <1>0, <2>2 DEF PCs
    <2>4. \A u \in Threads, q \in Providers :
            /\ pc[<<u, q>>] \in InCreate => pc'[<<u, q>>] \in InCreate
            /\ pc[<<u, q>>] \in Holding => pc'[<<u, q>>] \in Holding
      BY <2>3
    <2> QED  BY <2>1, <2>4, NobodyLeaves
  <1>5. ASSUME NEW t \in Threads, NEW p \in Providers, EnterCreate(t, p)
        PROVE  RunnerCreates' /\ HolderIsInside'
    <2>1. /\ UNCHANGED <<locked, called, phase>> /\ pc[<<t, p>>] = "once"
          /\ Moves(t, p, "resolve")
          /\ \A q \in Providers : q # p => runner'[q] = runner[q]
      BY <1>0, <1>5, PortAssumption, SingletonAssumption
      DEF EnterCreate, OnceRuns, At, PCs, config_vars, TypeOK, PortTypeOK
    <2>2. HolderIsInside'
      BY <2>1 DEF HolderIsInside
    <2>3. RunnerCreates'
      BY <2>1 DEF RunnerCreates
    <2> QED  BY <2>2, <2>3
  <1>6. ASSUME NEW t \in Threads, NEW p \in Providers,
               LockList(t, p) \/ SetLocked(t, p)
        PROVE  RunnerCreates' /\ HolderIsInside'
    <2>1. /\ UNCHANGED <<called, runner>>
          /\ pc[<<t, p>>] \in {"lock", "set_locked"}
          /\ \/ PortedMutex /\ Goto(t, p, "read_size")
             \/ ~PortedMutex /\ \E step \in {"set_locked", "read_size"} : Goto(t, p, step)
      BY <1>6 DEF LockList, SetLocked, LockTaken, LockTested, LockSet, At
    <2>2. RunnerCreates'
      BY <1>0, <2>1 DEF RunnerCreates, PCs
    <2>3. HolderIsInside'
      BY <1>0, <2>1 DEF HolderIsInside, PCs
    <2> QED  BY <2>2, <2>3
  <1>7. ASSUME NEW t \in Threads, NEW p \in Providers, UnlockList(t, p)
        PROVE  RunnerCreates' /\ HolderIsInside'
    <2>1. /\ UNCHANGED <<called, runner>> /\ locked' = FALSE
          /\ Moves(t, p, "set_called")
      BY <1>0, <1>7 DEF UnlockList, Unlock, PCs
    <2> QED  BY <2>1 DEF RunnerCreates, HolderIsInside
  <1>8. ASSUME NEW t \in Threads, NEW p \in Providers, SetCalled(t, p)
        PROVE  RunnerCreates' /\ HolderIsInside'
    <2>1. /\ called'[p] = TRUE
          /\ \A q \in Providers :
               q # p => runner'[q] = runner[q] /\ called'[q] = called[q]
      BY <1>8, SingletonAssumption DEF SetCalled, OnceDone, TypeOK, PortTypeOK
    <2>2. /\ UNCHANGED <<locked, phase>> /\ pc[<<t, p>>] = "set_called"
          /\ Moves(t, p, "return")
      BY <1>0, <1>8 DEF SetCalled, At, PCs, config_vars
    <2>3. RunnerCreates'
      BY <2>1, <2>2 DEF RunnerCreates
    <2>4. HolderIsInside'
      BY <2>2 DEF HolderIsInside
    <2> QED  BY <2>3, <2>4
  <1> QED
    BY <1>1, <1>2, <1>3, <1>4, <1>5, <1>6, <1>7, <1>8, StepCases

\* It holds of every execution, on any port.
THEOREM WaitInvariant == Spec => []WaitInv
  <1>1. Init => WaitInv
    BY PortAssumption, SingletonAssumption
    DEF Init, PortInit, WaitInv, RunnerCreates, HolderIsInside, ArgumentsOnly, Frames
  <1>2. ScopeInv /\ WaitInv /\ [Next]_vars => WaitInv'
    BY ArgumentsOnlyHolds, HoldersHold DEF ScopeInv, WaitInv
  <1> QED  BY <1>1, <1>2, ScopeInvariant, PTL DEF Spec

\* Of a set of natural numbers one is the least.
LEMMA LeastOf ==
    ASSUME NEW I \in SUBSET Nat, I # {}
    PROVE  \E x \in I : \A y \in I : x <= y
  <1>1. PICK x \in I : \A y \in I : ~(<<y, x>> \in OpToRel(<, Nat))
    BY WFMin, NatLessThanWellFounded, Zenon
  <1>2. \A y \in I : ~(y < x)
    <2> SUFFICES ASSUME NEW y \in I, y < x  PROVE FALSE
      OBVIOUS
    <2>1. <<y, x>> \in Nat \X Nat /\ <<y, x>>[1] = y /\ <<y, x>>[2] = x
      OBVIOUS
    <2>2. <<y, x>> \in OpToRel(<, Nat)
      BY <2>1, Zenon DEF OpToRel
    <2> QED  BY <1>1, <2>2
  <1> QED  BY <1>2

\* Among the providers that are being asked for there is one built from none of
\* the others.
LEMMA LeastAsked ==
    ASSUME NEW S \in SUBSET Providers, S # {}
    PROVE  \E p \in S : Deps[p] \cap S = {}
  <1>1. PICK rank \in [Providers -> 1..Cardinality(Providers)] :
          \A p \in Providers : \A d \in Deps[p] : rank[d] < rank[p]
    BY SingletonAssumption DEF Acyclic
  <1>2. \A p \in Providers : rank[p] \in Nat
    BY <1>1, SingletonAssumption, FS_CardinalityType
  <1>3. PICK p \in S : \A q \in S : rank[p] <= rank[q]
    <2> DEFINE I == {rank[q] : q \in S}
    <2>1. I \in SUBSET Nat /\ I # {}
      BY <1>2
    <2>2. PICK x \in I : \A y \in I : x <= y
      BY <2>1, LeastOf
    <2> QED  BY <2>2
  <1>4. ASSUME NEW d \in Deps[p] \cap S  PROVE FALSE
    BY <1>1, <1>2, <1>3
  <1> QED  BY <1>4

\* A thread inside Get() never waits in a circle, whatever the port.
LEMMA WaitsEnd ==
    ASSUME TypeOK, CallStack, WaitInv
    PROVE  SomebodyGoesOn
  <1> SUFFICES ASSUME phase = "live",
                      NEW u0 \in Threads, NEW p0 \in Providers, pc[<<u0, p0>>] # "idle",
                      \A t \in Threads, p \in Providers :
                        pc[<<t, p>>] # "idle" => Waits(t, p)
               PROVE  FALSE
    BY DEF SomebodyGoesOn, Idle
  <1> DEFINE S == {p \in Providers : \E t \in Threads : pc[<<t, p>>] # "idle"}
  <1>1. PICK p \in S : Deps[p] \cap S = {}
    <2>1. p0 \in S /\ S \in SUBSET Providers
      OBVIOUS
    <2> QED  BY <2>1, LeastAsked
  <1>2. \A t \in Threads : pc[<<t, p>>] # "idle" => callee[<<t, p>>] = NoProvider
    <2> SUFFICES ASSUME NEW t \in Threads, callee[<<t, p>>] # NoProvider  PROVE FALSE
      OBVIOUS
    <2>1. callee[<<t, p>>] \in Deps[p] /\ callee[<<t, p>>] \in Providers
      BY SingletonAssumption DEF WaitInv, ArgumentsOnly
    <2>2. pc[<<t, callee[<<t, p>>]>>] # "idle"
      BY DEF CallStack, CalleesRun
    <2> QED  BY <1>1, <2>1, <2>2
  <1>3. ASSUME NEW t \in Threads, pc[<<t, p>>] = "resolve"
        PROVE  FALSE
    <2>1. PICK d \in todo[<<t, p>>] : pc[<<t, d>>] # "idle"
      BY <1>2, <1>3 DEF Waits
    <2>2. d \in Deps[p] /\ d \in Providers
      BY SingletonAssumption DEF WaitInv, ArgumentsOnly
    <2> QED  BY <1>1, <2>1, <2>2
  <1>4. ASSUME NEW t \in Threads, NEW q \in Providers, pc[<<t, q>>] = "lock"
        PROVE  FALSE
    <2>1. callee[<<t, q>>] = NoProvider
      BY <1>4 DEF CallStack, CalleesRun
    <2>2. PortedMutex /\ locked
      BY <1>4, <2>1 DEF Waits
    <2>3. PICK v \in Threads, r \in Providers : pc[<<v, r>>] \in Holding
      BY <2>2 DEF WaitInv, HolderIsInside
    <2>4. callee[<<v, r>>] = NoProvider
      BY <2>3 DEF CallStack, CalleesRun, Holding
    <2> QED  BY <2>3, <2>4 DEF Waits, Holding
  <1>5. ASSUME NEW t \in Threads, pc[<<t, p>>] = "once"
        PROVE  FALSE
    <2>1. PortedOnce /\ ~called[p] /\ runner[p] # NoThread
      BY <1>2, <1>5 DEF Waits
    <2>2. PICK v \in Threads : pc[<<v, p>>] \in InCreate
      BY <2>1 DEF WaitInv, RunnerCreates
    <2> QED
      BY <1>2, <1>3, <1>4, <2>2 DEF Waits, InCreate, Constructing, Registering
  <1>6. PICK t \in Threads : pc[<<t, p>>] # "idle"
    OBVIOUS
  <1> QED  BY <1>2, <1>3, <1>4, <1>5, <1>6 DEF Waits

\* Threads that create instances built from one another never all wait.
THEOREM SingletonSomebodyGoesOn == Spec => []SomebodyGoesOn
  <1>1. ScopeInv /\ WaitInv => SomebodyGoesOn
    BY WaitsEnd DEF ScopeInv
  <1> QED  BY <1>1, ScopeInvariant, WaitInvariant, PTL
=============================================================================
