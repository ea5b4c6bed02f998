---------------------------- MODULE LazySingleton ----------------------------
(***************************************************************************)
(* The lazy singleton scope: LazySingletonProvider::Get(), which creates   *)
(* the instance of its type on first use, and ScopeSetupContext, which     *)
(* remembers the order of creation and destroys in reverse.                *)
(*                                                                         *)
(* Several threads use one injector. A thread that creates an instance     *)
(* first resolves the constructor's arguments, and each argument that is a *)
(* singleton too is a nested Get() on the same thread. The frame of thread *)
(* t in provider p's Get() is the pair <<t, p>>: no constructor depends on *)
(* its own type, so a thread has at most one frame per provider.           *)
(*                                                                         *)
(* A step reads or writes shared fields as if they were sequentially       *)
(* consistent. A ported mutex or once makes the accesses it guards so; the *)
(* placeholders use plain fields, whose races are undefined in C++ and may *)
(* have outcomes beyond the interleavings here.                            *)
(***************************************************************************)
EXTENDS Port, Naturals, Sequences, FiniteSets

CONSTANTS
    Providers,  \* LazySingletonProvider objects, one per BindToScope()
    Deps,       \* Deps[p]: providers whose instances p's constructor is given
    NoProvider,
    MaxGets     \* bound: how often a thread may ask the injector

\* A constructor that needs its own type, directly or through others, recurses
\* without end in this library; such bindings are outside the model.
Acyclic ==
    \E rank \in [Providers -> 1..Cardinality(Providers)] :
      \A p \in Providers : \A d \in Deps[p] : rank[d] < rank[p]

ASSUME SingletonAssumption ==
    /\ Deps \in [Providers -> SUBSET Providers]
    /\ IsFiniteSet(Providers) /\ Acyclic
    /\ NoProvider \notin Providers
    /\ MaxGets \in Nat
    /\ Onces = Providers

VARIABLES
    phase,              \* where the injector, or the process, is in its life
    injector,           \* ScopeSetupContext::injector_ is set
    init_list,
    cleanup_list,       \* the array Init() allocates
    cleanup_list_size,
    cursor,             \* index of the loop that deletes
    object,             \* object_: the number of the instance, 0 for NULL
    pc,                 \* next step of a frame, "idle" when there is none
    todo,               \* constructor arguments still to resolve
    callee,             \* the nested Get() a frame waits for
    slot,               \* cleanup_list_size_ as read by the append
    gets,               \* requests a thread may still make
    overlapped,         \* history: two threads were in Get() at once
    made,               \* number of instances constructed so far
    alive,              \* instances constructed and not deleted
    seen                \* what completed calls of Get() have returned

config_vars == <<phase, injector, init_list, cursor>>
list_vars == <<cleanup_list, cleanup_list_size>>
user_vars == <<gets, overlapped>>
call_vars == <<pc, todo, callee, slot, user_vars>>
instance_vars == <<object, made, alive, seen>>
vars == <<port_vars, config_vars, list_vars, call_vars, instance_vars>>

Frames == Threads \X Providers
PCs == {"idle", "once", "resolve", "lock", "set_locked", "read_size", "append",
        "unlock", "set_called", "return"}
Phases == {"binding", "live", "cleanup", "deleting", "gone",
           "aborted",   \* a GUICPP_CHECK_ failed
           "corrupt"}   \* a write past the end of the array: anything goes

\* Type invariant: the loop of Cleanup() never runs below the first index, and
\* a frame of Get() is always at a step of Get() or Create().
TypeOK ==
    /\ PortTypeOK
    /\ phase \in Phases
    /\ injector \in BOOLEAN
    /\ init_list \in Seq(Providers)
    /\ cleanup_list \in Seq(Providers \cup {NoProvider})
    /\ cleanup_list_size \in Nat
    /\ cursor \in Nat
    /\ object \in [Providers -> Nat]
    /\ pc \in [Frames -> PCs]
    /\ todo \in [Frames -> SUBSET Providers]
    /\ callee \in [Frames -> Providers \cup {NoProvider}]
    /\ slot \in [Frames -> Nat]
    /\ gets \in [Threads -> 0..MaxGets] /\ overlapped \in BOOLEAN
    /\ made \in [Providers -> Nat]
    /\ alive \in [Providers -> SUBSET Nat]
    /\ seen \in [Providers -> SUBSET Nat]

Init ==
    /\ PortInit
    /\ phase = "binding" /\ injector = FALSE /\ cursor = 0
    /\ init_list = <<>> /\ cleanup_list = <<>> /\ cleanup_list_size = 0
    /\ pc = [f \in Frames |-> "idle"]
    /\ todo = [f \in Frames |-> {}]
    /\ callee = [f \in Frames |-> NoProvider]
    /\ slot = [f \in Frames |-> 0]
    /\ gets = [t \in Threads |-> MaxGets] /\ overlapped = FALSE
    /\ object = [p \in Providers |-> 0]
    /\ made = [p \in Providers |-> 0]
    /\ alive = [p \in Providers |-> {}]
    /\ seen = [p \in Providers |-> {}]

Registered == {init_list[i] : i \in 1..Len(init_list)}

-----------------------------------------------------------------------------
(* Configuration, in one thread, before the injector is handed out.         *)

\* BindToScope<T, LazySingleton>(): the provider's constructor enters it in
\* the context's list.
AddToInitList(p) ==
    /\ phase = "binding"
    /\ p \notin Registered
    /\ init_list' = Append(init_list, p)
    /\ UNCHANGED <<port_vars, phase, injector, cursor, list_vars, call_vars,
                   instance_vars>>

\* Mutant of ContextInit: the array is one entry short.
ContextInit_TooShort ==
    /\ phase = "binding"
    /\ Registered = Providers
    /\ phase' = "live"
    /\ injector' = TRUE
    /\ cleanup_list' = [i \in 1..(Len(init_list) - 1) |-> NoProvider]
    /\ UNCHANGED <<port_vars, init_list, cursor, cleanup_list_size, call_vars,
                   instance_vars>>

\* ScopeSetupContext::Init(): the injector becomes known to the context and to
\* every provider, and the array gets room for one entry per provider.
ContextInit ==
    /\ phase = "binding"
    /\ Registered = Providers
    /\ phase' = "live"
    /\ injector' = TRUE
    /\ cleanup_list' = [i \in 1..Len(init_list) |-> NoProvider]
    /\ UNCHANGED <<port_vars, init_list, cursor, cleanup_list_size, call_vars,
                   instance_vars>>

-----------------------------------------------------------------------------
(* Get() and Create(), one action per step another thread can come between. *)

Idle(t) == \A p \in Providers : pc[<<t, p>>] = "idle"

\* The frame is about to take `step`: it exists, and no nested Get() of
\* its own is under way.
At(t, p, step) ==
    /\ phase = "live"
    /\ pc[<<t, p>>] = step
    /\ callee[<<t, p>>] = NoProvider

Goto(t, p, step) == pc' = [pc EXCEPT ![<<t, p>>] = step]

\* The thread's own code calls injector->Get<T*>().
Request(t, p) ==
    /\ phase = "live"
    /\ Idle(t)
    /\ gets[t] > 0
    /\ gets' = [gets EXCEPT ![t] = @ - 1]
    /\ overlapped' = (overlapped \/ \E u \in Threads \ {t} : ~Idle(u))
    /\ Goto(t, p, "once")
    /\ UNCHANGED <<port_vars, config_vars, list_vars, todo, callee, slot,
                   instance_vars>>

\* once_.Init(&Create, this) when Create() has been through.
SkipCreate(t, p) ==
    /\ At(t, p, "once")
    /\ OnceSkips(p)
    /\ Goto(t, p, "return")
    /\ UNCHANGED <<port_vars, config_vars, list_vars, todo, callee, slot,
                   user_vars, instance_vars>>

\* Mutant of EnterCreate: called_ is set before Create() is called.
EnterCreate_CalledFirst(t, p) ==
    /\ At(t, p, "once")
    /\ injector
    /\ OnceRuns(t, p)
    /\ called' = [called EXCEPT ![p] = TRUE]
    /\ Goto(t, p, "resolve")
    /\ todo' = [todo EXCEPT ![<<t, p>>] = Deps[p]]
    /\ UNCHANGED <<locked, config_vars, list_vars, callee, slot, user_vars,
                   instance_vars>>

\* once_.Init(&Create, this) when it has not: Create() starts, and its
\* InvokeInitNow() finds the injector.
EnterCreate(t, p) ==
    /\ At(t, p, "once")
    /\ injector
    /\ OnceRuns(t, p)
    /\ Goto(t, p, "resolve")
    /\ todo' = [todo EXCEPT ![<<t, p>>] = Deps[p]]
    /\ UNCHANGED <<locked, called, config_vars, list_vars, callee, slot,
                   user_vars, instance_vars>>

\* One constructor argument is requested. C++ leaves open in which order the
\* arguments of `new T(...)` are evaluated.
ResolveDep(t, p, d) ==
    /\ At(t, p, "resolve")
    /\ d \in todo[<<t, p>>]
    /\ pc[<<t, d>>] = "idle"
    /\ todo' = [todo EXCEPT ![<<t, p>>] = @ \ {d}]
    /\ callee' = [callee EXCEPT ![<<t, p>>] = d]
    /\ Goto(t, d, "once")
    /\ UNCHANGED <<port_vars, config_vars, list_vars, slot, user_vars,
                   instance_vars>>

\* Mutant of Construct: the arguments are not waited for.
Construct_Early(t, p) ==
    /\ At(t, p, "resolve")
    /\ made' = [made EXCEPT ![p] = @ + 1]
    /\ alive' = [alive EXCEPT ![p] = @ \cup {made[p] + 1}]
    /\ object' = [object EXCEPT ![p] = made[p] + 1]
    /\ Goto(t, p, "lock")
    /\ UNCHANGED <<port_vars, config_vars, list_vars, todo, callee, slot,
                   user_vars, seen>>

\* provider->object_ = injector_->Get<At<UnScoped, T*> >()
Construct(t, p) ==
    /\ At(t, p, "resolve")
    /\ todo[<<t, p>>] = {}
    /\ made' = [made EXCEPT ![p] = @ + 1]
    /\ alive' = [alive EXCEPT ![p] = @ \cup {made[p] + 1}]
    /\ object' = [object EXCEPT ![p] = made[p] + 1]
    /\ Goto(t, p, "lock")
    /\ UNCHANGED <<port_vars, config_vars, list_vars, todo, callee, slot,
                   user_vars, seen>>

\* AddToCleanupList(): a registered provider locks the mutex.
LockList(t, p) ==
    /\ At(t, p, "lock")
    /\ p \in Registered
    /\ \/ LockTaken /\ Goto(t, p, "read_size")
       \/ LockTested /\ Goto(t, p, "set_locked")
    /\ UNCHANGED <<called, runner, config_vars, list_vars, todo, callee, slot,
                   user_vars, instance_vars>>

SetLocked(t, p) ==
    /\ At(t, p, "set_locked")
    /\ LockSet
    /\ Goto(t, p, "read_size")
    /\ UNCHANGED <<called, runner, config_vars, list_vars, todo, callee, slot,
                   user_vars, instance_vars>>

\* cleanup_list_[cleanup_list_size_++] = cleanup, a read and the writes.
ReadSize(t, p) ==
    /\ At(t, p, "read_size")
    /\ slot' = [slot EXCEPT ![<<t, p>>] = cleanup_list_size]
    /\ Goto(t, p, "append")
    /\ UNCHANGED <<port_vars, config_vars, list_vars, todo, callee, user_vars,
                   instance_vars>>

\* Mutant of AppendSelf: the size is not incremented.
AppendSelf_KeepsSize(t, p) ==
    /\ At(t, p, "append")
    /\ slot[<<t, p>>] < Len(cleanup_list)
    /\ cleanup_list' = [cleanup_list EXCEPT ![slot[<<t, p>>] + 1] = p]
    /\ Goto(t, p, "unlock")
    /\ UNCHANGED <<port_vars, config_vars, cleanup_list_size, todo, callee,
                   slot, user_vars, instance_vars>>

AppendSelf(t, p) ==
    /\ At(t, p, "append")
    /\ slot[<<t, p>>] < Len(cleanup_list)
    /\ cleanup_list' = [cleanup_list EXCEPT ![slot[<<t, p>>] + 1] = p]
    /\ cleanup_list_size' = slot[<<t, p>>] + 1
    /\ Goto(t, p, "unlock")
    /\ UNCHANGED <<port_vars, config_vars, todo, callee, slot, user_vars,
                   instance_vars>>

UnlockList(t, p) ==
    /\ At(t, p, "unlock")
    /\ Unlock
    /\ Goto(t, p, "set_called")
    /\ UNCHANGED <<called, runner, config_vars, list_vars, todo, callee, slot,
                   user_vars, instance_vars>>

\* Create() has returned to GoogleOnceDynamic::Init().
SetCalled(t, p) ==
    /\ At(t, p, "set_called")
    /\ OnceDone(p)
    /\ Goto(t, p, "return")
    /\ UNCHANGED <<locked, config_vars, list_vars, todo, callee, slot,
                   user_vars, instance_vars>>

\* return object_, to the frame that asked for this argument or to the user.
Return(t, p) ==
    /\ At(t, p, "return")
    /\ seen' = [seen EXCEPT ![p] = @ \cup {object[p]}]
    /\ Goto(t, p, "idle")
    /\ callee' = [f \in Frames |-> IF f[1] = t /\ callee[f] = p THEN NoProvider
                                   ELSE callee[f]]
    /\ slot' = [slot EXCEPT ![<<t, p>>] = 0]
    /\ UNCHANGED <<port_vars, config_vars, list_vars, todo, user_vars, object,
                   made, alive>>

-----------------------------------------------------------------------------
(* Deletion of the injector: a cleanup entry runs the context's Cleanup(),  *)
(* then the table deletes the providers, last bound first, and the context. *)
(* The owner deletes the injector when no call is in progress.              *)

BeginCleanup ==
    /\ phase = "live"
    /\ \A t \in Threads : Idle(t)
    /\ ~locked /\ locked' = TRUE
    /\ phase' = "cleanup"
    /\ cursor' = cleanup_list_size
    /\ UNCHANGED <<called, runner, injector, init_list, list_vars, call_vars,
                   instance_vars>>

\* Mutant of CleanupProvider: oldest first.
CleanupProvider_Forward ==
    /\ phase = "cleanup"
    /\ cursor > 0
    /\ LET p == cleanup_list[cleanup_list_size - cursor + 1] IN
         /\ alive' = [alive EXCEPT ![p] = @ \ {object[p]}]
         /\ object' = [object EXCEPT ![p] = 0]
    /\ cursor' = cursor - 1
    /\ UNCHANGED <<port_vars, phase, injector, init_list, list_vars,
                   call_vars, made, seen>>

\* Mutant of CleanupProvider: the index is decremented twice.
CleanupProvider_Skips ==
    /\ phase = "cleanup"
    /\ cursor > 0
    /\ LET p == cleanup_list[cursor] IN
         /\ alive' = [alive EXCEPT ![p] = @ \ {object[p]}]
         /\ object' = [object EXCEPT ![p] = 0]
    /\ cursor' = cursor - 2
    /\ UNCHANGED <<port_vars, phase, injector, init_list, list_vars,
                   call_vars, made, seen>>

\* Mutant of CleanupProvider: the index is not decremented.
CleanupProvider_StaysPut ==
    /\ phase = "cleanup"
    /\ cursor > 0
    /\ LET p == cleanup_list[cursor] IN
         /\ alive' = [alive EXCEPT ![p] = @ \ {object[p]}]
         /\ object' = [object EXCEPT ![p] = 0]
    /\ UNCHANGED <<port_vars, config_vars, list_vars, call_vars, made, seen>>

\* cleanup_list_[i]->Cleanup(): delete object_; object_ = NULL
CleanupProvider ==
    /\ phase = "cleanup"
    /\ cursor > 0
    /\ LET p == cleanup_list[cursor] IN
         /\ alive' = [alive EXCEPT ![p] = @ \ {object[p]}]
         /\ object' = [object EXCEPT ![p] = 0]
    /\ cursor' = cursor - 1
    /\ UNCHANGED <<port_vars, phase, injector, init_list, list_vars,
                   call_vars, made, seen>>

EndCleanup ==
    /\ phase = "cleanup"
    /\ cursor = 0
    /\ Unlock
    /\ phase' = "deleting"
    /\ cursor' = Len(init_list)
    /\ UNCHANGED <<called, runner, injector, init_list, list_vars, call_vars,
                   instance_vars>>

\* ~LazySingletonProvider finds no instance left behind.
DeleteProvider ==
    /\ phase = "deleting"
    /\ cursor > 0
    /\ object[init_list[cursor]] = 0
    /\ cursor' = cursor - 1
    /\ UNCHANGED <<port_vars, phase, injector, init_list, list_vars,
                   call_vars, instance_vars>>

DeleteContext ==
    /\ phase = "deleting"
    /\ cursor = 0
    /\ phase' = "gone"
    /\ UNCHANGED <<port_vars, injector, init_list, cursor, list_vars,
                   call_vars, instance_vars>>

-----------------------------------------------------------------------------
(* The checks that are on the way, and what happens when one fails.         *)

CheckFails ==
    \/ \E t \in Threads, p \in Providers :
         \/ At(t, p, "once") /\ ~OnceSkips(p) /\ ~injector
         \/ At(t, p, "lock") /\ (p \notin Registered \/ LockAborts)
         \/ At(t, p, "unlock") /\ UnlockAborts
    \/ phase = "cleanup" /\ cursor = 0 /\ UnlockAborts
    \/ phase = "deleting" /\ cursor > 0 /\ object[init_list[cursor]] # 0

Abort ==
    /\ CheckFails
    /\ phase' = "aborted"
    /\ UNCHANGED <<port_vars, injector, init_list, cursor, list_vars,
                   call_vars, instance_vars>>

\* AppendSelf when the array is full.
Overflow ==
    /\ \E t \in Threads, p \in Providers :
         At(t, p, "append") /\ slot[<<t, p>>] >= Len(cleanup_list)
    /\ phase' = "corrupt"
    /\ UNCHANGED <<port_vars, injector, init_list, cursor, list_vars,
                   call_vars, instance_vars>>

-----------------------------------------------------------------------------

GetStep(t, p) ==
    \/ SkipCreate(t, p)
    \/ EnterCreate(t, p)
    \/ \E d \in Providers : ResolveDep(t, p, d)
    \/ Construct(t, p)
    \/ LockList(t, p)
    \/ SetLocked(t, p)
    \/ ReadSize(t, p)
    \/ AppendSelf(t, p)
    \/ UnlockList(t, p)
    \/ SetCalled(t, p)
    \/ Return(t, p)

TeardownStep ==
    \/ CleanupProvider
    \/ EndCleanup
    \/ DeleteProvider
    \/ DeleteContext

Next ==
    \/ \E p \in Providers : AddToInitList(p)
    \/ ContextInit
    \/ \E t \in Threads, p \in Providers : Request(t, p) \/ GetStep(t, p)
    \/ BeginCleanup
    \/ TeardownStep
    \/ Abort
    \/ Overflow

Spec == Init /\ [][Next]_vars

\* A thread inside Get() keeps running, and so does the thread that deletes
\* the injector; nobody is obliged to call Get() or to delete the injector.
Fairness ==
    /\ \A t \in Threads : WF_vars(\E p \in Providers : GetStep(t, p))
    /\ WF_vars(TeardownStep)

FairSpec == Spec /\ Fairness

-----------------------------------------------------------------------------
(* Properties *)

\* "those objects are instantiated exactly once by Guic++" (guicpp_binder.h):
\* no interleaving of first requests constructs a second instance.
InstantiatedOnce == \A p \in Providers : made[p] <= 1

\* "successive calls Get() will return the same instance" (guicpp_singleton.h):
\* every call of Get(), by any thread, returned the instance that is still the
\* provider's, for as long as the injector is in use.
SameInstance ==
    phase = "live" => \A p \in Providers : seen[p] \subseteq {object[p]} \ {0}

\* Get() never hands out NULL, however two first requests interleave.
NeverNull == \A p \in Providers : 0 \notin seen[p]

\* What an instance was built from outlives it: as long as any instance of p
\* is there, every instance that a Get() of one of p's arguments has returned
\* is there too, also in the middle of Cleanup().
DependenciesOutlive ==
    \A p \in Providers : alive[p] # {} =>
      \A d \in Deps[p] : seen[d] # {} /\ seen[d] \subseteq alive[d]

\* Cleanup() leaves no instance behind, and none is created later.
AllDestroyed ==
    phase \in {"deleting", "gone"} => \A p \in Providers : alive[p] = {}

\* No GUICPP_CHECK_ on the way fails, and the array is never too short.
NeverCrashes == phase \notin {"aborted", "corrupt"}

\* Calls that never overlap, from whatever threads they come, all get the one
\* instance and pass every check on the way, those of the shipped Mutex and
\* GoogleOnceDynamic included, and so does the deletion of the injector.
SequentialKeepsPromises == overlapped \/ (SameInstance /\ NeverCrashes)

\* What keeps a frame from its next step: a nested Get() of its own, an argument
\* that its thread is already inside of, another thread's Create() of the same
\* instance, or another thread at the list.
Waits(t, p) ==
    \/ callee[<<t, p>>] # NoProvider
    \/ /\ pc[<<t, p>>] = "resolve"
       /\ todo[<<t, p>>] # {} /\ \A d \in todo[<<t, p>>] : pc[<<t, d>>] # "idle"
    \/ pc[<<t, p>>] = "once" /\ PortedOnce /\ ~called[p] /\ runner[p] # NoThread
    \/ pc[<<t, p>>] = "lock" /\ PortedMutex /\ locked

\* Threads that create instances built from one another, in whatever order, do
\* not wait for one another in a circle: with any thread inside Get(), some
\* thread can go on (GoogleOnceDynamic::Init() and AddToCleanupList()).
SomebodyGoesOn ==
    phase = "live" =>
      \/ \A t \in Threads : Idle(t)
      \/ \E t \in Threads, p \in Providers : pc[<<t, p>>] # "idle" /\ ~Waits(t, p)

\* A thread that enters Get() comes back, whoever else is creating what.
GetReturns ==
    \A t \in Threads, p \in Providers : pc[<<t, p>>] # "idle" ~> pc[<<t, p>>] = "idle"

\* Deleting the injector comes to an end.
TeardownEnds == phase = "cleanup" ~> phase = "gone"

\* The scope as its user sees it.
Scope == INSTANCE SingletonScope WITH
    stage <- [p \in Providers |-> IF made[p] = 0 THEN "unborn"
                                  ELSE IF alive[p] # {} THEN "alive" ELSE "dead"]

ImplementsScope == Scope!Spec

\* Up to the first overlap the instances live as the scope promises.
SequentialScope ==
    /\ Scope!Init
    /\ [][overlapped' \/ Scope!Next]_<<made, alive>>

\* The context as an owner of instances, in the order of the cleanup list.
Owner == INSTANCE OwnerStack WITH
    Objects <- Providers,
    owned <- SubSeq(cleanup_list, 1,
                    IF phase = "cleanup" THEN cursor
                    ELSE IF phase \in {"deleting", "gone"} THEN 0
                    ELSE cleanup_list_size),
    released <- {p \in Providers : made[p] # 0 /\ alive[p] = {}}

ImplementsOwner == Owner!Spec
=============================================================================
