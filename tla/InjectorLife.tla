---------------------------- MODULE InjectorLife ----------------------------
(***************************************************************************)
(* The life of an injector, from the first binding to the last delete:     *)
(* Binder's calls fill the bind table, Injector::Create() accepts or       *)
(* refuses it, instances are handed out, and deleting the injector deletes *)
(* the table, entry by entry, each with what its destructor does.          *)
(*                                                                         *)
(* This is where the bind table (BindTable.tla) and the singleton scope    *)
(* meet: guicpp::CreateInjector() wraps the user's module so that the      *)
(* scope context is the first entry of the table and the entry that calls  *)
(* its Cleanup() the last, and relies on the table's order of deletion for *)
(* everything else. Calls are made from one thread here; LazySingleton.tla *)
(* has the threads.                                                        *)
(***************************************************************************)
EXTENDS BindTable, FiniteSets

CONSTANTS
    Types,      \* the types a module may bind
    Defaults,   \* those with an inject macro, constructed where they are unbound
    Context,    \* the type id of ScopeSetupContext
    NoType,     \* of an entry that is not in the map
    Needs,      \* Needs[k]: the types k's constructor is given
    MaxCalls,   \* bound: binder calls of the user's module
    Callbacks   \* the types that cleanup actions and destructors ask for

\* No constructor needs its own type, directly or through others.
NeedsAcyclic ==
    \E rank \in [Types -> 1..Cardinality(Types)] :
      \A k \in Types : \A d \in Needs[k] : rank[d] < rank[k]

\* An entry is what a binder call allocates; `n` tells allocations apart.
\*   context  ScopeSetupContext bound with DeletePointer (WrapperModule)
\*   instance BindToInstance, BindRefToPointed, BindToProvider: its destructor
\*            applies a cleanup action to what was bound
\*   scope    BindToScope<T, LazySingleton>: owns a LazySingletonProvider
\*   action   AddCleanupAction of the user
\*   invoke   AddCleanupAction(InvokeCleanup(context)) (WrapperModule)
Kinds == {"context", "instance", "scope", "action", "invoke"}
AllEntries == [kind : Kinds, key : TypeIds \cup {NoType}, n : 1..(MaxCalls + 2)]

ASSUME LifeAssumption ==
    /\ TypeIds = Types \cup {Context} /\ Context \notin Types
    /\ NoType \notin TypeIds
    /\ IsFiniteSet(Types) /\ NeedsAcyclic /\ MaxCalls \in Nat
    /\ Entries = AllEntries
    /\ Defaults \subseteq Types /\ Callbacks \subseteq Types

VARIABLES
    stage,       \* "configuring", "live" (handed out), or how the process ended
    wrapped,     \* made by guicpp::CreateInjector(), not by Injector::Create()
    num_errors,  \* Binder::num_errors_
    init_list,   \* the context's providers, by their entries
    created,     \* types whose instance exists, in the context's cleanup order
    destroyed,   \* types whose instance the context has deleted
    late         \* history: types first instantiated while the table is deleted

singleton_vars == <<created, destroyed, late>>
life_vars == <<table_vars, stage, wrapped, num_errors, init_list, singleton_vars>>

\* What the injector adds to the table's types: the binder never counts more
\* errors than calls were made.
LifeTypeOK ==
    /\ stage \in {"configuring", "live", "aborted", "corrupt", "deadlocked"}
    /\ wrapped \in BOOLEAN
    /\ num_errors \in 0..MaxCalls
    /\ init_list \in Seq(Entries)
    /\ created \in Seq(Types)
    /\ destroyed \subseteq Types
    /\ late \subseteq Types

\* Type invariant, of the table and what surrounds it.
TypeOK == TableTypeOK /\ LifeTypeOK

-----------------------------------------------------------------------------

Entry(kind, key) == [kind |-> kind, key |-> key, n |-> Len(cleanup_list) + 1]
ContextEntry == [kind |-> "context", key |-> Context, n |-> 1]

Created == {created[i] : i \in 1..Len(created)}

\* Entries of the map that still exist, and the one ~BindTable is deleting.
Bound(k, kind) == FindEntry(k) # NULL /\ FindEntry(k).kind = kind
Current == cleanup_list[riter]
Deleting(kind) == phase = "deleting" /\ riter > 0 /\ Current.kind = kind

Stop(how) ==
    /\ stage' = how
    /\ UNCHANGED <<table_vars, wrapped, num_errors, init_list, singleton_vars>>

\* Injector::Create(), on its own or with a WrapperModule: an empty table.
LifeInit ==
    /\ TableInit
    /\ stage = "configuring"
    /\ wrapped \in BOOLEAN
    /\ num_errors = 0
    /\ init_list = <<>> /\ created = <<>> /\ destroyed = {} /\ late = {}

(* ---- Module::Configure(), any sequence of binder calls ---- *)

\* Mutant of AddBindEntry: what AddEntry() returns is not looked at.
AddBindEntry_NoCount(key, entry) ==
    /\ AddEntry(key, entry)
    /\ UNCHANGED num_errors

\* Mutant of AddBindEntry: every binding counts as an error.
AddBindEntry_CountsAll(key, entry) ==
    /\ AddEntry(key, entry)
    /\ num_errors' = num_errors + 1

\* AddBindEntry(): a refused entry is owned all the same, and counted.
AddBindEntry(key, entry) ==
    /\ AddEntry(key, entry)
    /\ num_errors' = IF Inserted(key) THEN num_errors ELSE num_errors + 1

\* WrapperModule binds a new ScopeSetupContext before it installs the user's
\* module.
BindContext ==
    /\ stage = "configuring"
    /\ wrapped /\ cleanup_list = <<>>
    /\ AddBindEntry(Context, ContextEntry)
    /\ UNCHANGED <<stage, wrapped, init_list, singleton_vars>>

\* The user's module is at work.
Configuring ==
    /\ stage = "configuring"
    /\ wrapped => cleanup_list # <<>>
    /\ Len(cleanup_list) <= MaxCalls

BindToInstance(k) ==
    /\ Configuring
    /\ AddBindEntry(k, Entry("instance", k))
    /\ UNCHANGED <<stage, wrapped, init_list, singleton_vars>>

\* Mutant of BindToScope: the provider does not register.
BindToScope_Unregistered(k) ==
    /\ Configuring
    /\ Bound(Context, "context")
    /\ AddBindEntry(k, Entry("scope", k))
    /\ UNCHANGED <<stage, wrapped, init_list, singleton_vars>>

\* LazySingleton::ConfigureScope(): the provider is allocated, and registered
\* with the bound context, before the entry is offered to the table.
BindToScope(k) ==
    /\ Configuring
    /\ Bound(Context, "context")
    /\ init_list' = Append(init_list, Entry("scope", k))
    /\ AddBindEntry(k, Entry("scope", k))
    /\ UNCHANGED <<stage, wrapped, singleton_vars>>

\* GetBoundInstance<ScopeSetupContext>() is NULL: "you must use
\* guicpp::CreateInjector()".
BindToScopeWithoutContext ==
    /\ Configuring
    /\ FindEntry(Context) = NULL
    /\ Stop("aborted")

AddCleanupAction ==
    /\ Configuring
    /\ AddCleanupOnly(Entry("action", NoType))
    /\ UNCHANGED <<stage, wrapped, num_errors, init_list, singleton_vars>>

\* Mutant of FinishCreate: nothing will call Cleanup().
FinishCreate_NoInvoke ==
    /\ stage = "configuring"
    /\ wrapped => cleanup_list # <<>>
    /\ num_errors = 0
    /\ stage' = "live"
    /\ UNCHANGED <<table_vars, wrapped, num_errors, init_list, singleton_vars>>

\* Configure() returns. WrapperModule adds the entry that will call Cleanup();
\* the injector is handed out only when no binding was refused.
FinishCreate ==
    /\ stage = "configuring"
    /\ wrapped => cleanup_list # <<>>
    /\ num_errors = 0
    /\ IF wrapped THEN AddCleanupOnly(Entry("invoke", NoType))
                  ELSE UNCHANGED table_vars
    /\ stage' = "live"
    /\ UNCHANGED <<wrapped, num_errors, init_list, singleton_vars>>

RefuseCreate ==
    /\ stage = "configuring"
    /\ num_errors # 0
    /\ Stop("aborted")

(* ---- Injector::Get() of types bound to the scope ---- *)

\* NormalInjectHandler::Get() finds no entry and takes the default one: every
\* request constructs an object of its own, the requester's to delete.
Fresh(k) == k \in Defaults /\ FindEntry(k) = NULL

\* What requests for the types in `asked` ask for in all: what an object made
\* afresh is given is asked for too.
AskedFor(asked) ==
    {d \in Types : \A all \in SUBSET Types :
       asked \subseteq all /\ (\A f \in all : Fresh(f) => Needs[f] \subseteq all)
         => d \in all}

NotYetCreated(k) == Bound(k, "scope") /\ k \notin Created \cup destroyed

\* What a constructor asks for is there already, is bound to an instance, or is
\* made for it. A type that has no instance yet is created by a nested Get()
\* first: that is an earlier step of this model. One whose instance is gone
\* yields NULL.
Available(d) == d \in Created \cup destroyed \/ Bound(d, "instance") \/ Fresh(d)

CreateInstance(k) ==
    /\ NotYetCreated(k)
    /\ \A d \in AskedFor(Needs[k]) : Available(d)
    /\ created' = Append(created, k)
    /\ late' = IF phase = "open" THEN late ELSE late \cup {k}
    /\ UNCHANGED <<table_vars, stage, wrapped, num_errors, init_list, destroyed>>

Get(k) ==
    /\ stage = "live" /\ phase = "open"
    /\ CreateInstance(k)

\* The types that a Get() of k looks up: its own, and those of the arguments
\* when the instance has to be constructed.
LookedUp(k) == AskedFor({k} \cup (IF NotYetCreated(k) THEN Needs[k] ELSE {}))

\* One of them has neither a binding nor a default.
Missing(k) == \E d \in LookedUp(k) : FindEntry(d) = NULL /\ ~Fresh(d)

\* "This type can not be instantiated, missing binding"
GetUnbound(k) ==
    /\ stage = "live" /\ phase = "open"
    /\ Missing(k)
    /\ Stop("aborted")

(* ---- delete injector ---- *)

DeleteInjector ==
    /\ stage = "live"
    /\ BeginDelete
    /\ UNCHANGED <<stage, wrapped, num_errors, init_list, singleton_vars>>

\* Mutant of CleanupYoungest: the oldest instance first.
CleanupYoungest_Oldest ==
    /\ stage = "live"
    /\ Deleting("invoke")
    /\ created # <<>>
    /\ created' = Tail(created)
    /\ destroyed' = destroyed \cup {Head(created)}
    /\ UNCHANGED <<table_vars, stage, wrapped, num_errors, init_list, late>>

\* ~CleanupEntry<InvokeCleanup>: Cleanup() deletes the youngest instance left.
CleanupYoungest ==
    /\ stage = "live"
    /\ Deleting("invoke")
    /\ created # <<>>
    /\ created' = SubSeq(created, 1, Len(created) - 1)
    /\ destroyed' = destroyed \cup {created[Len(created)]}
    /\ UNCHANGED <<table_vars, stage, wrapped, num_errors, init_list, late>>

\* The destructor of the entry is through with what it does beyond that: the
\* cleanup loop has ended, the provider is empty. Cleanup actions of the user
\* come before, see CallbackGet.
DestroyEntry ==
    /\ stage = "live"
    /\ Deleting("invoke") => created = <<>>
    /\ Deleting("scope") => Current.key \notin Created
    /\ DeleteEntry
    /\ UNCHANGED <<stage, wrapped, num_errors, init_list, singleton_vars>>

\* ~LazySingletonProvider: GUICPP_DCHECK_(object_ == NULL)
ProviderNotEmpty ==
    /\ stage = "live"
    /\ Deleting("scope")
    /\ Current.key \in Created
    /\ Stop("aborted")

EndInjector ==
    /\ stage = "live"
    /\ EndDelete
    /\ UNCHANGED <<stage, wrapped, num_errors, init_list, singleton_vars>>

(* ---- Get() called back from user code during the deletion ---- *)

InCallback ==
    /\ stage = "live"
    /\ Deleting("action") \/ Deleting("instance")

\* The injector is still there and its map still finds entries. A first request
\* creates the instance as ever.
CallbackGet(k) ==
    /\ InCallback
    /\ \A d \in LookedUp(k) : FindEntry(d) \notin freed
    /\ CreateInstance(k)

\* A destructor that Cleanup() runs.
InDestructor ==
    /\ stage = "live"
    /\ Deleting("invoke")
    /\ created # <<>>

CallbackUnbound(k) ==
    /\ InCallback \/ InDestructor
    /\ Missing(k)
    /\ Stop("aborted")

\* One of the entries found has been deleted.
CallbackReadsDeleted(k) ==
    /\ InCallback
    /\ \E d \in LookedUp(k) : FindEntry(d) \in freed
    /\ Stop("corrupt")

\* Cleanup() holds the context's mutex, and the destructor asks for an instance
\* that does not exist: AddToCleanupList() finds the mutex locked by its own
\* thread. The placeholder's check aborts, a mutex that waits waits for ever.
DestructorGet(k) ==
    /\ InDestructor
    /\ \E d \in LookedUp(k) : NotYetCreated(d)
    /\ Stop("aborted") \/ Stop("deadlocked")

CallbackStep ==
    \E k \in Callbacks :
      \/ CallbackGet(k)
      \/ CallbackUnbound(k)
      \/ CallbackReadsDeleted(k)
      \/ DestructorGet(k)

-----------------------------------------------------------------------------

DeletionStep ==
    \/ CleanupYoungest
    \/ DestroyEntry
    \/ ProviderNotEmpty
    \/ EndInjector

LifeNext ==
    \/ BindContext
    \/ \E k \in Types : BindToInstance(k) \/ BindToScope(k)
    \/ BindToScopeWithoutContext
    \/ AddCleanupAction
    \/ FinishCreate
    \/ RefuseCreate
    \/ \E k \in Types : Get(k) \/ GetUnbound(k)
    \/ DeleteInjector
    \/ DeletionStep
    \/ CallbackStep

LifeSpec == LifeInit /\ [][LifeNext]_life_vars

\* A delete that has begun runs on; bindings, requests and the deletion itself
\* are up to the user.
LifeFairSpec == LifeSpec /\ WF_life_vars(DeletionStep)

-----------------------------------------------------------------------------
(* Properties *)

Live == stage = "live" /\ phase = "open"

\* An injector is handed out only when every binding its module asked for is
\* the one that requests will find, in whatever order modules were installed
\* and wherever a type was bound twice (Injector::Create).
HandedOutMeansAllBound ==
    Live => \A i \in 1..Len(cleanup_list) :
              LET e == cleanup_list[i] IN
              e.key # NoType => FindEntry(e.key) = e

\* Everything that holds a pointer to the context, the providers and the entry
\* that calls Cleanup(), is bound only where there is a context, and gone before
\* it is (BindToScope() of an injector that Injector::Create() makes; tools.cc:
\* "The order in which these bindings are done is important").
ContextOutlivesUsers ==
    \A e \in Owned \ freed :
      e.kind \in {"scope", "invoke"} => ContextEntry \in Owned \ freed

\* Whatever an instance was built from, a singleton or an object the user bound
\* and handed over, outlives it (BindToScope, BindToInstance with a cleanup
\* action), and so does what went into the objects that were made for it. Only
\* an instance that a callback makes while the table is being deleted can be
\* built from what is gone already.
NeedsOutlive ==
    \A k \in Created \ late : \A d \in AskedFor(Needs[k]) :
      d \in Created \/ Fresh(d) \/ (Bound(d, "instance") /\ FindEntry(d) \notin freed)

\* "Cleanup must be called before deleting LazySingletonProvider."
\* (guicpp_singleton.h): a provider about to be deleted has no instance left.
ProvidersDieEmpty ==
    Deleting("scope") => Current.key \notin Created

\* Cleanup() has emptied every provider before the table deletes the first one
\* (ScopeSetupContext::Cleanup, WrapperModule): the only instances that a
\* provider can still have then are those that callbacks asked for afterwards.
OnlyLateInstancesRemain ==
    Deleting("scope") => Created \subseteq late

\* A provider bound to the scope is known to the context from the moment
\* requests can reach it, so that the context's array, sized by the list of
\* providers and never emptied, has room for every instance, late ones too.
RoomForEveryInstance ==
    /\ Len(created) + Cardinality(destroyed) <= Len(init_list)
    /\ \A k \in Types : Bound(k, "scope") =>
         \E i \in 1..Len(init_list) : init_list[i] = FindEntry(k)

\* Once begun, the deletion of an injector ends with every instance and every
\* entry deleted, whatever user code asks for in between. Not so where a check
\* of the code stops the process, where a callback's request reads an entry
\* that is gone, and where a destructor under Cleanup() waits for its own mutex.
DeletionEnds ==
    (stage = "live" /\ phase = "deleting")
      ~> \/ phase = "gone" /\ created = <<>> /\ freed = Owned
         \/ stage \in {"aborted", "corrupt", "deadlocked"}
=============================================================================
