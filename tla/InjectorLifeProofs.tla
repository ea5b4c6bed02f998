------------------------- MODULE InjectorLifeProofs -------------------------
(***************************************************************************)
(* Theorems about InjectorLife, for any types, dependencies among them and *)
(* number of binder calls. Every step of the injector's life is one of     *)
(* four shapes as far as the table is concerned (StepShapes): it binds an  *)
(* entry, adds one that is never looked up, goes on with the deletion, or  *)
(* leaves the table alone. So the injector's table is a BindTable, with    *)
(* all that BindTableProofs has to say of one.                             *)
(***************************************************************************)
EXTENDS InjectorLife, BindTableProofs, FiniteSetTheorems

\* Entries are numbered in the order of the list, the first is the context's,
\* and the wrapper's last one is followed by no other.
Numbered ==
    /\ \A i \in 1..Len(cleanup_list) : cleanup_list[i].n = i
    /\ stage = "configuring" =>
         phase = "open" /\ Len(cleanup_list) <= MaxCalls + 1

\* Errors are refused bindings, and the first binding is not refused.
ErrorsCounted ==
    /\ num_errors <= Len(cleanup_list)
    /\ cleanup_list # <<>> => num_errors < Len(cleanup_list)
    /\ stage = "configuring" => num_errors <= MaxCalls
    /\ stage = "live" => num_errors = 0

\* As long as nothing was refused, all that was bound is what lookups find.
AllBound ==
    num_errors = 0 =>
      \A i \in 1..Len(cleanup_list) :
        cleanup_list[i].key # NoType =>
          /\ cleanup_list[i].key \in TypeIds
          /\ FindEntry(cleanup_list[i].key) = cleanup_list[i]

LifeInv ==
    /\ TableInv
    /\ LifeTypeOK
    /\ Numbered
    /\ ErrorsCounted
    /\ AllBound

-----------------------------------------------------------------------------
(* The shapes of a step *)

Unaffected == UNCHANGED <<wrapped, num_errors, init_list, singleton_vars>>

Binds(k, e) ==
    /\ stage = "configuring" /\ stage' = stage
    /\ Len(cleanup_list) <= MaxCalls
    /\ AddBindEntry(k, e)
    /\ e.key = k /\ e.n = Len(cleanup_list) + 1
    /\ init_list' \in Seq(Entries)
    /\ UNCHANGED <<wrapped, singleton_vars>>

Adds(e) ==
    /\ stage = "configuring"
    /\ \/ stage' = "configuring" /\ Len(cleanup_list) <= MaxCalls
       \/ stage' = "live" /\ num_errors = 0
    /\ AddCleanupOnly(e)
    /\ e.key = NoType /\ e.n = Len(cleanup_list) + 1
    /\ Unaffected

Deletes ==
    /\ stage = "live" /\ stage' = stage
    /\ BeginDelete \/ DeleteEntry \/ EndDelete
    /\ Unaffected

LeavesTable ==
    /\ UNCHANGED <<table_vars, wrapped, num_errors, init_list>>
    /\ \/ stage' \in {stage, "aborted", "corrupt", "deadlocked"}
       \/ stage = "configuring" /\ stage' = "live" /\ num_errors = 0
    /\ created' \in Seq(Types) /\ destroyed' \subseteq Types /\ late' \subseteq Types

\* What a binder call allocates is an entry while there is room for its number.
LEMMA NewEntry ==
    ASSUME NEW kind \in Kinds, NEW key \in TypeIds \cup {NoType},
           cleanup_list \in Seq(Entries), Len(cleanup_list) <= MaxCalls + 1
    PROVE  Entry(kind, key) \in Entries
  BY LifeAssumption DEF Entry, AllEntries

\* Every action has one of the four shapes.
LEMMA StepShapes ==
    ASSUME LifeInv, LifeNext
    PROVE  \/ \E k \in TypeIds, e \in Entries : Binds(k, e)
           \/ \E e \in Entries : Adds(e)
           \/ Deletes
           \/ LeavesTable
  <1> USE DEF LifeInv
  <1>0. /\ cleanup_list \in Seq(Entries) /\ init_list \in Seq(Entries)
        /\ created \in Seq(Types) /\ destroyed \subseteq Types
        /\ late \subseteq Types /\ MaxCalls \in Nat
        /\ Len(cleanup_list) \in Nat /\ Types \subseteq TypeIds
    BY LifeAssumption DEF TableInv, TableTypeOK, LifeTypeOK
  <1>1. CASE BindContext
    <2>1. ContextEntry = Entry("context", Context) /\ ContextEntry \in Entries
      BY <1>0, <1>1, LifeAssumption DEF BindContext, ContextEntry, Entry, AllEntries, Kinds
    <2>2. Binds(Context, ContextEntry)
      BY <1>0, <1>1, <2>1 DEF BindContext, Binds, ContextEntry
    <2> QED  BY <2>1, <2>2, LifeAssumption
  <1>2. ASSUME NEW k \in Types, BindToInstance(k) \/ BindToScope(k)
        PROVE  \E e \in Entries : Binds(k, e)
    <2>1. stage = "configuring" /\ Len(cleanup_list) <= MaxCalls
      BY <1>2 DEF BindToInstance, BindToScope, Configuring
    <2>2. \A kind \in Kinds : /\ Entry(kind, k) \in Entries
                              /\ Entry(kind, k).key = k
                              /\ Entry(kind, k).n = Len(cleanup_list) + 1
      BY <1>0, <2>1, NewEntry DEF Entry
    <2>3. CASE BindToInstance(k)
      BY <1>0, <2>1, <2>2, <2>3 DEF BindToInstance, Binds, Kinds
    <2>4. CASE BindToScope(k)
      <3>1. init_list' \in Seq(Entries)
        BY <1>0, <2>2, <2>4 DEF BindToScope, Kinds
      <3> QED  BY <2>1, <2>2, <2>4, <3>1 DEF BindToScope, Binds, Kinds
    <2> QED  BY <1>2, <2>3, <2>4
  <1>3. CASE AddCleanupAction
    <2>1. stage = "configuring" /\ Len(cleanup_list) <= MaxCalls
      BY <1>3 DEF AddCleanupAction, Configuring
    <2>2. Entry("action", NoType) \in Entries
      BY <1>0, <2>1, NewEntry DEF Kinds
    <2>3. Adds(Entry("action", NoType))
      BY <1>3, <2>1 DEF AddCleanupAction, Adds, Entry, Unaffected
    <2> QED  BY <2>2, <2>3
  <1>4. CASE FinishCreate
    <2>1. CASE wrapped
      <3>1. Len(cleanup_list) <= MaxCalls + 1
        BY <1>4 DEF FinishCreate, Numbered
      <3>2. Entry("invoke", NoType) \in Entries
        BY <1>0, <3>1, NewEntry DEF Kinds
      <3>3. Adds(Entry("invoke", NoType))
        BY <1>4, <2>1 DEF FinishCreate, Adds, Entry, Unaffected
      <3> QED  BY <3>2, <3>3
    <2>2. CASE ~wrapped
      BY <1>0, <1>4, <2>2 DEF FinishCreate, LeavesTable, singleton_vars
    <2> QED  BY <2>1, <2>2
  <1>5. ASSUME NEW how \in {"aborted", "corrupt", "deadlocked"}, Stop(how)
        PROVE  LeavesTable
    BY <1>0, <1>5 DEF Stop, LeavesTable, singleton_vars
  <1>6. ASSUME NEW k \in Types, CreateInstance(k)
        PROVE  LeavesTable
    BY <1>0, <1>6 DEF CreateInstance, LeavesTable
  <1>7. CASE DeleteInjector \/ DestroyEntry \/ EndInjector
    BY <1>7 DEF DeleteInjector, DestroyEntry, EndInjector, Deletes, Unaffected
  <1>8. CASE CleanupYoungest
    <2>1. Len(created) \in Nat \ {0}
      BY <1>0, <1>8 DEF CleanupYoungest
    <2>2. SubSeq(created, 1, Len(created) - 1) \in Seq(Types)
      BY <1>0, <2>1
    <2>3. created[Len(created)] \in Types
      BY <1>0, <2>1
    <2> QED  BY <1>0, <1>8, <2>2, <2>3 DEF CleanupYoungest, LeavesTable
  <1>9. CASE BindToScopeWithoutContext \/ RefuseCreate \/ ProviderNotEmpty
    BY <1>5, <1>9 DEF BindToScopeWithoutContext, RefuseCreate, ProviderNotEmpty
  <1>10. ASSUME NEW k \in Types, Get(k) \/ GetUnbound(k)
         PROVE  LeavesTable
    BY <1>5, <1>6, <1>10 DEF Get, GetUnbound
  <1>11. CASE CallbackStep
    <2> SUFFICES ASSUME NEW k \in Types,
                        \/ CallbackGet(k) \/ CallbackUnbound(k)
                        \/ CallbackReadsDeleted(k) \/ DestructorGet(k)
                 PROVE  LeavesTable
      BY <1>11, LifeAssumption DEF CallbackStep
    <2> QED  BY <1>5, <1>6 DEF CallbackGet, CallbackUnbound, CallbackReadsDeleted, DestructorGet
  <1> QED
    BY <1>0, <1>1, <1>2, <1>3, <1>4, <1>7, <1>8, <1>9, <1>10, <1>11
    DEF LifeNext, DeletionStep

-----------------------------------------------------------------------------
(* The invariant, and the table inside the injector *)

\* As far as the table goes, each shape is a step of BindTable, or none.
LEMMA ShapesAreTableSteps ==
    ASSUME LifeInv, [LifeNext]_life_vars
    PROVE  [TableNext]_table_vars
  <1>1. CASE UNCHANGED life_vars
    BY <1>1 DEF life_vars, table_vars
  <1>2. ASSUME NEW k \in TypeIds, NEW e \in Entries, Binds(k, e)
        PROVE  TableNext
    BY <1>2 DEF Binds, AddBindEntry, TableNext
  <1>3. ASSUME NEW e \in Entries, Adds(e)
        PROVE  TableNext
    BY <1>3 DEF Adds, TableNext
  <1>4. CASE Deletes
    BY <1>4 DEF Deletes, TableNext
  <1>5. CASE LeavesTable
    BY <1>5 DEF LeavesTable
  <1> QED  BY <1>1, <1>2, <1>3, <1>4, <1>5, StepShapes

\* Before the first binder call there is nothing to say.
LEMMA LifeInitHolds == LifeInit => LifeInv
  <1> SUFFICES ASSUME LifeInit  PROVE LifeInv
    OBVIOUS
  <1>1. TableInv
    BY InitHolds DEF LifeInit
  <1>2. LifeTypeOK
    BY LifeAssumption DEF LifeInit, LifeTypeOK
  <1>3. Numbered /\ ErrorsCounted /\ AllBound
    BY LifeAssumption DEF LifeInit, TableInit, Numbered, ErrorsCounted, AllBound
  <1> QED  BY <1>1, <1>2, <1>3 DEF LifeInv

\* A binder call: either the id was free, and is answered by the new entry from
\* now on, or the refusal is counted.
LEMMA BindKeepsInv ==
    ASSUME LifeInv, TableInv', NEW k \in TypeIds, NEW e \in Entries, Binds(k, e)
    PROVE  LifeInv'
  <1> USE DEF LifeInv
  <1>0. /\ cleanup_list \in Seq(Entries) /\ Len(cleanup_list) \in Nat
        /\ MaxCalls \in Nat /\ num_errors \in Nat
        /\ bind_map \in [TypeIds -> Entries \cup {NULL}]
        /\ NoType \notin TypeIds
    BY LifeAssumption DEF TableInv, TableTypeOK, LifeTypeOK
  <1>1. /\ cleanup_list' = Append(cleanup_list, e) /\ phase = "open" /\ phase' = "open"
        /\ bind_map' = IF bind_map[k] = NULL THEN [bind_map EXCEPT ![k] = e] ELSE bind_map
        /\ num_errors' = IF bind_map[k] = NULL THEN num_errors ELSE num_errors + 1
    BY DEF Binds, AddBindEntry, AddEntry, AddToCleanupList, Insert, Inserted, FindEntry
  <1>2. /\ Len(cleanup_list') = Len(cleanup_list) + 1
        /\ \A i \in 1..Len(cleanup_list) : cleanup_list'[i] = cleanup_list[i]
        /\ cleanup_list'[Len(cleanup_list) + 1] = e
    BY <1>0, <1>1, AppendOwns
  <1>3. cleanup_list = <<>> => bind_map[k] = NULL
    BY <1>0 DEF TableInv, BoundIsOwned, Owned
  <1>4. ErrorsCounted'
    BY <1>0, <1>1, <1>2, <1>3 DEF ErrorsCounted, Binds
  <1>5. LifeTypeOK'
    BY <1>0, <1>1, <1>4 DEF ErrorsCounted, LifeTypeOK, Binds, singleton_vars
  <1>6. Numbered'
    BY <1>0, <1>1, <1>2 DEF Numbered, Binds
  <1>7. AllBound'
    <2> SUFFICES ASSUME num_errors' = 0, NEW i \in 1..Len(cleanup_list'),
                        cleanup_list'[i].key # NoType
                 PROVE  /\ cleanup_list'[i].key \in TypeIds
                        /\ bind_map'[cleanup_list'[i].key] = cleanup_list'[i]
      BY DEF AllBound, FindEntry
    <2>1. bind_map[k] = NULL /\ num_errors = 0
      BY <1>0, <1>1
    <2>2. CASE i = Len(cleanup_list) + 1
      BY <1>0, <1>1, <1>2, <2>1, <2>2 DEF Binds
    <2>3. CASE i \in 1..Len(cleanup_list)
      <3>1. /\ cleanup_list[i].key \in TypeIds
            /\ bind_map[cleanup_list[i].key] = cleanup_list[i]
            /\ cleanup_list[i] \in Entries
        BY <1>0, <1>2, <2>1, <2>3 DEF AllBound, FindEntry
      <3>2. cleanup_list[i].key # k
        BY <2>1, <3>1, NullAssumption
      <3> QED  BY <1>0, <1>1, <1>2, <2>1, <2>3, <3>1, <3>2
    <2> QED  BY <1>0, <1>2, <2>2, <2>3
  <1> QED  BY <1>4, <1>5, <1>6, <1>7

\* A cleanup action, the wrapper's included, is not looked up by anyone.
LEMMA AddKeepsInv ==
    ASSUME LifeInv, TableInv', NEW e \in Entries, Adds(e)
    PROVE  LifeInv'
  <1> USE DEF LifeInv
  <1>0. /\ cleanup_list \in Seq(Entries) /\ Len(cleanup_list) \in Nat
        /\ MaxCalls \in Nat /\ num_errors \in Nat
    BY LifeAssumption DEF TableInv, TableTypeOK, LifeTypeOK
  <1>1. /\ cleanup_list' = Append(cleanup_list, e) /\ phase = "open" /\ phase' = "open"
        /\ bind_map' = bind_map /\ num_errors' = num_errors
    BY DEF Adds, AddCleanupOnly, AddToCleanupList, Unaffected
  <1>2. /\ Len(cleanup_list') = Len(cleanup_list) + 1
        /\ \A i \in 1..Len(cleanup_list) : cleanup_list'[i] = cleanup_list[i]
        /\ cleanup_list'[Len(cleanup_list) + 1] = e
    BY <1>0, <1>1, AppendOwns
  <1>3. ErrorsCounted'
    BY <1>0, <1>1, <1>2 DEF ErrorsCounted, Adds
  <1>4. LifeTypeOK'
    BY DEF LifeTypeOK, Adds, Unaffected, singleton_vars
  <1>5. Numbered'
    BY <1>0, <1>1, <1>2 DEF Numbered, Adds
  <1>6. AllBound'
    BY <1>0, <1>1, <1>2 DEF AllBound, FindEntry, Adds
  <1> QED  BY <1>3, <1>4, <1>5, <1>6

\* Every step of an injector's life keeps the invariant.
LEMMA LifeStepHolds == LifeInv /\ [LifeNext]_life_vars => LifeInv'
  <1> SUFFICES ASSUME LifeInv, [LifeNext]_life_vars
               PROVE  LifeInv'
    OBVIOUS
  <1>1. TableInv'
    BY ShapesAreTableSteps, StepHolds DEF LifeInv
  <1>2. CASE \E k \in TypeIds, e \in Entries : Binds(k, e)
    BY <1>1, <1>2, BindKeepsInv
  <1>3. CASE \E e \in Entries : Adds(e)
    BY <1>1, <1>3, AddKeepsInv
  <1>4. CASE Deletes
    <2>1. UNCHANGED <<cleanup_list, bind_map, stage>> /\ Unaffected /\ stage = "live"
      BY <1>4 DEF Deletes, BeginDelete, DeleteEntry, EndDelete
    <2> QED  BY <1>1, <2>1 DEF LifeInv, LifeTypeOK, Numbered, ErrorsCounted, AllBound,
                               FindEntry, Unaffected, singleton_vars
  <1>5. CASE LeavesTable
    <2>1. LifeTypeOK'
      BY <1>5 DEF LeavesTable, LifeInv, LifeTypeOK
    <2>2. UNCHANGED <<cleanup_list, bind_map, phase, num_errors>>
      BY <1>5 DEF LeavesTable, table_vars
    <2>3. Numbered' /\ ErrorsCounted' /\ AllBound'
      BY <1>5, <2>2 DEF LeavesTable, LifeInv, Numbered, ErrorsCounted, AllBound, FindEntry
    <2> QED  BY <1>1, <2>1, <2>3 DEF LifeInv
  <1>6. CASE UNCHANGED life_vars
    BY <1>1, <1>6 DEF LifeInv, LifeTypeOK, Numbered, ErrorsCounted, AllBound, FindEntry,
                      life_vars, table_vars, singleton_vars
  <1> QED  BY <1>2, <1>3, <1>4, <1>5, <1>6, StepShapes

\* The invariant holds all through the life of every injector.
THEOREM LifeInvariant == LifeSpec => []LifeInv
  <1> QED  BY LifeInitHolds, LifeStepHolds, PTL DEF LifeSpec

\* Type correctness of the injector's life, its table included: no more errors
\* than binder calls, and ~BindTable never starts past the last entry.
THEOREM LifeTypeCorrect == LifeSpec => []TypeOK
  <1>1. LifeInv => TypeOK
    BY DEF LifeInv, TableInv, TypeOK
  <1> QED  BY <1>1, LifeInvariant, PTL

\* The table inside an injector is a BindTable, whatever modules, requests,
\* cleanups and callbacks do: every theorem about BindTable is one about it.
THEOREM LifeImplementsTable == LifeSpec => TableSpec
  <1>1. LifeInit => TableInit
    BY DEF LifeInit
  <1>2. LifeInv /\ [LifeNext]_life_vars => [TableNext]_table_vars
    BY ShapesAreTableSteps
  <1> QED  BY <1>1, <1>2, LifeInvariant, PTL DEF LifeSpec, TableSpec

\* Deleting an injector deletes every entry its module made, the refused ones
\* of a duplicate binding included (~BindTable).
THEOREM InjectorLeaksNothing == LifeSpec => []NothingLeaks
  BY LifeImplementsTable, TableLeaksNothing, PTL

\* An injector is handed out only if each binding made is the one found.
THEOREM HandedOutSound == LifeSpec => []HandedOutMeansAllBound
  <1>1. LifeInv => HandedOutMeansAllBound
    BY DEF LifeInv, ErrorsCounted, AllBound, HandedOutMeansAllBound, Live
  <1> QED  BY <1>1, LifeInvariant, PTL

-----------------------------------------------------------------------------
(* The scope inside the injector: the wrapper's last entry runs Cleanup()    *)
(* before any other is deleted, so that what is left afterwards is late.     *)

\* Only the wrapper's context, its first entry, lets modules bind to the scope.
ScopeIsWrapped ==
    /\ ~wrapped => \A i \in 1..Len(cleanup_list) :
                     cleanup_list[i].kind \notin {"context", "scope", "invoke"}
    /\ created # <<>> => wrapped

ContextIsFirst ==
    wrapped /\ cleanup_list # <<>> => cleanup_list[1] = ContextEntry

NothingYet ==
    /\ stage = "configuring" => created = <<>>
    /\ phase = "open" => late = {} /\ destroyed = {}

InvokeIsLast ==
    wrapped /\ (stage = "live" \/ phase # "open") =>
      /\ cleanup_list # <<>>
      /\ cleanup_list[Len(cleanup_list)].kind = "invoke"

LateAfterInvoke ==
    phase # "open" /\ riter < Len(cleanup_list) => Created \subseteq late

\* What an instance was built from came before it.
NeedsBefore ==
    \A i \in 1..Len(created) :
      created[i] \notin late =>
        \A d \in AskedFor(Needs[created[i]]) :
          Bound(d, "instance") \/ Fresh(d) \/ \E j \in 1..(i - 1) : created[j] = d

ScopeInv ==
    /\ LifeInv
    /\ ScopeIsWrapped
    /\ ContextIsFirst
    /\ NothingYet
    /\ InvokeIsLast
    /\ LateAfterInvoke
    /\ NeedsBefore

\* What is bound decides what is looked up, and what is made afresh.
LEMMA SameLookups ==
    ASSUME bind_map' = bind_map
    PROVE  /\ \A d : Fresh(d)' = Fresh(d)
           /\ \A d, kind : Bound(d, kind)' = Bound(d, kind)
           /\ \A asked : AskedFor(asked)' = AskedFor(asked)
  <1>1. \A d : Fresh(d)' = Fresh(d)
    BY DEF Fresh, FindEntry
  <1>2. \A asked : AskedFor(asked)' = AskedFor(asked)
    BY DEF AskedFor, Fresh, FindEntry
  <1> QED  BY <1>1, <1>2 DEF Bound, FindEntry

\* An injector without entries and instances.
LEMMA ScopeInitHolds == LifeInit => ScopeInv
  <1> SUFFICES ASSUME LifeInit  PROVE ScopeInv
    OBVIOUS
  <1>1. LifeInv
    BY LifeInitHolds
  <1> QED
    BY <1>1 DEF LifeInit, TableInit, ScopeInv, ScopeIsWrapped, ContextIsFirst, NothingYet,
                InvokeIsLast, LateAfterInvoke, NeedsBefore

\* While the module configures, entries come in and there are no instances.
LEMMA ConfiguringKeepsScope ==
    ASSUME ScopeInv, LifeInv', stage = "configuring", NEW e \in Entries,
           AddToCleanupList(e), UNCHANGED <<wrapped, created, destroyed, late>>,
           e.kind \in {"context", "scope", "invoke"} => wrapped,
           wrapped /\ cleanup_list = <<>> => e = ContextEntry,
           stage' = "live" /\ wrapped => e.kind = "invoke"
    PROVE  ScopeInv'
  <1>1. /\ cleanup_list \in Seq(Entries) /\ Len(cleanup_list) \in Nat
        /\ created = <<>> /\ late = {} /\ destroyed = {} /\ phase = "open" /\ phase' = "open"
        /\ cleanup_list' = Append(cleanup_list, e)
    BY DEF ScopeInv, LifeInv, TableInv, TableTypeOK, NothingYet, AddToCleanupList
  <1>2. /\ Len(cleanup_list') = Len(cleanup_list) + 1
        /\ \A i \in 1..Len(cleanup_list) : cleanup_list'[i] = cleanup_list[i]
        /\ cleanup_list'[Len(cleanup_list) + 1] = e
        /\ cleanup_list' # <<>>
    BY <1>1, AppendOwns
  <1>3. ScopeIsWrapped' /\ ContextIsFirst'
    BY <1>1, <1>2 DEF ScopeInv, ScopeIsWrapped, ContextIsFirst, ContextEntry
  <1>4. NothingYet' /\ LateAfterInvoke' /\ NeedsBefore'
    BY <1>1 DEF NothingYet, LateAfterInvoke, NeedsBefore
  <1>5. InvokeIsLast'
    BY <1>1, <1>2 DEF InvokeIsLast
  <1> QED  BY <1>3, <1>4, <1>5 DEF ScopeInv

\* A step that ends the process, or only changes what is not spoken of here.
LEMMA StutterKeepsScope ==
    ASSUME ScopeInv, LifeInv', UNCHANGED <<table_vars, wrapped, singleton_vars>>,
           stage' \in {stage, "aborted", "corrupt", "deadlocked"}
    PROVE  ScopeInv'
  <1>1. UNCHANGED <<bind_map, cleanup_list, riter, phase, wrapped, created, destroyed, late>>
    BY DEF table_vars, singleton_vars
  <1>2. NeedsBefore'
    BY <1>1, SameLookups DEF ScopeInv, NeedsBefore
  <1>3. ScopeIsWrapped' /\ ContextIsFirst'
    BY <1>1 DEF ScopeInv, ScopeIsWrapped, ContextIsFirst, ContextEntry
  <1> QED
    BY <1>1, <1>2, <1>3 DEF ScopeInv, NothingYet, InvokeIsLast, LateAfterInvoke, Created

\* A first request: what the constructor needs is there, or the table is being
\* deleted and the instance is late.
LEMMA CreateKeepsScope ==
    ASSUME ScopeInv, LifeInv', NEW k \in Types, stage = "live", CreateInstance(k)
    PROVE  ScopeInv'
  <1> USE DEF ScopeInv
  <1>1. /\ created \in Seq(Types) /\ Len(created) \in Nat
        /\ UNCHANGED <<bind_map, cleanup_list, riter, phase, freed, stage, wrapped, destroyed>>
        /\ created' = Append(created, k)
        /\ late' = IF phase = "open" THEN late ELSE late \cup {k}
    BY DEF LifeInv, LifeTypeOK, CreateInstance, table_vars
  <1>2. /\ Len(created') = Len(created) + 1
        /\ \A i \in 1..Len(created) : created'[i] = created[i]
        /\ created'[Len(created) + 1] = k
    BY <1>1
  <1>3. Created' = Created \cup {k}
    <2>1. 1..Len(created') = (1..Len(created)) \cup {Len(created) + 1}
      BY <1>1, <1>2
    <2> QED  BY <2>1, <1>2 DEF Created
  <1>4. ScopeIsWrapped' /\ ContextIsFirst'
    <2>1. bind_map[k] \in Owned /\ bind_map[k].kind = "scope"
      BY LifeAssumption DEF CreateInstance, NotYetCreated, Bound, FindEntry, LifeInv, TableInv, BoundIsOwned
    <2>2. wrapped
      BY <2>1 DEF ScopeIsWrapped, Owned
    <2> QED  BY <1>1, <2>2 DEF ScopeIsWrapped, ContextIsFirst, ContextEntry
  <1>5. NothingYet' /\ InvokeIsLast'
    BY <1>1 DEF NothingYet, InvokeIsLast
  <1>6. LateAfterInvoke'
    BY <1>1, <1>3 DEF LateAfterInvoke
  <1>7. NeedsBefore'
    <2> SUFFICES ASSUME NEW i \in 1..Len(created'), created'[i] \notin late',
                        NEW d \in AskedFor(Needs[created'[i]])
                 PROVE  \/ Bound(d, "instance") \/ Fresh(d)
                        \/ \E j \in 1..(i - 1) : created'[j] = d
      BY <1>1, SameLookups DEF NeedsBefore
    <2>1. CASE i \in 1..Len(created)
      BY <1>1, <1>2, <2>1 DEF NeedsBefore
    <2>2. CASE i = Len(created) + 1
      <3>1. phase = "open" /\ destroyed = {}
        BY <1>1, <1>2, <2>2 DEF NothingYet
      <3>2. d \in Created \/ Bound(d, "instance") \/ Fresh(d)
        BY <1>2, <2>2, <3>1 DEF CreateInstance, Available
      <3> QED  BY <1>1, <1>2, <2>2, <3>2 DEF Created
    <2> QED  BY <1>1, <1>2, <2>1, <2>2
  <1> QED  BY <1>4, <1>5, <1>6, <1>7

\* Cleanup() takes the youngest instance away.
LEMMA CleanupKeepsScope ==
    ASSUME ScopeInv, LifeInv', CleanupYoungest
    PROVE  ScopeInv'
  <1> USE DEF ScopeInv
  <1>1. /\ created \in Seq(Types) /\ Len(created) \in Nat \ {0}
        /\ UNCHANGED <<bind_map, cleanup_list, riter, phase, freed, stage, wrapped, late>>
        /\ created' = SubSeq(created, 1, Len(created) - 1)
        /\ stage = "live" /\ phase = "deleting"
    BY DEF LifeInv, LifeTypeOK, CleanupYoungest, Deleting, table_vars
  <1>2. /\ Len(created') = Len(created) - 1
        /\ \A i \in 1..(Len(created) - 1) : created'[i] = created[i]
    <2> DEFINE n == Len(created) - 1
               rest == SubSeq(created, 1, n)
    <2>1. n \in Nat /\ \A i \in 1..n : created[i] \in Types
      BY <1>1
    <2>2. /\ Len(rest) = IF 1 <= n THEN n - 1 + 1 ELSE 0
          /\ \A i \in 1..(n - 1 + 1) : rest[i] = created[1 + i - 1]
      <3> HIDE DEF n
      <3> QED  BY <2>1, SubSeqProperties
    <2>3. Len(rest) = n /\ \A i \in 1..n : rest[i] = created[i]
      <3> HIDE DEF n, rest
      <3> QED  BY <2>1, <2>2
    <2> QED  BY <1>1, <2>3
  <1>3. Created' \subseteq Created
    BY <1>1, <1>2 DEF Created
  <1>4. ScopeIsWrapped' /\ ContextIsFirst' /\ NothingYet' /\ InvokeIsLast'
    BY <1>1 DEF ScopeIsWrapped, ContextIsFirst, ContextEntry, NothingYet, InvokeIsLast
  <1>5. LateAfterInvoke'
    BY <1>1, <1>3 DEF LateAfterInvoke
  <1>6. NeedsBefore'
    <2> SUFFICES ASSUME NEW i \in 1..Len(created'), created'[i] \notin late,
                        NEW d \in AskedFor(Needs[created'[i]])
                 PROVE  \/ Bound(d, "instance") \/ Fresh(d)
                        \/ \E j \in 1..(i - 1) : created'[j] = d
      BY <1>1, SameLookups DEF NeedsBefore
    <2>1. i \in 1..Len(created) /\ created'[i] = created[i]
      BY <1>1, <1>2
    <2>2. \/ Bound(d, "instance") \/ Fresh(d)
          \/ \E j \in 1..(i - 1) : created[j] = d
      BY <2>1 DEF NeedsBefore
    <2>3. 1..(i - 1) \subseteq 1..(Len(created) - 1)
      BY <1>1, <1>2
    <2> QED  BY <1>2, <2>2, <2>3
  <1> QED  BY <1>4, <1>5, <1>6

\* The deletion of the table: by the time the wrapper's entry is gone no
\* instance is left.
LEMMA DeletionKeepsScope ==
    ASSUME ScopeInv, LifeInv', DeleteInjector \/ DestroyEntry \/ EndInjector
    PROVE  ScopeInv'
  <1> USE DEF ScopeInv
  <1>1. /\ riter \in 0..Len(cleanup_list) /\ Len(cleanup_list) \in Nat
        /\ UNCHANGED <<bind_map, cleanup_list, stage, wrapped, created, destroyed, late>>
        /\ stage = "live" /\ phase' # "open"
    BY DEF LifeInv, TableInv, TableTypeOK, DeleteInjector, DestroyEntry, EndInjector,
           BeginDelete, DeleteEntry, EndDelete, singleton_vars
  <1>2. /\ ScopeIsWrapped' /\ ContextIsFirst' /\ NothingYet' /\ InvokeIsLast'
        /\ NeedsBefore'
    <2>1. NeedsBefore'
      BY <1>1, SameLookups DEF NeedsBefore
    <2> QED
      BY <1>1, <2>1 DEF ScopeIsWrapped, ContextIsFirst, ContextEntry, NothingYet, InvokeIsLast
  <1>3. LateAfterInvoke'
    <2>1. CASE DeleteInjector
      BY <1>1, <2>1 DEF DeleteInjector, BeginDelete, LateAfterInvoke
    <2>2. CASE EndInjector
      BY <1>1, <2>2 DEF EndInjector, EndDelete, LateAfterInvoke, Created
    <2>3. CASE DestroyEntry
      <3>1. phase = "deleting" /\ riter > 0
        BY <2>3 DEF DestroyEntry, DeleteEntry
      <3>2. CASE riter < Len(cleanup_list)
        BY <1>1, <3>1, <3>2 DEF LateAfterInvoke, Created
      <3>3. CASE riter = Len(cleanup_list)
        <4>1. created = <<>>
          BY <2>3, <3>1, <3>3 DEF DestroyEntry, Deleting, Current, InvokeIsLast, ScopeIsWrapped
        <4> QED  BY <1>1, <4>1 DEF LateAfterInvoke, Created
      <3> QED  BY <1>1, <3>2, <3>3
    <2> QED  BY <2>1, <2>2, <2>3
  <1> QED  BY <1>2, <1>3

\* Every step keeps it.
LEMMA ScopeStepHolds == ScopeInv /\ [LifeNext]_life_vars => ScopeInv'
  <1> SUFFICES ASSUME ScopeInv, [LifeNext]_life_vars  PROVE ScopeInv'
    OBVIOUS
  <1>0. /\ LifeInv /\ LifeInv'
        /\ cleanup_list \in Seq(Entries) /\ Types \subseteq TypeIds /\ MaxCalls \in Nat
        /\ Len(cleanup_list) \in Nat
    BY LifeStepHolds, LifeAssumption DEF ScopeInv, LifeInv, TableInv, TableTypeOK
  <1>1. CASE BindContext
    <2>1. ContextEntry \in Entries /\ ContextEntry.kind = "context"
      BY <1>0, LifeAssumption DEF ContextEntry, AllEntries, Kinds
    <2> QED
      BY <1>0, <1>1, <2>1, ConfiguringKeepsScope
      DEF BindContext, AddBindEntry, AddEntry, singleton_vars
  <1>2. ASSUME NEW k \in Types, BindToInstance(k)
        PROVE  ScopeInv'
    <2>1. Entry("instance", k) \in Entries /\ Entry("instance", k).kind = "instance"
      BY <1>0, <1>2, NewEntry DEF Entry, Kinds, BindToInstance, Configuring
    <2> QED
      BY <1>0, <1>2, <2>1, ConfiguringKeepsScope
      DEF BindToInstance, Configuring, AddBindEntry, AddEntry, singleton_vars
  <1>3. ASSUME NEW k \in Types, BindToScope(k)
        PROVE  ScopeInv'
    <2>1. Entry("scope", k) \in Entries /\ Entry("scope", k).kind = "scope"
      BY <1>0, <1>3, NewEntry DEF Entry, Kinds, BindToScope, Configuring
    <2>2. wrapped
      <3>1. bind_map[Context] \in Owned /\ bind_map[Context].kind = "context"
        BY <1>0, <1>3, LifeAssumption
        DEF BindToScope, Bound, FindEntry, LifeInv, TableInv, BoundIsOwned
      <3> QED  BY <3>1 DEF ScopeInv, ScopeIsWrapped, Owned
    <2> QED
      BY <1>0, <1>3, <2>1, <2>2, ConfiguringKeepsScope
      DEF BindToScope, Configuring, AddBindEntry, AddEntry, singleton_vars
  <1>4. CASE AddCleanupAction
    <2>1. Entry("action", NoType) \in Entries /\ Entry("action", NoType).kind = "action"
      BY <1>0, <1>4, NewEntry DEF Entry, Kinds, AddCleanupAction, Configuring
    <2> QED
      BY <1>0, <1>4, <2>1, ConfiguringKeepsScope
      DEF AddCleanupAction, Configuring, AddCleanupOnly, singleton_vars
  <1>5. CASE FinishCreate
    <2>1. CASE wrapped
      <3>1. Entry("invoke", NoType) \in Entries /\ Entry("invoke", NoType).kind = "invoke"
        BY <1>0, <1>5, NewEntry DEF Entry, Kinds, FinishCreate, LifeInv, Numbered
      <3> QED
        BY <1>0, <1>5, <2>1, <3>1, ConfiguringKeepsScope
        DEF FinishCreate, AddCleanupOnly, singleton_vars
    <2>2. CASE ~wrapped
      <3>1. UNCHANGED <<bind_map, cleanup_list, riter, phase, wrapped, created, destroyed, late>>
        BY <1>5, <2>2 DEF FinishCreate, table_vars, singleton_vars
      <3>2. created = <<>> /\ phase = "open"
        BY <1>0, <1>5 DEF FinishCreate, ScopeInv, NothingYet, LifeInv, Numbered
      <3>3. ScopeIsWrapped'
        BY <3>1 DEF ScopeInv, ScopeIsWrapped
      <3> QED
        BY <1>0, <2>2, <3>1, <3>2, <3>3
        DEF ScopeInv, ContextIsFirst, NothingYet, InvokeIsLast, LateAfterInvoke, NeedsBefore
    <2> QED  BY <2>1, <2>2
  <1>6. ASSUME NEW how \in {"aborted", "corrupt", "deadlocked"}, Stop(how)
        PROVE  ScopeInv'
    BY <1>0, <1>6, StutterKeepsScope DEF Stop
  <1>7. CASE BindToScopeWithoutContext \/ RefuseCreate \/ ProviderNotEmpty
    BY <1>6, <1>7 DEF BindToScopeWithoutContext, RefuseCreate, ProviderNotEmpty
  <1>8. ASSUME NEW k \in Types, Get(k) \/ GetUnbound(k)
        PROVE  ScopeInv'
    BY <1>0, <1>6, <1>8, CreateKeepsScope DEF Get, GetUnbound
  <1>9. CASE CallbackStep
    <2> SUFFICES ASSUME NEW k \in Types,
                        \/ CallbackGet(k) \/ CallbackUnbound(k)
                        \/ CallbackReadsDeleted(k) \/ DestructorGet(k)
                 PROVE  ScopeInv'
      BY <1>9, LifeAssumption DEF CallbackStep
    <2>1. CASE CallbackGet(k)
      BY <1>0, <2>1, CreateKeepsScope DEF CallbackGet, InCallback
    <2> QED  BY <1>6, <2>1 DEF CallbackUnbound, CallbackReadsDeleted, DestructorGet
  <1>10. CASE CleanupYoungest
    BY <1>0, <1>10, CleanupKeepsScope
  <1>11. CASE DeleteInjector \/ DestroyEntry \/ EndInjector
    BY <1>0, <1>11, DeletionKeepsScope
  <1>12. CASE UNCHANGED life_vars
    BY <1>0, <1>12, StutterKeepsScope DEF life_vars
  <1> QED
    BY <1>1, <1>2, <1>3, <1>4, <1>5, <1>7, <1>8, <1>9, <1>10, <1>11, <1>12
    DEF LifeNext, DeletionStep

\* The invariant of the scope holds all through.
THEOREM ScopeInvariant == LifeSpec => []ScopeInv
  <1> QED  BY ScopeInitHolds, ScopeStepHolds, PTL DEF LifeSpec

\* The scope context is there wherever something points to it, and deleted after
\* that, as the first entry of a list that is deleted from its end
\* (WrapperModule).
THEOREM ContextOutlives == LifeSpec => []ContextOutlivesUsers
  <1>1. ScopeInv => ContextOutlivesUsers
    <2> SUFFICES ASSUME ScopeInv, NEW e \in Owned \ freed, e.kind \in {"scope", "invoke"}
                 PROVE  ContextEntry \in Owned \ freed
      BY DEF ContextOutlivesUsers
    <2>1. TableTypeOK /\ FreedIsPassed
      BY DEF ScopeInv, LifeInv, TableInv
    <2>2. PICK i \in 1..Len(cleanup_list) : cleanup_list[i] = e
      BY DEF Owned
    <2>3. Len(cleanup_list) \in Nat /\ riter \in Nat /\ 1 \in 1..Len(cleanup_list)
      BY <2>1, <2>2 DEF TableTypeOK
    <2>4. cleanup_list[1] = ContextEntry
      <3>1. wrapped /\ cleanup_list # <<>>
        BY <2>2, <2>3 DEF ScopeInv, ScopeIsWrapped
      <3> QED  BY <3>1 DEF ScopeInv, ContextIsFirst
    <2>5. CASE phase = "open"
      BY <2>1, <2>3, <2>4, <2>5 DEF FreedIsPassed, Owned
    <2>6. CASE phase # "open"
      <3>1. freed = {cleanup_list[j] : j \in (riter + 1)..Len(cleanup_list)}
        BY <2>1, <2>6 DEF FreedIsPassed
      <3>2. riter # 0
        BY <2>2, <3>1
      <3>3. \A j \in (riter + 1)..Len(cleanup_list) : cleanup_list[j] # ContextEntry
        BY <2>3, <3>2 DEF ScopeInv, LifeInv, Numbered, ContextEntry
      <3> QED  BY <2>3, <2>4, <3>1, <3>3 DEF Owned
    <2> QED  BY <2>5, <2>6
  <1> QED  BY <1>1, ScopeInvariant, PTL

\* No provider is deleted with an instance that was there before the deletion
\* began: Cleanup() has run by then (ScopeSetupContext::Cleanup).
THEOREM OnlyLateRemain == LifeSpec => []OnlyLateInstancesRemain
  <1>1. ScopeInv => OnlyLateInstancesRemain
    <2> SUFFICES ASSUME ScopeInv, Deleting("scope")  PROVE Created \subseteq late
      BY DEF OnlyLateInstancesRemain
    <2>1. /\ phase # "open" /\ riter \in 1..Len(cleanup_list) /\ Len(cleanup_list) \in Nat
          /\ cleanup_list[riter].kind = "scope"
      BY DEF Deleting, Current, ScopeInv, LifeInv, TableInv, TableTypeOK
    <2>2. riter # Len(cleanup_list)
      BY <2>1 DEF ScopeInv, ScopeIsWrapped, InvokeIsLast
    <2> QED  BY <2>1, <2>2 DEF ScopeInv, LateAfterInvoke
  <1> QED  BY <1>1, ScopeInvariant, PTL

\* What an instance was built from outlives it, unless the instance was made
\* by a callback in the middle of the deletion.
THEOREM NeedsAreOutlived == LifeSpec => []NeedsOutlive
  <1>1. ScopeInv => NeedsOutlive
    <2> SUFFICES ASSUME ScopeInv, NEW k \in Created \ late, NEW d \in AskedFor(Needs[k])
                 PROVE  \/ d \in Created \/ Fresh(d)
                        \/ Bound(d, "instance") /\ FindEntry(d) \notin freed
      BY DEF NeedsOutlive
    <2>1. /\ riter \in 0..Len(cleanup_list) /\ Len(cleanup_list) \in Nat
          /\ Len(created) \in Nat
      BY DEF ScopeInv, LifeInv, LifeTypeOK, TableInv, TableTypeOK
    <2>2. phase = "open" \/ riter = Len(cleanup_list)
      BY <2>1 DEF ScopeInv, LateAfterInvoke
    <2>3. freed = {}
      BY <2>1, <2>2 DEF ScopeInv, LifeInv, TableInv, FreedIsPassed
    <2>4. PICK i \in 1..Len(created) : created[i] = k
      BY DEF Created
    <2>5. \/ Bound(d, "instance") \/ Fresh(d)
          \/ \E j \in 1..(i - 1) : created[j] = d
      BY <2>4 DEF ScopeInv, NeedsBefore
    <2> QED  BY <2>1, <2>3, <2>5 DEF Created
  <1> QED  BY <1>1, ScopeInvariant, PTL

-----------------------------------------------------------------------------
(* The context's array. Its size is the number of providers registered, and  *)
(* each instance, existing or destroyed, has a provider of its own.          *)

\* The map finds an entry under the entry's own type.
FoundByKey == \A k \in TypeIds : FindEntry(k) # NULL => FindEntry(k).key = k

Registered ==
    \A k \in Types : Bound(k, "scope") =>
      \E i \in 1..Len(init_list) : init_list[i] = FindEntry(k)

\* Instances are those of providers, and a provider makes one.
OneEach ==
    /\ \A k \in Created \cup destroyed : Bound(k, "scope")
    /\ \A i, j \in 1..Len(created) : created[i] = created[j] => i = j
    /\ Created \cap destroyed = {}

RoomInv ==
    /\ FoundByKey
    /\ Registered
    /\ OneEach

\* A binding: a provider is in the context's list before its entry is found.
LEMMA BindingKeepsRoom ==
    ASSUME LifeInv, RoomInv, NEW k \in TypeIds, NEW e \in Entries, e.key = k,
           AddBindEntry(k, e), UNCHANGED <<created, destroyed>>,
           \/ e.kind # "scope" /\ init_list' = init_list
           \/ init_list' = Append(init_list, e)
    PROVE  RoomInv'
  <1>0. /\ bind_map \in [TypeIds -> Entries \cup {NULL}] /\ init_list \in Seq(Entries)
        /\ Len(init_list) \in Nat /\ e # NULL /\ Types \subseteq TypeIds
        /\ created \in Seq(Types) /\ destroyed \subseteq Types
    BY LifeAssumption, NullAssumption DEF LifeInv, LifeTypeOK, TableInv, TableTypeOK
  <1>1. \A j \in TypeIds : \/ bind_map[j] # NULL /\ bind_map'[j] = bind_map[j]
                           \/ bind_map[j] = NULL /\ bind_map'[j] = NULL
                           \/ bind_map[j] = NULL /\ bind_map'[j] = e /\ j = k
    BY <1>0 DEF AddBindEntry, AddEntry, Insert, FindEntry
  <1>2. /\ Len(init_list') \in Nat /\ Len(init_list) <= Len(init_list')
        /\ \A i \in 1..Len(init_list) : init_list'[i] = init_list[i]
        /\ e.kind = "scope" => /\ Len(init_list) + 1 \in 1..Len(init_list')
                               /\ init_list'[Len(init_list) + 1] = e
    BY <1>0
  <1>3. FoundByKey'
    BY <1>1 DEF RoomInv, FoundByKey, FindEntry
  <1>4. Registered'
    <2> SUFFICES ASSUME NEW j \in Types, bind_map'[j] # NULL, bind_map'[j].kind = "scope"
                 PROVE  \E i \in 1..Len(init_list') : init_list'[i] = bind_map'[j]
      BY DEF Registered, Bound, FindEntry
    <2>1. CASE bind_map[j] # NULL
      <3>1. bind_map'[j] = bind_map[j]
        BY <1>0, <1>1, <2>1
      <3>2. PICK i \in 1..Len(init_list) : init_list[i] = bind_map[j]
        BY <2>1, <3>1 DEF RoomInv, Registered, Bound, FindEntry
      <3>3. i \in 1..Len(init_list') /\ init_list'[i] = bind_map'[j]
        BY <1>0, <1>2, <3>1, <3>2
      <3> QED  BY <3>3
    <2>2. CASE bind_map[j] = NULL
      BY <1>0, <1>1, <1>2, <2>2
    <2> QED  BY <2>1, <2>2
  <1>5. OneEach'
    <2>1. \A j \in TypeIds : Bound(j, "scope") => Bound(j, "scope")'
      BY <1>1 DEF Bound, FindEntry
    <2>2. Created' = Created /\ Created \subseteq Types
      BY <1>0 DEF Created
    <2> QED  BY <1>0, <2>1, <2>2 DEF RoomInv, OneEach
  <1> QED  BY <1>3, <1>4, <1>5 DEF RoomInv

\* A step that makes or destroys no instance and binds nothing.
LEMMA StutterKeepsRoom ==
    ASSUME RoomInv, UNCHANGED <<bind_map, init_list, created, destroyed>>
    PROVE  RoomInv'
  BY DEF RoomInv, FoundByKey, Registered, OneEach, Created, Bound, FindEntry

\* A first request.
LEMMA CreateKeepsRoom ==
    ASSUME LifeInv, RoomInv, NEW k \in Types, CreateInstance(k)
    PROVE  RoomInv'
  <1>1. /\ created \in Seq(Types) /\ Len(created) \in Nat
        /\ UNCHANGED <<bind_map, init_list, destroyed>>
        /\ created' = Append(created, k)
        /\ Bound(k, "scope") /\ k \notin Created \cup destroyed
    BY DEF LifeInv, LifeTypeOK, CreateInstance, NotYetCreated, table_vars
  <1>2. /\ Len(created') = Len(created) + 1
        /\ \A i \in 1..Len(created) : created'[i] = created[i]
        /\ created'[Len(created) + 1] = k
    BY <1>1
  <1>3. Created' = Created \cup {k}
    <2>1. 1..Len(created') = (1..Len(created)) \cup {Len(created) + 1}
      BY <1>1, <1>2
    <2> QED  BY <2>1, <1>2 DEF Created
  <1>4. FoundByKey' /\ Registered'
    BY <1>1 DEF RoomInv, FoundByKey, Registered, Bound, FindEntry
  <1>5. \A j \in (Created \cup destroyed)' : Bound(j, "scope")'
    BY <1>1, <1>3 DEF RoomInv, OneEach, Bound, FindEntry
  <1>6. ASSUME NEW i \in 1..Len(created'), NEW j \in 1..Len(created'), created'[i] = created'[j]
        PROVE  i = j
    <2>1. \A m \in 1..Len(created) : created[m] # k
      BY <1>1 DEF Created
    <2> QED  BY <1>1, <1>2, <1>6, <2>1 DEF RoomInv, OneEach
  <1>7. Created' \cap destroyed' = {}
    BY <1>1, <1>3 DEF RoomInv, OneEach
  <1> QED  BY <1>4, <1>5, <1>6, <1>7 DEF RoomInv, OneEach

\* Cleanup() moves the youngest instance to those that are destroyed.
LEMMA CleanupKeepsRoom ==
    ASSUME LifeInv, RoomInv, CleanupYoungest
    PROVE  RoomInv'
  <1>1. PICK n \in Nat : /\ created \in Seq(Types) /\ Len(created) = n + 1
                         /\ UNCHANGED <<bind_map, init_list>>
                         /\ created' = SubSeq(created, 1, n)
                         /\ destroyed' = destroyed \cup {created[n + 1]}
    <2>1. /\ created \in Seq(Types) /\ created # <<>>
          /\ UNCHANGED <<bind_map, init_list>>
          /\ created' = SubSeq(created, 1, Len(created) - 1)
          /\ destroyed' = destroyed \cup {created[Len(created)]}
      BY DEF LifeInv, LifeTypeOK, CleanupYoungest, table_vars
    <2>2. PICK n \in Nat : Len(created) = n + 1 /\ Len(created) - 1 = n
      BY <2>1
    <2> QED  BY <2>1, <2>2
  <1>2. /\ Len(created') = n /\ \A i \in 1..n : created'[i] = created[i]
        /\ n + 1 \in 1..Len(created)
    BY <1>1
  <1>3. Created' \subseteq Created /\ created[n + 1] \in Created
    BY <1>1, <1>2 DEF Created
  <1>4. FoundByKey' /\ Registered'
    BY <1>1 DEF RoomInv, FoundByKey, Registered, Bound, FindEntry
  <1>5. \A j \in (Created \cup destroyed)' : Bound(j, "scope")'
    BY <1>1, <1>3 DEF RoomInv, OneEach, Bound, FindEntry
  <1>6. \A i, j \in 1..Len(created') : created'[i] = created'[j] => i = j
    BY <1>1, <1>2 DEF RoomInv, OneEach
  <1>7. created[n + 1] \notin Created'
    <2> SUFFICES ASSUME NEW i \in 1..n, created[i] = created[n + 1]  PROVE FALSE
      BY <1>2 DEF Created
    <2>1. i \in 1..Len(created) /\ i # n + 1
      BY <1>1
    <2> QED  BY <1>2, <2>1 DEF RoomInv, OneEach
  <1>8. Created' \cap destroyed' = {}
    BY <1>1, <1>3, <1>7 DEF RoomInv, OneEach
  <1> QED  BY <1>4, <1>5, <1>6, <1>8 DEF RoomInv, OneEach

LEMMA RoomStepHolds == LifeInv /\ RoomInv /\ [LifeNext]_life_vars => RoomInv'
  <1> SUFFICES ASSUME LifeInv, RoomInv, [LifeNext]_life_vars  PROVE RoomInv'
    OBVIOUS
  <1>0. /\ cleanup_list \in Seq(Entries) /\ Types \subseteq TypeIds /\ MaxCalls \in Nat
        /\ Len(cleanup_list) \in Nat
    BY LifeAssumption DEF LifeInv, TableInv, TableTypeOK
  <1>1. CASE BindContext
    <2>1. ContextEntry \in Entries /\ ContextEntry.kind # "scope" /\ ContextEntry.key = Context
          /\ Context \in TypeIds
      BY <1>0, LifeAssumption DEF ContextEntry, AllEntries, Kinds
    <2> QED
      BY <1>1, <2>1, BindingKeepsRoom DEF BindContext, singleton_vars
  <1>2. ASSUME NEW k \in Types, BindToInstance(k)
        PROVE  RoomInv'
    <2>1. /\ Entry("instance", k) \in Entries /\ Entry("instance", k).kind # "scope"
          /\ Entry("instance", k).key = k /\ k \in TypeIds
      BY <1>0, <1>2, NewEntry DEF Entry, Kinds, BindToInstance, Configuring
    <2> QED
      BY <1>2, <2>1, BindingKeepsRoom DEF BindToInstance, singleton_vars
  <1>3. ASSUME NEW k \in Types, BindToScope(k)
        PROVE  RoomInv'
    <2>1. Entry("scope", k) \in Entries /\ Entry("scope", k).key = k /\ k \in TypeIds
      BY <1>0, <1>3, NewEntry DEF Entry, Kinds, BindToScope, Configuring
    <2> QED
      BY <1>3, <2>1, BindingKeepsRoom DEF BindToScope, singleton_vars
  <1>4. CASE AddCleanupAction \/ FinishCreate
    BY <1>4, StutterKeepsRoom
    DEF AddCleanupAction, FinishCreate, AddCleanupOnly, table_vars, singleton_vars
  <1>5. ASSUME NEW how, Stop(how)
        PROVE  RoomInv'
    BY <1>5, StutterKeepsRoom DEF Stop, table_vars, singleton_vars
  <1>6. CASE BindToScopeWithoutContext \/ RefuseCreate \/ ProviderNotEmpty
    BY <1>5, <1>6 DEF BindToScopeWithoutContext, RefuseCreate, ProviderNotEmpty
  <1>7. ASSUME NEW k \in Types, Get(k) \/ GetUnbound(k)
        PROVE  RoomInv'
    BY <1>5, <1>7, CreateKeepsRoom DEF Get, GetUnbound
  <1>8. CASE CallbackStep
    <2> SUFFICES ASSUME NEW k \in Types,
                        \/ CallbackGet(k) \/ CallbackUnbound(k)
                        \/ CallbackReadsDeleted(k) \/ DestructorGet(k)
                 PROVE  RoomInv'
      BY <1>8, LifeAssumption DEF CallbackStep
    <2> QED
      BY <1>5, CreateKeepsRoom DEF CallbackGet, CallbackUnbound, CallbackReadsDeleted, DestructorGet
  <1>9. CASE CleanupYoungest
    BY <1>9, CleanupKeepsRoom
  <1>10. CASE DeleteInjector \/ DestroyEntry \/ EndInjector
    BY <1>10, StutterKeepsRoom
    DEF DeleteInjector, DestroyEntry, EndInjector, BeginDelete, DeleteEntry, EndDelete,
        singleton_vars
  <1>11. CASE UNCHANGED life_vars
    BY <1>11, StutterKeepsRoom DEF life_vars, table_vars, singleton_vars
  <1> QED
    BY <1>1, <1>2, <1>3, <1>4, <1>6, <1>7, <1>8, <1>9, <1>10, <1>11
    DEF LifeNext, DeletionStep

\* Instances are told apart by their providers' places in the context's list.
LEMMA EachHasItsPlace ==
    ASSUME LifeInv, RoomInv
    PROVE  Len(created) + Cardinality(destroyed) <= Len(init_list)
  <1>0. /\ created \in Seq(Types) /\ destroyed \subseteq Types /\ IsFiniteSet(Types)
        /\ Len(created) \in Nat /\ Len(init_list) \in Nat /\ Types \subseteq TypeIds
        /\ Created \subseteq Types
    BY LifeAssumption DEF LifeInv, LifeTypeOK, Created
  <1>1. /\ IsFiniteSet(1..Len(created)) /\ Cardinality(1..Len(created)) = Len(created)
        /\ IsFiniteSet(1..Len(init_list)) /\ Cardinality(1..Len(init_list)) = Len(init_list)
    <2>1. 1 \in Int /\ Len(created) \in Int /\ Len(init_list) \in Int
      BY <1>0
    <2>2. /\ IsFiniteSet(1..Len(created))
          /\ Cardinality(1..Len(created)) = IF 1 > Len(created) THEN 0 ELSE Len(created) - 1 + 1
      BY <2>1, FS_Interval
    <2>3. /\ IsFiniteSet(1..Len(init_list))
          /\ Cardinality(1..Len(init_list)) =
               IF 1 > Len(init_list) THEN 0 ELSE Len(init_list) - 1 + 1
      BY <2>1, FS_Interval
    <2> QED  BY <1>0, <2>2, <2>3
  <1>2. IsFiniteSet(Created) /\ Cardinality(Created) = Len(created)
    <2>1. created \in Bijection(1..Len(created), Created)
      BY <1>0 DEF RoomInv, OneEach, Created, Bijection, Injection, Surjection, IsInjective
    <2> QED  BY <1>1, <2>1, FS_Bijection DEF ExistsBijection
  <1>3. IsFiniteSet(destroyed)
    BY <1>0, FS_Subset
  <1> DEFINE all == Created \cup destroyed
             place == [k \in all |-> CHOOSE i \in 1..Len(init_list) : init_list[i] = FindEntry(k)]
  <1>4. Cardinality(all) = Len(created) + Cardinality(destroyed)
    <2>1. Created \cap destroyed = {} /\ Cardinality(Created \cap destroyed) = 0
      BY FS_EmptySet DEF RoomInv, OneEach
    <2>2. Cardinality(all) = Cardinality(Created) + Cardinality(destroyed)
                             - Cardinality(Created \cap destroyed)
      BY <1>2, <1>3, FS_Union
    <2>3. Cardinality(destroyed) \in Nat
      BY <1>3, FS_CardinalityType
    <2> QED  BY <1>0, <1>2, <2>1, <2>2, <2>3
  <1>5. \A k \in all : place[k] \in 1..Len(init_list) /\ init_list[place[k]] = FindEntry(k)
    <2> SUFFICES ASSUME NEW k \in all
                 PROVE  place[k] \in 1..Len(init_list) /\ init_list[place[k]] = FindEntry(k)
      OBVIOUS
    <2>1. \E i \in 1..Len(init_list) : init_list[i] = FindEntry(k)
      BY <1>0 DEF RoomInv, OneEach, Registered
    <2> QED  BY <2>1
  <1>6. \A k \in all : FindEntry(k).key = k
    BY <1>0 DEF RoomInv, OneEach, FoundByKey, Bound
  <1>7. place \in Injection(all, 1..Len(init_list))
    <2>1. place \in [all -> 1..Len(init_list)]
      BY <1>5
    <2>2. \A j \in all, k \in all : place[j] = place[k] => j = k
      <3> HIDE DEF place
      <3> QED  BY <1>5, <1>6
    <2> HIDE DEF place
    <2> QED  BY <2>1, <2>2 DEF Injection, IsInjective
  <1>8. Cardinality(all) <= Len(init_list)
    <2> HIDE DEF place, all
    <2> QED  BY <1>1, <1>7, FS_Injection
  <1> QED  BY <1>4, <1>8

\* The array sized once by the number of providers has room for every instance
\* that requests and callbacks ever make: each belongs to a provider that has
\* registered, and a provider makes one (ScopeSetupContext::AddToCleanupList).
THEOREM RoomIsEnough == LifeSpec => []RoomForEveryInstance
  <1>1. LifeInit => RoomInv
    BY LifeAssumption DEF LifeInit, TableInit, RoomInv, FoundByKey, Registered, OneEach, Created,
                          Bound, FindEntry
  <1>2. LifeInv /\ RoomInv /\ [LifeNext]_life_vars => RoomInv'
    BY RoomStepHolds
  <1>3. LifeInv /\ RoomInv => RoomForEveryInstance
    BY EachHasItsPlace DEF RoomInv, Registered, RoomForEveryInstance
  <1> QED  BY <1>1, <1>2, <1>3, LifeInvariant, PTL DEF LifeSpec
=============================================================================
