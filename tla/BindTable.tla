------------------------------ MODULE BindTable ------------------------------
(***************************************************************************)
(* internal::BindTable: the map from type ids to table entries that an     *)
(* injector looks types up in, and the list through which it owns them.    *)
(*                                                                         *)
(* The map and the list are two views of the same entries that can drift   *)
(* apart: a duplicate binding is refused by the map but kept by the list,  *)
(* and a cleanup action is only ever in the list. Entries are opaque here; *)
(* what their destructors do is the subject of InjectorLife.tla.           *)
(***************************************************************************)
EXTENDS Naturals, Sequences

CONSTANTS
    TypeIds,   \* the keys a module may bind
    Entries,   \* the TableEntryBase objects that can be allocated
    NULL       \* the null entry pointer

ASSUME NullAssumption == NULL \notin Entries

VARIABLES
    bind_map,      \* bind_map_: NULL where the std::map has no element
    cleanup_list,  \* cleanup_list_
    riter,         \* entries the destructor's reverse iterator has yet to visit
    phase,         \* lifetime of the table object
    handed_over,   \* entries that AddEntry or AddToCleanupList was called with
    freed          \* entries whose destructor has run

table_vars == <<bind_map, cleanup_list, riter, phase, handed_over, freed>>

Phases == {"open", "deleting", "gone"}

\* Every entry in the table's list.
Owned == {cleanup_list[i] : i \in 1..Len(cleanup_list)}

\* Type invariant: the destructor's iterator (~BindTable) stays inside the list.
TableTypeOK ==
    /\ bind_map \in [TypeIds -> Entries \cup {NULL}]
    /\ cleanup_list \in Seq(Entries)
    /\ riter \in 0..Len(cleanup_list)
    /\ phase \in Phases
    /\ handed_over \subseteq Entries
    /\ freed \subseteq Entries

-----------------------------------------------------------------------------

TableInit ==
    /\ bind_map = [tid \in TypeIds |-> NULL]
    /\ cleanup_list = <<>>
    /\ riter = 0
    /\ phase = "open"
    /\ handed_over = {}
    /\ freed = {}

FindEntry(bindId) == bind_map[bindId]

\* The caller has just allocated the entry, and from now on it is the table
\* that must delete it.
HandOver(entry) ==
    /\ entry \notin handed_over
    /\ handed_over' = handed_over \cup {entry}

AddToCleanupList(entry) ==
    /\ phase = "open"
    /\ cleanup_list' = Append(cleanup_list, entry)
    /\ UNCHANGED <<riter, phase, freed>>

\* Mutant of Insert: operator[] in the place of insert().
Insert_Overwrites(bindId, entry) ==
    bind_map' = [bind_map EXCEPT ![bindId] = entry]

\* std::map::insert: an element that is already there is left as it is.
Insert(bindId, entry) ==
    bind_map' = IF FindEntry(bindId) = NULL
                THEN [bind_map EXCEPT ![bindId] = entry]
                ELSE bind_map

\* What AddEntry returns: whether the insertion took place.
Inserted(bindId) == FindEntry(bindId) = NULL

\* Mutant of AddEntry: the test around the list is the wrong way round.
AddEntry_OwnsOnlyRefused(bindId, entry) ==
    /\ HandOver(entry)
    /\ IF Inserted(bindId)
       THEN phase = "open" /\ UNCHANGED <<cleanup_list, riter, phase, freed>>
       ELSE AddToCleanupList(entry)
    /\ Insert(bindId, entry)

AddEntry(bindId, entry) ==
    /\ HandOver(entry)
    /\ AddToCleanupList(entry)
    /\ Insert(bindId, entry)

\* An entry that is never looked up, only deleted with the table.
AddCleanupOnly(entry) ==
    /\ HandOver(entry)
    /\ AddToCleanupList(entry)
    /\ UNCHANGED bind_map

\* ~BindTable starts: riter = cleanup_list_.rbegin().
BeginDelete ==
    /\ phase = "open"
    /\ phase' = "deleting"
    /\ riter' = Len(cleanup_list)
    /\ UNCHANGED <<bind_map, cleanup_list, handed_over, freed>>

\* Mutant of DeleteEntry: begin() to end(), oldest first.
DeleteEntry_Forward ==
    /\ phase = "deleting"
    /\ riter > 0
    /\ freed' = freed \cup {cleanup_list[Len(cleanup_list) - riter + 1]}
    /\ riter' = riter - 1
    /\ UNCHANGED <<bind_map, cleanup_list, phase, handed_over>>

\* delete *riter; ++riter
DeleteEntry ==
    /\ phase = "deleting"
    /\ riter > 0
    /\ freed' = freed \cup {cleanup_list[riter]}
    /\ riter' = riter - 1
    /\ UNCHANGED <<bind_map, cleanup_list, phase, handed_over>>

\* Mutant of EndDelete: the loop stops before the first entry.
EndDelete_OneLeft ==
    /\ phase = "deleting"
    /\ riter <= 1
    /\ phase' = "gone"
    /\ UNCHANGED <<bind_map, cleanup_list, riter, handed_over, freed>>

\* riter = cleanup_list_.rend(): the members are destroyed.
EndDelete ==
    /\ phase = "deleting"
    /\ riter = 0
    /\ phase' = "gone"
    /\ UNCHANGED <<bind_map, cleanup_list, riter, handed_over, freed>>

TableNext ==
    \/ \E tid \in TypeIds, e \in Entries : AddEntry(tid, e)
    \/ \E e \in Entries : AddCleanupOnly(e)
    \/ BeginDelete
    \/ DeleteEntry
    \/ EndDelete

TableSpec == TableInit /\ [][TableNext]_table_vars

-----------------------------------------------------------------------------
(* Properties *)

\* A type id keeps the first entry it was bound to for as long as the table
\* exists: neither a later binding of the same id, which AddEntry refuses, nor
\* anything else redirects a lookup (BindTable::AddEntry, FindEntry).
FirstBindingWins ==
    [][\A tid \in TypeIds :
         FindEntry(tid) # NULL => bind_map'[tid] = FindEntry(tid)]_table_vars

\* No lookup can reach an entry that the table does not own, or, while the
\* table is open, one that was deleted; and no entry serves two type ids.
LookupsReachOwnedEntries ==
    \A tid \in TypeIds :
      FindEntry(tid) # NULL =>
        /\ FindEntry(tid) \in Owned
        /\ phase = "open" => FindEntry(tid) \notin freed
        /\ \A other \in TypeIds \ {tid} : FindEntry(other) # FindEntry(tid)

\* Once the table is gone every entry it was ever handed has been deleted, the
\* refused duplicates and the cleanup-only entries included (~BindTable).
NothingLeaks == phase = "gone" => freed = handed_over

\* The table implements the owner's promise: entries are deleted youngest
\* first, each exactly once (table.h: "All entries are deleted in reverse
\* order of addition").
Owner == INSTANCE OwnerStack WITH
             Objects <- Entries,
             owned <- IF phase = "open" THEN cleanup_list
                      ELSE SubSeq(cleanup_list, 1, riter),
             released <- freed

ImplementsOwner == Owner!Spec
=============================================================================
