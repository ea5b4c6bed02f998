--------------------------- MODULE BindTableProofs ---------------------------
(***************************************************************************)
(* Theorems about BindTable, for any set of type ids and entries. The      *)
(* inductive invariant says what ties the map and the list together: the   *)
(* list holds every entry the table was handed and holds none twice,       *)
(* everything bound is in the list, and what has been deleted is exactly   *)
(* the part of the list that the destructor's iterator has passed.         *)
(***************************************************************************)
EXTENDS BindTable, TLAPS, SequenceTheorems

NoEntryTwice ==
    \A i, j \in 1..Len(cleanup_list) :
      cleanup_list[i] = cleanup_list[j] => i = j

BoundIsOwned ==
    /\ \A tid \in TypeIds : bind_map[tid] # NULL => bind_map[tid] \in Owned
    /\ \A t1, t2 \in TypeIds :
         bind_map[t1] # NULL /\ bind_map[t1] = bind_map[t2] => t1 = t2

FreedIsPassed ==
    /\ phase = "open" => freed = {}
    /\ phase # "open" =>
         freed = {cleanup_list[i] : i \in (riter + 1)..Len(cleanup_list)}
    /\ phase = "gone" => riter = 0

AllHandedOverIsOwned == handed_over = Owned

TableInv ==
    /\ TableTypeOK
    /\ AllHandedOverIsOwned
    /\ NoEntryTwice
    /\ BoundIsOwned
    /\ FreedIsPassed

-----------------------------------------------------------------------------

\* Appending to the list makes the new entry, and nothing else, owned.
LEMMA AppendOwns ==
    ASSUME NEW s \in Seq(Entries), NEW e \in Entries
    PROVE  /\ Append(s, e) \in Seq(Entries)
           /\ Len(Append(s, e)) = Len(s) + 1
           /\ \A i \in 1..Len(s) : Append(s, e)[i] = s[i]
           /\ Append(s, e)[Len(s) + 1] = e
  OBVIOUS

\* An empty table (BindTable::BindTable) satisfies the invariant.
LEMMA InitHolds == TableInit => TableInv
  BY NullAssumption
  DEF TableInit, TableInv, TableTypeOK, NoEntryTwice, BoundIsOwned,
      AllHandedOverIsOwned, FreedIsPassed, Owned, Phases

\* An entry handed to an open table keeps list and ownership consistent,
\* whether or not it is entered in the map.
LEMMA ListGrows ==
    ASSUME TableInv, NEW e \in Entries, HandOver(e), AddToCleanupList(e)
    PROVE  /\ cleanup_list' \in Seq(Entries)
           /\ riter' \in 0..Len(cleanup_list')
           /\ NoEntryTwice'
           /\ FreedIsPassed'
           /\ AllHandedOverIsOwned'
           /\ Owned' = Owned \cup {e}
           /\ e \notin Owned
  <1> USE DEF TableInv, TableTypeOK, AddToCleanupList
  <1>1. /\ cleanup_list' \in Seq(Entries)
        /\ Len(cleanup_list') = Len(cleanup_list) + 1
        /\ \A i \in 1..Len(cleanup_list) : cleanup_list'[i] = cleanup_list[i]
        /\ cleanup_list'[Len(cleanup_list) + 1] = e
    BY AppendOwns
  <1>2. riter' \in 0..Len(cleanup_list')
    BY <1>1
  <1>3. e \notin Owned
    BY DEF HandOver, AllHandedOverIsOwned
  <1>4. \A i \in 1..Len(cleanup_list) : cleanup_list[i] # e
    BY <1>3 DEF Owned
  <1>5. NoEntryTwice'
    <2> SUFFICES ASSUME NEW i \in 1..Len(cleanup_list'),
                        NEW j \in 1..Len(cleanup_list'),
                        cleanup_list'[i] = cleanup_list'[j]
                 PROVE  i = j
      BY DEF NoEntryTwice
    <2>1. Len(cleanup_list) \in Nat
      OBVIOUS
    <2>2. CASE i \in 1..Len(cleanup_list) /\ j \in 1..Len(cleanup_list)
      BY <2>2, <1>1 DEF NoEntryTwice
    <2>3. CASE i = Len(cleanup_list) + 1 \/ j = Len(cleanup_list) + 1
      BY <2>1, <2>3, <1>1, <1>4
    <2> QED  BY <2>1, <2>2, <2>3, <1>1
  <1>6. FreedIsPassed'
    BY DEF FreedIsPassed
  <1>7. Owned' = Owned \cup {e}
    <2>1. Len(cleanup_list) \in Nat
      OBVIOUS
    <2>2. 1..Len(cleanup_list') = (1..Len(cleanup_list)) \cup {Len(cleanup_list) + 1}
      BY <2>1, <1>1
    <2> QED  BY <2>2, <1>1 DEF Owned
  <1>8. AllHandedOverIsOwned'
    BY <1>7 DEF HandOver, AllHandedOverIsOwned
  <1> QED  BY <1>1, <1>2, <1>3, <1>5, <1>6, <1>7, <1>8

\* AddEntry(), AddToCleanupList() and every step of ~BindTable keep it.
LEMMA StepHolds == TableInv /\ [TableNext]_table_vars => TableInv'
  <1> SUFFICES ASSUME TableInv, [TableNext]_table_vars
               PROVE  TableInv'
    OBVIOUS
  <1>1. ASSUME NEW tid \in TypeIds, NEW e \in Entries, AddEntry(tid, e)
        PROVE  TableInv'
    <2>1. HandOver(e) /\ AddToCleanupList(e) /\ Insert(tid, e)
      BY <1>1 DEF AddEntry
    <2>2. /\ cleanup_list' \in Seq(Entries)
          /\ riter' \in 0..Len(cleanup_list')
          /\ NoEntryTwice' /\ FreedIsPassed' /\ AllHandedOverIsOwned'
          /\ Owned' = Owned \cup {e} /\ e \notin Owned
      BY <2>1, ListGrows
    <2>3. TableTypeOK'
      BY <2>1, <2>2 DEF TableInv, TableTypeOK, HandOver, AddToCleanupList, Insert
    <2>4. BoundIsOwned'
      <3>1. e # NULL
        BY NullAssumption
      <3>2. CASE bind_map[tid] = NULL
        BY <2>1, <2>2, <3>1, <3>2
        DEF TableInv, TableTypeOK, BoundIsOwned, Insert, FindEntry
      <3>3. CASE bind_map[tid] # NULL
        BY <2>1, <2>2, <3>3 DEF TableInv, BoundIsOwned, Insert, FindEntry
      <3> QED  BY <3>2, <3>3
    <2> QED  BY <2>2, <2>3, <2>4 DEF TableInv
  <1>2. ASSUME NEW e \in Entries, AddCleanupOnly(e)
        PROVE  TableInv'
    <2>1. HandOver(e) /\ AddToCleanupList(e) /\ UNCHANGED bind_map
      BY <1>2 DEF AddCleanupOnly
    <2>2. /\ cleanup_list' \in Seq(Entries)
          /\ riter' \in 0..Len(cleanup_list')
          /\ NoEntryTwice' /\ FreedIsPassed' /\ AllHandedOverIsOwned'
          /\ Owned' = Owned \cup {e} /\ e \notin Owned
      BY <2>1, ListGrows
    <2>3. TableTypeOK' /\ BoundIsOwned'
      BY <2>1, <2>2 DEF TableInv, TableTypeOK, BoundIsOwned, HandOver,
                        AddToCleanupList
    <2> QED  BY <2>2, <2>3 DEF TableInv
  <1>3. CASE BeginDelete
    <2>1. /\ TableTypeOK' /\ NoEntryTwice' /\ BoundIsOwned'
          /\ AllHandedOverIsOwned'
      BY <1>3 DEF TableInv, TableTypeOK, NoEntryTwice, BoundIsOwned, AllHandedOverIsOwned, Owned,
                  BeginDelete, Phases
    <2>2. FreedIsPassed'
      BY <1>3 DEF TableInv, TableTypeOK, FreedIsPassed, BeginDelete
    <2> QED  BY <2>1, <2>2 DEF TableInv
  <1>4. CASE DeleteEntry
    <2>1. riter \in 1..Len(cleanup_list) /\ Len(cleanup_list) \in Nat
      BY <1>4 DEF TableInv, TableTypeOK, DeleteEntry
    <2>2. /\ TableTypeOK' /\ NoEntryTwice' /\ BoundIsOwned'
          /\ AllHandedOverIsOwned'
      BY <1>4, <2>1 DEF TableInv, TableTypeOK, NoEntryTwice, BoundIsOwned, AllHandedOverIsOwned,
                        Owned, DeleteEntry
    <2>3. (riter' + 1)..Len(cleanup_list) = ((riter + 1)..Len(cleanup_list)) \cup {riter}
      BY <1>4, <2>1 DEF DeleteEntry
    <2>4. FreedIsPassed'
      BY <1>4, <2>3 DEF TableInv, FreedIsPassed, DeleteEntry
    <2> QED  BY <2>2, <2>4 DEF TableInv
  <1>5. CASE EndDelete
    BY <1>5 DEF TableInv, TableTypeOK, NoEntryTwice, BoundIsOwned, AllHandedOverIsOwned, Owned,
                FreedIsPassed, EndDelete, Phases
  <1>6. CASE UNCHANGED table_vars
    BY <1>6 DEF TableInv, TableTypeOK, NoEntryTwice, BoundIsOwned, AllHandedOverIsOwned, Owned,
                FreedIsPassed, table_vars
  <1> QED  BY <1>1, <1>2, <1>3, <1>4, <1>5, <1>6 DEF TableNext

\* The invariant holds of every table: the reason for every theorem below.
THEOREM TableInvariant == TableSpec => []TableInv
  <1>1. TableInit => TableInv
    BY InitHolds
  <1>2. TableInv /\ [TableNext]_table_vars => TableInv'
    BY StepHolds
  <1> QED  BY <1>1, <1>2, PTL DEF TableSpec

\* Type correctness of the bind table.
THEOREM TableTypeCorrect == TableSpec => []TableTypeOK
  <1>1. TableInv => TableTypeOK
    BY DEF TableInv
  <1> QED  BY <1>1, TableInvariant, PTL

\* No lookup reaches an entry the table does not own or has deleted, and no
\* entry answers for two type ids.
THEOREM LookupsSafe == TableSpec => []LookupsReachOwnedEntries
  <1>1. TableInv => LookupsReachOwnedEntries
    BY DEF TableInv, BoundIsOwned, FreedIsPassed, LookupsReachOwnedEntries, FindEntry
  <1> QED  BY <1>1, TableInvariant, PTL

\* The destructor deletes everything the table was handed.
THEOREM TableLeaksNothing == TableSpec => []NothingLeaks
  <1>1. TableInv => NothingLeaks
    <2> SUFFICES ASSUME TableInv, phase = "gone"
                 PROVE  freed = handed_over
      BY DEF NothingLeaks
    <2>1. freed = {cleanup_list[i] : i \in (riter + 1)..Len(cleanup_list)} /\ riter = 0
      BY DEF TableInv, FreedIsPassed
    <2> QED  BY <2>1 DEF Owned, TableInv, AllHandedOverIsOwned
  <1> QED  BY <1>1, TableInvariant, PTL

\* A binding is never replaced.
THEOREM BindingsAreFinal == TableSpec => FirstBindingWins
  <1>1. TableInv /\ [TableNext]_table_vars =>
          [\A tid \in TypeIds :
             FindEntry(tid) # NULL => bind_map'[tid] = FindEntry(tid)]_table_vars
    <2> SUFFICES ASSUME TableInv, TableNext, NEW tid \in TypeIds, FindEntry(tid) # NULL
                 PROVE  bind_map'[tid] = bind_map[tid]
      BY DEF FindEntry
    <2>1. ASSUME NEW t \in TypeIds, NEW e \in Entries, AddEntry(t, e)
          PROVE  bind_map'[tid] = bind_map[tid]
      BY <2>1 DEF AddEntry, Insert, FindEntry, TableInv, TableTypeOK
    <2>2. CASE \E e \in Entries : AddCleanupOnly(e)
      BY <2>2 DEF AddCleanupOnly
    <2>3. CASE BeginDelete \/ DeleteEntry \/ EndDelete
      BY <2>3 DEF BeginDelete, DeleteEntry, EndDelete
    <2> QED  BY <2>1, <2>2, <2>3 DEF TableNext
  <1> QED  BY <1>1, TableInvariant, PTL DEF TableSpec, FirstBindingWins

-----------------------------------------------------------------------------
(* The table implements OwnerStack: adding an entry adopts it, deleting one *)
(* releases the youngest, everything else is a stuttering step.             *)

\* Stepping the reverse iterator takes the last entry off what is still owned.
LEMMA DropLast ==
    ASSUME NEW s \in Seq(Entries), NEW r \in 1..Len(s)
    PROVE  /\ SubSeq(s, 1, r) # <<>>
           /\ Len(SubSeq(s, 1, r)) = r
           /\ SubSeq(s, 1, r)[r] = s[r]
           /\ SubSeq(SubSeq(s, 1, r), 1, r - 1) = SubSeq(s, 1, r - 1)
  <1>0. r \in Nat /\ r >= 1 /\ Len(s) \in Nat /\ r <= Len(s)
    OBVIOUS
  <1>1. SubSeq(s, 1, r) \in Seq(Entries) /\ Len(SubSeq(s, 1, r)) = r
    BY <1>0
  <1>2. \A k \in 1..r : SubSeq(s, 1, r)[k] = s[k]
    BY <1>0
  <1>3. SubSeq(SubSeq(s, 1, r), 1, r - 1) = SubSeq(s, 1, r - 1)
    <2> DEFINE a == SubSeq(SubSeq(s, 1, r), 1, r - 1)
               b == SubSeq(s, 1, r - 1)
    <2>1. a \in Seq(Entries) /\ Len(a) = r - 1
      BY <1>0, <1>1, <1>2
    <2>2. b \in Seq(Entries) /\ Len(b) = r - 1
      BY <1>0
    <2>3. \A k \in 1..(r - 1) : a[k] = b[k]
      BY <1>0, <1>1, <1>2
    <2> HIDE DEF a, b
    <2>4. a = b
      BY <2>1, <2>2, <2>3, SeqEqual
    <2> QED  BY <2>4 DEF a, b
  <1> QED  BY <1>0, <1>1, <1>2, <1>3

\* The refinement, for every set of type ids and entries.
THEOREM TableImplementsOwner == TableSpec => ImplementsOwner
  <1>1. TableInit => Owner!Init
    BY DEF TableInit, Owner!Init
  <1>2. TableInv /\ TableInv' /\ [TableNext]_table_vars => [Owner!Next]_(Owner!vars)
    <2> SUFFICES ASSUME TableInv, TableInv', [TableNext]_table_vars
                 PROVE  [Owner!Next]_(Owner!vars)
      OBVIOUS
    <2> USE DEF Owner!vars
    <2>1. ASSUME NEW e \in Entries, HandOver(e), AddToCleanupList(e)
          PROVE  Owner!Adopt(e)
      <3>1. phase = "open" /\ phase' = "open" /\ freed = {} /\ freed' = freed
        BY <2>1 DEF AddToCleanupList, TableInv, FreedIsPassed
      <3>2. \A i \in 1..Len(cleanup_list) : cleanup_list[i] # e
        BY <2>1 DEF HandOver, TableInv, AllHandedOverIsOwned, Owned
      <3>3. DOMAIN cleanup_list = 1..Len(cleanup_list)
        BY DEF TableInv, TableTypeOK
      <3> QED  BY <2>1, <3>1, <3>2, <3>3 DEF AddToCleanupList, Owner!Adopt
    <2>2. CASE \E tid \in TypeIds, e \in Entries : AddEntry(tid, e)
      BY <2>1, <2>2 DEF AddEntry, Owner!Next
    <2>3. CASE \E e \in Entries : AddCleanupOnly(e)
      BY <2>1, <2>3 DEF AddCleanupOnly, Owner!Next
    <2>4. CASE BeginDelete
      <3>1. SubSeq(cleanup_list, 1, Len(cleanup_list)) = cleanup_list
        BY SubSeqFull DEF TableInv, TableTypeOK
      <3> QED  BY <2>4, <3>1 DEF BeginDelete
    <2>5. CASE DeleteEntry
      <3>1. riter \in 1..Len(cleanup_list) /\ cleanup_list \in Seq(Entries)
        BY <2>5 DEF DeleteEntry, TableInv, TableTypeOK
      <3>2. /\ SubSeq(cleanup_list, 1, riter) # <<>>
            /\ Len(SubSeq(cleanup_list, 1, riter)) = riter
            /\ SubSeq(cleanup_list, 1, riter)[riter] = cleanup_list[riter]
            /\ SubSeq(SubSeq(cleanup_list, 1, riter), 1, riter - 1)
                 = SubSeq(cleanup_list, 1, riter - 1)
        BY <3>1, DropLast
      <3>3. Owner!ReleaseYoungest
        BY <2>5, <3>2 DEF DeleteEntry, Owner!ReleaseYoungest
      <3> QED  BY <3>3 DEF Owner!Next
    <2>6. CASE EndDelete
      BY <2>6 DEF EndDelete
    <2>7. CASE UNCHANGED table_vars
      BY <2>7 DEF table_vars
    <2> QED  BY <2>2, <2>3, <2>4, <2>5, <2>6, <2>7 DEF TableNext
  <1> QED
    BY <1>1, <1>2, TableInvariant, PTL DEF TableSpec, ImplementsOwner, Owner!Spec
=============================================================================
