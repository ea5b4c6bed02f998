----------------------------- MODULE OwnerStack -----------------------------
(***************************************************************************)
(* What an owner of heap objects promises in this library, whatever the    *)
(* objects are: it adopts objects one by one, and once it starts to let    *)
(* them go it deletes them youngest first, each exactly once, and adopts   *)
(* nothing any more.                                                       *)
(*                                                                         *)
(* Two components implement it: the bind table, which owns the table       *)
(* entries (BindTable.tla), and the scope context, which owns the          *)
(* singleton instances (LazySingleton.tla).                                *)
(***************************************************************************)
EXTENDS Naturals, Sequences

CONSTANT Objects

VARIABLES
    owned,     \* the objects held, oldest first
    released   \* the objects deleted so far

vars == <<owned, released>>

\* Type invariant of an owner.
TypeOK ==
    /\ owned \in Seq(Objects)
    /\ released \subseteq Objects

Init ==
    /\ owned = <<>>
    /\ released = {}

Adopt(o) ==
    /\ released = {}
    /\ \A i \in DOMAIN owned : owned[i] # o
    /\ owned' = Append(owned, o)
    /\ UNCHANGED released

ReleaseYoungest ==
    /\ owned # <<>>
    /\ owned' = SubSeq(owned, 1, Len(owned) - 1)
    /\ released' = released \cup {owned[Len(owned)]}

Next ==
    \/ \E o \in Objects : Adopt(o)
    \/ ReleaseYoungest

Spec == Init /\ [][Next]_vars
=============================================================================
