----------------------------- MODULE MCLinkedList -----------------------------
(***************************************************************************)
(* LinkedList with three elements: every order of every subset, and every *)
(* stale prev/next a removed element can keep, with thread_start's         *)
(* unmasked elem_find walking it meanwhile (ListWalk).                     *)
(***************************************************************************)
EXTENDS ListWalk

(* The list stays well linked: following next from head visits distinct    *)
(* elements and arrives at tail, and every element's prev is the one whose *)
(* next points to it.  list_insert_before writes four pointers and         *)
(* list_remove two; a missed or misordered write breaks this only after    *)
(* a later operation walks through the stale pointer.                      *)
WellLinked ==
    LET s == <<head>> \o AbsSeq \o <<tail>>
    IN  /\ IsInjective(AbsSeq)
        /\ \A i \in 1 .. Len(s) - 1 : next[s[i]] = s[i + 1] /\ prev[s[i + 1]] = s[i]

(* list.c implements its interface: the sequence read from head.next to    *)
(* tail changes exactly as pushing at the front, appending, removing a     *)
(* member or popping the first element of a sequence would.                *)
RefinesListSeq == Abstract!SeqSpec

\* next can still lead from x to &tail within fuel steps.
RECURSIVE ReachesTail(_, _)
ReachesTail(x, fuel) ==
    \/ x = tail
    \/ x \in Nodes /\ fuel > 0 /\ ReachesTail(next[x], fuel - 1)

(* thread_start's elem_find is safe against the list changing under it:    *)
(* wherever the walk stands, even on an element that was popped, moved to  *)
(* the back or removed since it was read, following next leads to &tail   *)
(* without passing the new thread's own tag.  So the walk never reads a    *)
(* NULL next, never cycles, and the ASSERT never fires on a tag that is    *)
(* not on the list.  This rests on list_remove leaving the removed         *)
(* element's prev and next as they were.                                   *)
StaleWalkReachesTail ==
    /\ spc = "find" => ReachesTail(cur, Fuel) /\ cur # obj
    /\ spc # "panic"
=============================================================================
