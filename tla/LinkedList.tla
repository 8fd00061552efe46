------------------------------ MODULE LinkedList ------------------------------
(***************************************************************************)
(* The intrusive doubly linked list of lib/kernel/list.c (c10), at the     *)
(* level of its pointers.  A list has two sentinel elements, head and      *)
(* tail; prev and next are the fields of every list_elem (the tags         *)
(* embedded in task_structs, and the two sentinels).  list_insert_before   *)
(* and list_remove mask interrupts, so each is one step; list_pop is only  *)
(* called with interrupts off (schedule), so it is one step too.           *)
(***************************************************************************)
EXTENDS Integers, Sequences, SequencesExt

CONSTANTS
    Elems,      \* the list_elems that may be put on the list
    head, tail, \* list->head and list->tail
    NULL

ASSUME {head, tail, NULL} \cap Elems = {}

Nodes == Elems \cup {head, tail}

VARIABLES prev, next

lvars == <<prev, next>>

\* An elem whose task_struct page was zeroed by init_thread's memset.
\* list_init: head.prev = NULL, head.next = &tail, tail.prev = &head,
\* tail.next = NULL.
ListInit ==
    /\ prev = [x \in Nodes |-> IF x = tail THEN head ELSE NULL]
    /\ next = [x \in Nodes |-> IF x = head THEN tail ELSE NULL]

(***************************************************************************)
(* The walks of elem_find, list_len and list_empty.  They follow next from *)
(* head.next until &tail; the fuel argument only stops the recursion on a  *)
(* corrupted list (the C loop would not stop), and is never the reason a   *)
(* walk on a well-linked list ends.                                        *)
(***************************************************************************)
Fuel == Cardinality(Nodes)

RECURSIVE FindFrom(_, _, _)
FindFrom(x, obj, fuel) ==
    IF x = tail \/ x \notin Nodes \/ fuel = 0 THEN FALSE
    ELSE x = obj \/ FindFrom(next[x], obj, fuel - 1)

\* elem_find(plist, obj_elem)
ElemFind(obj) == FindFrom(next[head], obj, Fuel)

RECURSIVE LenFrom(_, _)
LenFrom(x, fuel) ==
    IF x = tail \/ x \notin Nodes \/ fuel = 0 THEN 0
    ELSE 1 + LenFrom(next[x], fuel - 1)

\* list_len(plist)
ListLen == LenFrom(next[head], Fuel)

\* list_empty(plist)
ListEmpty == next[head] = tail

-----------------------------------------------------------------------------
\* Mutant: before->prev is not updated.
InsertBeforeNoBack(before, elem) ==
    /\ next' = [next EXCEPT ![prev[before]] = elem, ![elem] = before]
    /\ prev' = [prev EXCEPT ![elem] = prev[before]]

\* list_insert_before(before, elem): the four pointer writes, in one step
\* because interrupts are off.
InsertBefore(before, elem) ==
    /\ next' = [next EXCEPT ![prev[before]] = elem, ![elem] = before]
    /\ prev' = [prev EXCEPT ![elem] = prev[before], ![before] = elem]

\* Mutant: list_push inserts before the tail.
PushAtTail(e) == InsertBefore(tail, e)

\* list_push: insert before head.next.  The caller has ASSERTed
\* !elem_find (thread_unblock), so e is not on the list.
ListPush(e) == ~ElemFind(e) /\ InsertBefore(next[head], e)

\* list_append: insert before &tail, after the same ASSERT (thread_start,
\* make_main_thread, schedule).
ListAppend(e) == ~ElemFind(e) /\ InsertBefore(tail, e)

\* Mutant: list_remove forgets to fix the successor's prev.
RemoveNoBack(p) == next' = [next EXCEPT ![prev[p]] = next[p]] /\ prev' = prev

\* Mutant: list_remove also clears pelem's prev and next.
UnlinkClearing(p) ==
    /\ next' = [next EXCEPT ![prev[p]] = next[p], ![p] = NULL]
    /\ prev' = [prev EXCEPT ![next[p]] = prev[p], ![p] = NULL]

\* list_remove(pelem): unlink; pelem keeps its stale prev and next.
Unlink(p) ==
    /\ next' = [next EXCEPT ![prev[p]] = next[p]]
    /\ prev' = [prev EXCEPT ![next[p]] = prev[p]]

\* A thread removes an element it knows to be on the list.
ListRemove(p) == ElemFind(p) /\ Unlink(p)

\* list_pop: remove head.next.  schedule ASSERTs !list_empty first.
ListPop == ~ListEmpty /\ Unlink(next[head])

\* The masked list operations of every thread, on any element but those in
\* own (the tag of a thread still inside thread_start belongs to it alone).
ListNextExcept(own) ==
    \/ \E e \in Elems \ own : ListPush(e) \/ ListAppend(e) \/ ListRemove(e)
    \/ ListPop

ListNext == ListNextExcept({})

ListSpec == ListInit /\ [][ListNext]_lvars

-----------------------------------------------------------------------------
\* The sequence of elements from head.next to tail: the refinement mapping.
RECURSIVE SeqFrom(_, _)
SeqFrom(x, fuel) ==
    IF x = tail \/ x \notin Nodes \/ fuel = 0 THEN <<>>
    ELSE <<x>> \o SeqFrom(next[x], fuel - 1)

AbsSeq == SeqFrom(next[head], Fuel)

Abstract == INSTANCE ListSeq WITH seq <- AbsSeq
=============================================================================
