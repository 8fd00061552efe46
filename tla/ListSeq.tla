------------------------------- MODULE ListSeq -------------------------------
(***************************************************************************)
(* What lib/kernel/list.c promises its callers: a list is a sequence of    *)
(* distinct elements.  list_push adds at the front, list_append at the     *)
(* back, list_remove takes out any member and list_pop the first one.      *)
(* Inserting a member twice is excluded: every caller ASSERTs !elem_find   *)
(* first (thread.c:94,98,114,125,177).                                     *)
(***************************************************************************)
EXTENDS Sequences, SequencesExt

CONSTANT Elems

VARIABLE seq

SeqInit == seq = <<>>

PushFront(e) == e \notin ToSet(seq) /\ seq' = <<e>> \o seq

PushBack(e) == e \notin ToSet(seq) /\ seq' = Append(seq, e)

Take(e) == e \in ToSet(seq) /\ seq' = Remove(seq, e)

TakeFirst == seq # <<>> /\ seq' = Tail(seq)

SeqNext ==
    \/ \E e \in Elems : PushFront(e) \/ PushBack(e) \/ Take(e)
    \/ TakeFirst

SeqSpec == SeqInit /\ [][SeqNext]_seq
=============================================================================
