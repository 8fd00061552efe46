------------------------------- MODULE ListWalk -------------------------------
(***************************************************************************)
(* thread_start (thread.c c10) ASSERTs !elem_find(&thread_ready_list, ...) *)
(* before it appends the new thread's tag.  elem_find does not mask        *)
(* interrupts, so its walk (list.c 63-73) is one pointer read per step,    *)
(* and between two reads the timer may run schedule (list_pop, then        *)
(* list_append of the current thread) and other threads may push, append   *)
(* or remove, each of those masked and so one step of LinkedList.  The     *)
(* walker can stand on an element that has since been removed, and        *)
(* follows its stale next.                                                 *)
(***************************************************************************)
EXTENDS LinkedList

VARIABLES
    spc,  \* where thread_start is: "idle", "find", "append" or "panic"
    cur,  \* elem_find's local elem
    obj   \* the new thread's general_tag, NULL when idle

wvars == <<spc, cur, obj>>
vars == <<lvars, wvars>>

\* A tag in a page just zeroed by init_thread: never on any list.
Fresh(e) == next[e] = NULL /\ prev[e] = NULL

WalkInit == ListInit /\ spc = "idle" /\ cur = NULL /\ obj = NULL

\* thread_start with a fresh task_struct enters elem_find, which reads
\* plist->head.next.
FindBegin ==
    /\ spc = "idle"
    /\ \E e \in Elems :
          /\ Fresh(e)
          /\ obj' = e
          /\ cur' = next[head]
          /\ spc' = "find"
    /\ UNCHANGED lvars

\* One iteration of the while loop: elem is neither &tail nor obj_elem,
\* so elem = elem->next.
FindStep ==
    /\ spc = "find"
    /\ cur \in Nodes \ {tail, obj}
    /\ cur' = next[cur]
    /\ UNCHANGED <<lvars, spc, obj>>

\* The loop ends: at &tail elem_find returns false and thread_start goes
\* on to list_append; at obj_elem it returns true and the ASSERT panics.
FindEnd ==
    /\ spc = "find"
    /\ cur \in {tail, obj}
    /\ spc' = IF cur = obj THEN "panic" ELSE "append"
    /\ UNCHANGED <<lvars, cur, obj>>

\* list_append(&thread_ready_list, &thread->general_tag), masked.
StartAppend ==
    /\ spc = "append"
    /\ InsertBefore(tail, obj)
    /\ spc' = "idle"
    /\ cur' = NULL
    /\ obj' = NULL

\* Any other thread, or the timer's schedule, on the same list.
Others == ListNextExcept({obj}) /\ UNCHANGED wvars

WalkNext == FindBegin \/ FindStep \/ FindEnd \/ StartAppend \/ Others

WalkSpec == WalkInit /\ [][WalkNext]_vars
=============================================================================
