------------------------------ MODULE MCMemory ------------------------------
(***************************************************************************)
(* Memory with an 8-page heap (Len = 1 byte of bitmap) and requests of up  *)
(* to 3 pages, so that the pool fills up within a few calls and the run    *)
(* that crosses the last byte is reachable.  granted is a history variable *)
(* of the heap pages malloc_page has returned to its callers.              *)
(* The page-table mapper (Paging) runs from the same initial state, on     *)
(* its own pool: a mapper step is taken only while no malloc_page call has *)
(* started, and a malloc_page step only while the mapper is untouched, so *)
(* the two state graphs share the initial state and nothing else.          *)
(***************************************************************************)
EXTENDS Memory, Paging

CONSTANTS c1, c2

VARIABLE granted

\* pages of the range caller c holds: reserved, being mapped, not returned
InFlight(c) ==
    IF mpc[c] \in {"palloc", "palloc_scanned"}
    THEN vaddr_start[c] .. vaddr_start[c] + pg_cnt[c] - 1 ELSE {}

TrackGranted ==
    granted' = granted \cup
        UNION {vaddr_start[c] .. vaddr_start[c] + pg_cnt[c] - 1 :
                   c \in {d \in Callers : mpc[d] = "palloc" /\ ~MoreToMap(d)
                                          /\ mpc'[d] = "idle"}}

\* Paging is still as PagingInit left it: every step but a switch to the
\* kernel's own directory takes a heap page or halts.
PagingUntouched == kvaddr = [i \in 0 .. NBits |-> 0] /\ halted = "none"

\* no malloc_page call has started and the byte after the bitmap is 0
MemUntouched ==
    /\ mpc = [c \in Callers |-> "idle"] /\ result = [c \in Callers |-> NoResult]
    /\ kernel_vaddr[NBits] = 0

Init == MemInit /\ granted = {} /\ PagingInit
MallocStep == PagingUntouched /\ MemNext /\ TrackGranted /\ UNCHANGED pgvars
PagingStep == MemUntouched /\ PagingNext /\ UNCHANGED <<mvars, granted>>
Next == MallocStep \/ PagingStep
Spec == Init /\ [][Next]_<<mvars, granted, pgvars>>

-----------------------------------------------------------------------------
(* No frame is mapped at two heap pages: palloc hands each frame out once  *)
(* (its scan and its bitmap_set see the same pool state).                  *)
FramesNotShared ==
    \A v, w \in HeapPages :
        v # w /\ pte[v] # NoFrame => pte[v] # pte[w]

(* Every mapped heap page is marked in the virtual bitmap and its frame in *)
(* the pool bitmap, so no later scan can hand either out again.            *)
MappingsAccounted ==
    \A v \in HeapPages :
        pte[v] # NoFrame => kernel_vaddr[v] = 1 /\ kernel_pool[pte[v]] = 1

(* When malloc_page has returned a range, every page of it lies inside the *)
(* heap bitmap and is mapped.                                              *)
GrantedRangeMapped ==
    \A c \in Callers :
        mpc[c] = "idle" /\ result[c] \in HeapPages =>
            \A v \in result[c] .. result[c] + pg_cnt[c] - 1 :
                v < NBits /\ pte[v] # NoFrame

(* Every reserved heap page and every allocated frame belongs to a range   *)
(* malloc_page returned or is still working on: a NULL return gives back   *)
(* what the call took (spec 4.3 and 9 rollback question, memory.c:266).    *)
NoLeakOnFailure ==
    LET held == granted \cup UNION {InFlight(c) : c \in Callers}
    IN  /\ \A v \in 0 .. NBits - 1 : kernel_vaddr[v] = 1 => v \in held
        /\ \A f \in Frames : kernel_pool[f] = 1 =>
               \E v \in held : pte[v] = f
=============================================================================
