---------------------------- MODULE MCScheduler ----------------------------
(***************************************************************************)
(* Scheduler with three task pages: main and two threads main (or a       *)
(* thread) may start, with different priorities so that slices differ.     *)
(* woken_ahead is a history variable for the wake-up order property.      *)
(***************************************************************************)
EXTENDS Scheduler

CONSTANTS m, a, b

MCTasks == {m, a, b}
\* main is created with priority 31 in the code; 2 keeps slices short
MCPrio == (m :> 2) @@ (a :> 1) @@ (b :> 2)

VARIABLE woken_ahead   \* <<w, x>>: w was woken while x was on the ready list,
                       \* and w has not been dispatched since

WokenNow   == {u \in Tasks : status[u] \in Blocked /\ status'[u] = Ready}
Dispatched == {t \in Tasks : status[t] # Running /\ status'[t] = Running}

TrackWoken ==
    woken_ahead' = {p \in woken_ahead : p[1] \notin Dispatched}
                   \cup (WokenNow \X ToSet(thread_ready_list))

MCInit == Init /\ woken_ahead = {}
MCNext == Next /\ TrackWoken
MCSpec == MCInit /\ [][MCNext]_<<vars, woken_ahead>> /\ WF_vars(TimerTick)

-----------------------------------------------------------------------------
(* The ready list holds each thread at most once, holds exactly the READY *)
(* threads, and the running thread is the one RUNNING thread: what the    *)
(* ASSERTs of schedule (thread.c:125), thread_unblock (:177) and           *)
(* thread_start (:94) rely on, kept by schedule, thread_block,             *)
(* thread_unblock, thread_start and the timer together.                    *)
ReadyListMatchesStatus ==
    panic = "none" =>
        /\ IsInjective(thread_ready_list)
        /\ \A t \in Tasks : t \in ToSet(thread_ready_list) <=> status[t] = Ready
        /\ \A t \in Tasks : status[t] = Running <=> t = cur

(* A thread woken by thread_unblock is dispatched before every thread that *)
(* was already waiting on the ready list when it was woken (list_push at   *)
(* thread.c:182; spec section 8, front insertion on unblock).              *)
WokenRunsFirst == \A p \in woken_ahead : p[2] # cur

(* Every READY thread eventually runs, unless the kernel halts first:     *)
(* schedule re-enqueues the preempted thread at the tail and pops the     *)
(* head, and a thread woken by thread_unblock, though pushed in front,    *)
(* cannot keep a READY thread waiting forever however the others block    *)
(* and wake each other.                                                    *)
ReadyEventuallyRuns ==
    \A t \in Tasks : status[t] = Ready ~> (status[t] = Running \/ panic # "none")

(* schedule never switches away from a thread whose stack magic is        *)
(* corrupted (spec 3: the guard is checked on every scheduling decision).  *)
GuardCheckedOnSwitch == [][ cur' # cur => stack_magic[cur] ]_vars
=============================================================================
