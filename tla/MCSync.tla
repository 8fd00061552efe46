------------------------------- MODULE MCSync -------------------------------
(***************************************************************************)
(* Sync with main and two threads, all taking one lock, nested at most     *)
(* twice.  Priority 1 ends a slice after two ticks, so the timer switches  *)
(* tasks inside and around lock_acquire and lock_release.                  *)
(***************************************************************************)
EXTENDS Sync

CONSTANTS m, a, b

MCTasks == {m, a, b}
MCPrio == [t \in MCTasks |-> 1]

-----------------------------------------------------------------------------
(* A thread in its critical section is the lock's holder, so at most one  *)
(* thread is in it.  lock_acquire relies on sema_down testing and         *)
(* decrementing value with interrupts off, including after thread_block   *)
(* returns (spec 5: the prior interrupt state is restored, never           *)
(* re-enabled unconditionally).                                            *)
MutualExclusion == \A t \in Tasks : pc[t] = InCS => holder = t

(* The semaphore's waiters are exactly the threads blocked in its          *)
(* sema_down and not yet woken, each once: sema_up pops the waiter it      *)
(* unblocks, and thread_unblock's ASSERTs hold.                            *)
WaitersAreBlocked ==
    /\ IsInjective(waiters)
    /\ \A t \in Tasks :
          t \in ToSet(waiters) <=> (pc[t] = InBlock /\ status[t] = "TASK_WAITING")

(* Threads that only use the lock never leave schedule() with an empty    *)
(* ready list (there is no idle thread, thread.c:133): the holder is never *)
(* blocked, and every release wakes a waiter.                              *)
NeverHalts == panic = "none"

(* A thread woken by sema_up is eventually dispatched, however the others  *)
(* take and release the lock: IRQ0 keeps rotating the ready list.          *)
WokenEventuallyRuns ==
    \A t \in Tasks : (pc[t] = InBlock /\ status[t] = Ready) ~> cur = t
=============================================================================
