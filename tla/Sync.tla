-------------------------------- MODULE Sync --------------------------------
(***************************************************************************)
(* The semaphore and the reentrant lock of thread/sync (c14) on top of     *)
(* Scheduler, with the CPU's interrupt flag of kernel/interrupt.c (c9).    *)
(*                                                                         *)
(* sync.c is not in the sources: sync.h gives the state (a uint8_t value,  *)
(* a waiters list, holder and holder_repeat_nr) and spec 5 the steps of     *)
(* sema_down, sema_up, lock_acquire and lock_release.                      *)
(*                                                                         *)
(* Every thread runs lock_acquire / lock_release on one lock.  pc[t] is     *)
(* where t is in that code; a step of t happens only while t is cur.  The  *)
(* timer interrupt comes only while intr = "on", so steps taken with        *)
(* interrupts off follow each other without a switch, and the model shows *)
(* whether the interrupt flag really is off where the code needs it.       *)
(***************************************************************************)
EXTENDS Scheduler, Interrupt, FiniteSets

CONSTANTS
    MaxRepeat       \* bound on holder_repeat_nr (reentrant acquires)

ON  == "INTR_ON"
OFF == "INTR_OFF"

\* pc values of a thread
Idle     == "idle"      \* its own code, not holding the lock
DownTest == "down_test" \* in sema_down, at while (value == 0)
DownDec  == "down_dec"  \* in sema_down, at value--
InBlock  == "blocked"   \* in thread_block, switched away by schedule()
AcqSet   == "acq_set"   \* in lock_acquire, after sema_down
InCS     == "cs"        \* holds the lock, in its own code
RelUp    == "rel_up"    \* in lock_release, at sema_up

VARIABLES
    intr,           \* EFLAGS.IF: intr_get_status()
    pc,
    saved_down,     \* old_status of t's sema_down
    saved_block,    \* old_status of t's thread_block
    value,          \* semaphore.value (uint8_t)
    waiters,        \* semaphore.waiters
    holder,         \* lock.holder, or NoTask
    repeat          \* lock.holder_repeat_nr

svars == <<intr, pc, saved_down, saved_block, value, waiters, holder, repeat>>
syncvars == <<vars, svars>>

\* main after init_all (interrupts enabled) and two thread_starts;
\* lock_init: holder NULL, repeat 0, sema_init(&semaphore, 1).
SInit ==
    LET threads == CHOOSE s \in [1 .. Cardinality(Tasks) - 1 -> Tasks \ {Main}] :
                       IsInjective(s)
    IN  /\ status = [t \in Tasks |-> IF t = Main THEN Running ELSE Ready]
        /\ ticks = [t \in Tasks |-> Prio[t]]
        /\ stack_magic = [t \in Tasks |-> TRUE]
        /\ thread_ready_list = threads
        /\ thread_all_list = <<Main>> \o threads
        /\ cur = Main
        /\ starting = [t \in Tasks |-> NoTask]
        /\ panic = "none"
        /\ slice = [t \in Tasks |-> 0]
        /\ intr = ON
        /\ pc = [t \in Tasks |-> Idle]
        /\ saved_down = [t \in Tasks |-> ON]
        /\ saved_block = [t \in Tasks |-> ON]
        /\ value = 1 /\ waiters = <<>> /\ holder = NoTask /\ repeat = 0

-----------------------------------------------------------------------------
(* intr_disable returns the old status and clears IF; intr_set_status(s)   *)
(* is intr_enable or intr_disable as s says, so it sets IF to s.           *)
IntrDisable == intr' = OFF
IntrSetStatus(s) == intr' = s

(* The interrupt flag when a task is switched to.  schedule() runs with   *)
(* IF clear and switch_to keeps it; a task that blocked in thread_block    *)
(* resumes there with IF clear.  Any other task resumes on an iret from    *)
(* the timer interrupt, or, new, in kernel_thread, which calls             *)
(* intr_enable: IF is set.                                                 *)
ResumeIntr(t) == IF pc[t] = InBlock THEN OFF ELSE ON

\* The step is t's: t is running and the kernel has not halted.
Runs(t) == cur = t /\ panic = "none"

\* lock_acquire by a thread not holding it: holder != running_thread(),
\* so sema_down starts: old_status = intr_disable().
LockAcquire(t) ==
    /\ Runs(t) /\ pc[t] = Idle
    /\ holder # t
    /\ saved_down' = [saved_down EXCEPT ![t] = intr]
    /\ IntrDisable
    /\ pc' = [pc EXCEPT ![t] = DownTest]
    /\ UNCHANGED <<vars, saved_block, value, waiters, holder, repeat>>

\* lock_acquire by the holder: holder_repeat_nr++.
LockReacquire(t) ==
    /\ Runs(t) /\ pc[t] = InCS
    /\ holder = t /\ repeat < MaxRepeat
    /\ repeat' = repeat + 1
    /\ UNCHANGED <<vars, intr, pc, saved_down, saved_block, value, waiters,
                   holder>>

(***************************************************************************)
(* while (value == 0): a zero value puts t at the tail of waiters and      *)
(* calls thread_block(TASK_WAITING), which saves intr_disable()'s result,  *)
(* sets the status and calls schedule(); otherwise t goes on to value--.   *)
(***************************************************************************)
SemaDownTest(t) ==
    /\ Runs(t) /\ pc[t] = DownTest
    /\ \/ /\ value = 0
          /\ waiters' = Append(waiters, t)
          /\ saved_block' = [saved_block EXCEPT ![t] = intr]
          /\ pc' = [pc EXCEPT ![t] = InBlock]
          /\ Schedule([status EXCEPT ![t] = "TASK_WAITING"], ticks, slice)
          /\ intr' = ResumeIntr(cur')
          /\ UNCHANGED <<stack_magic, thread_all_list, starting>>
       \/ /\ value # 0
          /\ pc' = [pc EXCEPT ![t] = DownDec]
          /\ UNCHANGED <<vars, intr, saved_block, waiters>>
    /\ UNCHANGED <<saved_down, value, holder, repeat>>

\* Mutant: thread_block re-enables interrupts on return (intr_enable).
BlockReturnEnable(t) ==
    /\ Runs(t) /\ pc[t] = InBlock
    /\ IntrSetStatus(ON)
    /\ pc' = [pc EXCEPT ![t] = DownTest]
    /\ UNCHANGED <<vars, saved_down, saved_block, value, waiters, holder,
                   repeat>>

\* thread_block, once t is dispatched again: intr_set_status(old_status),
\* then back to the while test of sema_down.
BlockReturn(t) ==
    /\ Runs(t) /\ pc[t] = InBlock
    /\ IntrSetStatus(saved_block[t])
    /\ pc' = [pc EXCEPT ![t] = DownTest]
    /\ UNCHANGED <<vars, saved_down, saved_block, value, waiters, holder,
                   repeat>>

\* value--; intr_set_status(old_status): sema_down returns to lock_acquire.
SemaDownDec(t) ==
    /\ Runs(t) /\ pc[t] = DownDec
    /\ value' = (value + 255) % 256
    /\ IntrSetStatus(saved_down[t])
    /\ pc' = [pc EXCEPT ![t] = AcqSet]
    /\ UNCHANGED <<vars, saved_down, saved_block, waiters, holder, repeat>>

\* lock_acquire after sema_down: holder = running_thread(); repeat = 1.
LockAcquireSet(t) ==
    /\ Runs(t) /\ pc[t] = AcqSet
    /\ holder' = t /\ repeat' = 1
    /\ pc' = [pc EXCEPT ![t] = InCS]
    /\ UNCHANGED <<vars, intr, saved_down, saved_block, value, waiters>>

\* lock_release: a nested hold only drops holder_repeat_nr; the last one
\* clears holder and holder_repeat_nr and goes on to sema_up.
LockRelease(t) ==
    /\ Runs(t) /\ pc[t] = InCS
    /\ \/ /\ repeat > 1
          /\ repeat' = repeat - 1
          /\ UNCHANGED <<pc, holder>>
       \/ /\ repeat = 1
          /\ holder' = NoTask /\ repeat' = 0
          /\ pc' = [pc EXCEPT ![t] = RelUp]
    /\ UNCHANGED <<vars, intr, saved_down, saved_block, value, waiters>>

\* Mutant: sema_up unblocks the first waiter but leaves it on the list.
UpNoPop(t) ==
    /\ waiters' = waiters
    /\ IF waiters # <<>> THEN Unblock(Head(waiters))
       ELSE UNCHANGED <<status, thread_ready_list>>

\* if (!list_empty(&waiters)) thread_unblock(list_pop(&waiters))
WakeWaiter(t) ==
    /\ waiters' = IF waiters # <<>> THEN Tail(waiters) ELSE waiters
    /\ IF waiters # <<>> THEN Unblock(Head(waiters))
       ELSE UNCHANGED <<status, thread_ready_list>>

\* Mutant: sema_up hands the lock to the woken waiter but never does value++.
SemaUpNoInc(t) ==
    /\ Runs(t) /\ pc[t] = RelUp
    /\ WakeWaiter(t)
    /\ value' = IF waiters # <<>> THEN value ELSE (value + 1) % 256
    /\ pc' = [pc EXCEPT ![t] = Idle]
    /\ UNCHANGED <<ticks, stack_magic, thread_all_list, cur, starting, panic,
                   slice, intr, saved_down, saved_block, holder, repeat>>

\* sema_up: old_status = intr_disable(); wake the first waiter; value++;
\* intr_set_status(old_status).  IF ends as it was.
SemaUp(t) ==
    /\ Runs(t) /\ pc[t] = RelUp
    /\ WakeWaiter(t)
    /\ value' = (value + 1) % 256
    /\ pc' = [pc EXCEPT ![t] = Idle]
    /\ UNCHANGED <<ticks, stack_magic, thread_all_list, cur, starting, panic,
                   slice, intr, saved_down, saved_block, holder, repeat>>

(* IRQ0, taken only with IF set and when pic_init left its line unmasked; *)
(* it ends in the handler the IDT and idt_table give its vector.  The     *)
(* timer handler runs with IF clear, and the task it returns to, the same *)
(* or another, resumes as ResumeIntr says (a running task is never at      *)
(* InBlock).  A spurious vector is ignored; general_intr_handler for any   *)
(* other vector spins with IF clear.                                       *)
Irq0Handler == Handler(IrqVector(PicAfter(PicInitWrites), 0))
Irq0Unmasked == IrqVector(PicAfter(PicInitWrites), 0) # NoVector

STimerTick ==
    /\ intr = ON /\ Irq0Unmasked /\ panic = "none"
    /\ CASE Irq0Handler = "intr_timer_handler" ->
                TimerTick /\ intr' = ResumeIntr(cur')
         [] Irq0Handler = "ignored" -> UNCHANGED <<vars, intr>>
         [] OTHER ->
                /\ panic' = "general_intr_handler: while(1)" /\ intr' = OFF
                /\ UNCHANGED <<status, ticks, stack_magic, thread_ready_list,
                               thread_all_list, cur, starting, slice>>
    /\ UNCHANGED <<pc, saved_down, saved_block, value, waiters, holder, repeat>>

\* The steps of sync.c a running thread executes on its own.  No step
\* follows a halt (panic_spin): with deadlock checked, TLC reports one.
KernelStep(t) ==
    SemaDownTest(t) \/ BlockReturn(t) \/ SemaDownDec(t) \/ LockAcquireSet(t)
    \/ SemaUp(t)

SNext ==
    \/ \E t \in Tasks :
          LockAcquire(t) \/ LockReacquire(t) \/ LockRelease(t) \/ KernelStep(t)
    \/ STimerTick

(* IRQ0 is strongly fair: the PIT keeps raising it, and the 8259 holds it  *)
(* pending while IF is clear and delivers it at the next sti, so a thread  *)
(* that clears and sets IF over and over still takes it.  Code of sync.c a *)
(* running thread has started runs on: its steps are weakly fair.  The     *)
(* threads' own code (when to take and release the lock) gets no fairness. *)
SSpec == SInit /\ [][SNext]_syncvars /\ SF_syncvars(STimerTick)
         /\ \A t \in Tasks : WF_syncvars(KernelStep(t))
=============================================================================
