------------------------------ MODULE Scheduler ------------------------------
(***************************************************************************)
(* Threads and the round-robin scheduler of thread/thread.c (c10), driven *)
(* by the timer interrupt handler of device/timer.c (c13).                 *)
(*                                                                         *)
(* One CPU.  cur is the task whose stack the CPU is on (running_thread()). *)
(* Kernel operations run with interrupts masked and are single steps; the *)
(* timer interrupt can arrive between them, and also between the two list *)
(* appends of thread_start, which runs with interrupts on.  The lists are  *)
(* sequences of tasks (list.c keeps that order; LinkedList models the      *)
(* pointers).  A failed ASSERT halts the kernel: panic records why.       *)
(***************************************************************************)
EXTENDS Integers, Sequences, SequencesExt

CONSTANTS
    Tasks,          \* the task_struct pages that can exist
    Main,           \* the main thread, made by make_main_thread
    Prio,           \* Prio[t]: the prio argument t is created with
    NoTask,         \* no task
    AllowBlock,     \* the threads' code calls thread_block / thread_unblock
    StackOverflow   \* a thread's stack may overrun its task_struct header

ASSUME /\ Main \in Tasks /\ NoTask \notin Tasks
       /\ Prio \in [Tasks -> 1 .. 255]        \* uint8_t priority
       /\ AllowBlock \in BOOLEAN /\ StackOverflow \in BOOLEAN

Running  == "TASK_RUNNING"
Ready    == "TASK_READY"
Blocked  == {"TASK_BLOCKED", "TASK_WAITING", "TASK_HANGING"}
Unused   == "UNUSED"          \* no task_struct has been made on this page
Statuses == {Running, Ready, "TASK_DIED", Unused} \cup Blocked

VARIABLES
    status,             \* task_struct.status
    ticks,              \* task_struct.ticks: timer ticks left in the slice
    stack_magic,        \* task_struct.stack_magic = 0x19870916
    thread_ready_list,
    thread_all_list,
    cur,                \* running_thread()
    starting,           \* starting[t]: the thread t's thread_start has put
                        \* on the ready list but not yet on the all list
    panic,              \* "none", or the ASSERT that halted the kernel
    slice               \* history: ticks charged to t since ticks[t] was
                        \* last set to its priority (elapsed_ticks delta)

vars == <<status, ticks, stack_magic, thread_ready_list, thread_all_list,
          cur, starting, panic, slice>>

-----------------------------------------------------------------------------
(* thread_init: both lists empty, then make_main_thread: init_thread(main,  *)
(* "main", 31) with status RUNNING, appended to the all list only.          *)
Init ==
    /\ status = [t \in Tasks |-> IF t = Main THEN Running ELSE Unused]
    /\ ticks = [t \in Tasks |-> IF t = Main THEN Prio[Main] ELSE 0]
    /\ stack_magic = [t \in Tasks |-> TRUE]
    /\ thread_ready_list = <<>>
    /\ thread_all_list = <<Main>>
    /\ cur = Main
    /\ starting = [t \in Tasks |-> NoTask]
    /\ panic = "none"
    /\ slice = [t \in Tasks |-> 0]

\* Mutant: the preempted thread is pushed on the front of the ready list.
RequeueFront(list, t) == <<t>> \o list

\* list_append(&thread_ready_list, &cur->general_tag) in schedule()
Requeue(list, t) == Append(list, t)

(***************************************************************************)
(* schedule(), called with the status, ticks and slice its caller has     *)
(* already set.  A thread still RUNNING (its slice is over) goes to the   *)
(* tail of the ready list with ticks = priority and becomes READY; a      *)
(* blocked one stays off the list.  The head of the list is popped, made   *)
(* RUNNING and switched to.  ASSERT(!list_empty) halts when there is none. *)
(***************************************************************************)
Schedule(st, tk, sl) ==
    LET requeue == st[cur] = Running
        q       == IF requeue THEN Requeue(thread_ready_list, cur)
                   ELSE thread_ready_list
        next    == Head(q)
    IN  IF q = <<>>
        THEN /\ panic' = "schedule: ready list empty"
             /\ status' = st /\ ticks' = tk /\ slice' = sl
             /\ UNCHANGED <<thread_ready_list, cur>>
        ELSE /\ thread_ready_list' = Tail(q)
             /\ status' = [st EXCEPT ![cur] = IF requeue THEN Ready ELSE @,
                                     ![next] = Running]
             /\ ticks' = IF requeue THEN [tk EXCEPT ![cur] = Prio[cur]] ELSE tk
             /\ slice' = IF requeue THEN [sl EXCEPT ![cur] = 0] ELSE sl
             /\ cur' = next
             /\ UNCHANGED panic

-----------------------------------------------------------------------------
(* A thread of the kernel may call the operations below when it is running *)
(* its own code, i.e. not between the two appends of its thread_start.    *)
AtUserLevel == panic = "none" /\ starting[cur] = NoTask

(***************************************************************************)
(* thread_start(name, prio, func, arg), first part: get_kernel_pages(1)    *)
(* gives the page of a task_struct c; init_thread makes it READY with      *)
(* ticks = prio and the stack magic; thread_create lays out its stack;    *)
(* it is appended to the ready list.  Interrupts are on from here on.     *)
(***************************************************************************)
ThreadStart(c) ==
    /\ AtUserLevel
    /\ status[c] = Unused
    /\ status' = [status EXCEPT ![c] = Ready]
    /\ ticks' = [ticks EXCEPT ![c] = Prio[c]]
    /\ stack_magic' = [stack_magic EXCEPT ![c] = TRUE]
    /\ slice' = [slice EXCEPT ![c] = 0]
    /\ thread_ready_list' = Append(thread_ready_list, c)
    /\ starting' = [starting EXCEPT ![cur] = c]
    /\ UNCHANGED <<thread_all_list, cur, panic>>

\* list_append(&thread_all_list, &thread->all_list_tag) in thread_start
Register(list, t) == Append(list, t)

\* thread_start, second part: the new thread is appended to the all list.
ThreadStartRegister ==
    /\ panic = "none"
    /\ starting[cur] # NoTask
    /\ thread_all_list' = Register(thread_all_list, starting[cur])
    /\ starting' = [starting EXCEPT ![cur] = NoTask]
    /\ UNCHANGED <<status, ticks, stack_magic, thread_ready_list, cur,
                   panic, slice>>

\* thread_block(stat): the running thread sets its status to stat and
\* calls schedule(); it continues only once unblocked and dispatched.
ThreadBlock(stat) ==
    /\ AllowBlock /\ AtUserLevel
    /\ Schedule([status EXCEPT ![cur] = stat], ticks, slice)
    /\ UNCHANGED <<stack_magic, thread_all_list, starting>>

\* Mutant: the woken thread is made READY but left out of the ready list.
UnblockNoList(u) ==
    /\ status[u] \in Blocked
    /\ thread_ready_list' = thread_ready_list
    /\ status' = [status EXCEPT ![u] = Ready]

\* Mutant: the woken thread is appended to the tail of the ready list.
UnblockAppend(u) ==
    /\ status[u] \in Blocked
    /\ thread_ready_list' = Append(thread_ready_list, u)
    /\ status' = [status EXCEPT ![u] = Ready]

\* thread_unblock(pthread): a blocked thread is pushed on the FRONT of the
\* ready list and made READY.
Unblock(u) ==
    /\ status[u] \in Blocked
    /\ thread_ready_list' = <<u>> \o thread_ready_list
    /\ status' = [status EXCEPT ![u] = Ready]

\* The running thread calls thread_unblock on a blocked thread.
ThreadUnblock(u) ==
    /\ AllowBlock /\ AtUserLevel
    /\ Unblock(u)
    /\ UNCHANGED <<ticks, stack_magic, thread_all_list, cur, starting,
                   panic, slice>>

\* Mutant: the slice test reads the counter as signed and tests for < 0.
SliceOverSigned(t) == ticks[t] < 0

\* if (cur_thread->ticks == 0) in intr_timer_handler
SliceOver(t) == ticks[t] = 0

(***************************************************************************)
(* intr_timer_handler: ASSERT the running thread's stack magic, charge it  *)
(* one tick (elapsed_ticks++), then schedule() if its ticks are 0, else    *)
(* ticks--.  Interrupts are on whenever a thread is not inside a kernel    *)
(* operation, so the tick can come at any step boundary.                   *)
(***************************************************************************)
TimerTick ==
    /\ panic = "none"
    /\ IF ~stack_magic[cur]
       THEN /\ panic' = "timer: stack magic"
            /\ UNCHANGED <<status, ticks, thread_ready_list, cur, slice>>
       ELSE LET sl == [slice EXCEPT ![cur] = @ + 1]
            IN  IF SliceOver(cur)
                THEN Schedule(status, ticks, sl)
                ELSE /\ ticks' = [ticks EXCEPT ![cur] = @ - 1]
                     /\ slice' = sl
                     /\ UNCHANGED <<status, thread_ready_list, cur, panic>>
    /\ UNCHANGED <<stack_magic, thread_all_list, starting>>

\* The running thread's stack grows down into its task_struct header and
\* overwrites stack_magic (the fault the magic is there to detect).
StackOverrun ==
    /\ StackOverflow /\ AtUserLevel
    /\ stack_magic' = [stack_magic EXCEPT ![cur] = FALSE]
    /\ UNCHANGED <<status, ticks, thread_ready_list, thread_all_list, cur,
                   starting, panic, slice>>

\* After a failed ASSERT the kernel spins in panic_spin forever.
Halted == panic # "none" /\ UNCHANGED vars

Next ==
    \/ \E c \in Tasks : ThreadStart(c)
    \/ ThreadStartRegister
    \/ \E stat \in Blocked : ThreadBlock(stat)
    \/ \E u \in Tasks : ThreadUnblock(u)
    \/ TimerTick
    \/ StackOverrun
    \/ Halted

(* The PIT raises IRQ0 every 10 ms and the handler runs whenever           *)
(* interrupts are on, so the tick is weakly fair.  The threads' own calls  *)
(* are not: a thread may compute forever.                                  *)
Spec == Init /\ [][Next]_vars /\ WF_vars(TimerTick)

-----------------------------------------------------------------------------
TypeOK ==
    /\ status \in [Tasks -> Statuses]
    /\ ticks \in [Tasks -> 0 .. 255]     \* uint8_t
    /\ stack_magic \in [Tasks -> BOOLEAN]
    /\ thread_ready_list \in Seq(Tasks)
    /\ thread_all_list \in Seq(Tasks)
    /\ cur \in Tasks
    /\ starting \in [Tasks -> Tasks \cup {NoTask}]
    /\ slice \in [Tasks -> 0 .. 256]
=============================================================================
