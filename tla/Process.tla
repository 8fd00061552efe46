------------------------------- MODULE Process -------------------------------
(***************************************************************************)
(* User processes of userprog/process copy.c (c13) on top of Scheduler.    *)
(*                                                                         *)
(* process_execute makes a task_struct like thread_start, but also gives   *)
(* the task a user virtual-address bitmap and a page directory, each from  *)
(* get_kernel_pages.  When schedule() dispatches a task it calls           *)
(* process_activate, which loads CR3 and, for a process, points the TSS's  *)
(* esp0 at the task's kernel stack; the first run of a process goes        *)
(* through start_process into privilege level 3.                           *)
(*                                                                         *)
(* The kernel pool is a page count: nothing is ever freed, so kernel       *)
(* virtual and physical pages are taken in step and get_kernel_pages(n)    *)
(* succeeds exactly when n pages are left.  When fewer are left,           *)
(* bitmap_scan's ASSERT halts the kernel, or, with NDEBUG, malloc_page     *)
(* returns NULL.                                                           *)
(***************************************************************************)
EXTENDS Scheduler

CONSTANTS
    KPages,             \* free pages of the kernel pool
    USER_VADDR_START,   \* 0x8048000
    NDEBUG,             \* ASSERT compiled out
    KernelDir           \* the kernel's page directory at 0x100000

ASSUME KPages \in Nat /\ NDEBUG \in BOOLEAN /\ KernelDir \notin Tasks

\* DIV_ROUND_UP((0xc0000000 - USER_VADDR_START) / PG_SIZE / 8, PG_SIZE),
\* computed on page numbers (0xc0000000 / PG_SIZE = 786432) to stay in range
UserBitmapBytes == (786432 - USER_VADDR_START \div 4096) \div 8
UserBitmapPages == (UserBitmapBytes + 4095) \div 4096

VARIABLES
    kfree,      \* pages left in the kernel pool
    proc,       \* proc[t]: t was made by process_execute
    pgdir,      \* pgdir[t]: t->pgdir != NULL
    user,       \* user[t]: t has entered level 3 through start_process
    cr3,        \* whose page directory is loaded: a task or KernelDir
    esp0,       \* whose kernel stack the TSS's esp0 points at, or NoTask
    stackpt     \* the directories whose PDE 767 (USER_STACK3_VADDR) is present

pvars == <<kfree, proc, pgdir, user, cr3, esp0, stackpt>>
allvars == <<vars, pvars>>

PInit ==
    /\ Init
    /\ kfree = KPages
    /\ proc = [t \in Tasks |-> FALSE]
    /\ pgdir = [t \in Tasks |-> FALSE]
    /\ user = [t \in Tasks |-> FALSE]
    /\ cr3 = KernelDir
    /\ esp0 = NoTask
    /\ stackpt = {}

-----------------------------------------------------------------------------
\* page_dir_activate: the task's own directory, else the kernel's
DirOf(t) == IF pgdir[t] THEN t ELSE KernelDir

\* process_activate(next), called by schedule() before switch_to:
\* page_dir_activate, then update_tss_esp for a task with a pgdir.
Activate(t) ==
    /\ cr3' = DirOf(t)
    /\ esp0' = IF pgdir[t] THEN t ELSE esp0

\* A kernel call that fails on a full pool: bitmap_scan's ASSERT, unless
\* NDEBUG, when malloc_page's NULL reaches the caller.
PoolHalt == ~NDEBUG /\ panic' = "bitmap_scan: bitmap full"

\* Everything but panic, for a halting step.
HaltKeeps == <<status, ticks, stack_magic, thread_ready_list, thread_all_list,
               cur, starting, slice, proc, pgdir, user, cr3, esp0, stackpt>>

\* process_execute with no page left for the pcb: get_kernel_pages(1)
\* halts in bitmap_scan's ASSERT.  The NDEBUG case, init_thread on a NULL
\* pcb, is not modelled.
ProcessExecuteNoPcb ==
    /\ AtUserLevel /\ ~proc[cur]
    /\ kfree = 0 /\ PoolHalt
    /\ UNCHANGED <<kfree, HaltKeeps>>

(***************************************************************************)
(* process_execute(filename, name), called by a kernel thread: the pcb     *)
(* page, init_thread, create_user_vaddr_bitmap, thread_create,             *)
(* create_page_dir, then both list appends under intr_disable.  A NULL     *)
(* bitmap reaches bitmap_init's memset(NULL, 0, 94199), which overwrites  *)
(* low physical memory where the loader put the kernel: a halt.  A NULL   *)
(* page directory is stored in pgdir unchecked.                            *)
(***************************************************************************)
ProcessExecute(p) ==
    /\ AtUserLevel /\ ~proc[cur]
    /\ status[p] = Unused /\ kfree >= 1
    /\ LET k1 == kfree - 1
           bm == k1 >= UserBitmapPages
           k2 == IF bm THEN k1 - UserBitmapPages ELSE k1
           pd == k2 >= 1
       IN  \/ /\ ~bm /\ kfree' = k1 /\ UNCHANGED HaltKeeps
              /\ \/ PoolHalt
                 \/ NDEBUG /\ panic' = "bitmap_init: memset(NULL) over the kernel"
           \/ /\ bm /\ ~pd /\ PoolHalt
              /\ kfree' = k2 /\ UNCHANGED HaltKeeps
           \/ /\ bm /\ (pd \/ NDEBUG)
              /\ kfree' = IF pd THEN k2 - 1 ELSE k2
              /\ pgdir' = [pgdir EXCEPT ![p] = pd]
              /\ proc' = [proc EXCEPT ![p] = TRUE]
              /\ status' = [status EXCEPT ![p] = Ready]
              /\ ticks' = [ticks EXCEPT ![p] = Prio[p]]
              /\ stack_magic' = [stack_magic EXCEPT ![p] = TRUE]
              /\ slice' = [slice EXCEPT ![p] = 0]
              /\ thread_ready_list' = Append(thread_ready_list, p)
              /\ thread_all_list' = Append(thread_all_list, p)
              /\ UNCHANGED <<cur, starting, panic, user, cr3, esp0, stackpt>>

(***************************************************************************)
(* start_process, the first code a process runs (through kernel_thread):   *)
(* it builds an intr_stack with user selectors and IF set, takes the user  *)
(* stack with get_a_page(PF_USER, USER_STACK3_VADDR) and leaves through    *)
(* intr_exit to level 3.  get_a_page (spec 9) takes a user-pool frame      *)
(* (the user pool is large and not modelled) and calls page_table_add in   *)
(* the directory cr3 has loaded.  No directory starts with PDE 767, so the *)
(* first user stack of a directory takes a page table from the kernel      *)
(* pool, unchecked (memory.c:224): on an empty pool bitmap_scan's ASSERT   *)
(* halts, or, with NDEBUG, the PDE names frame 0 and the table is zeroed   *)
(* over the GDT there.                                                     *)
(***************************************************************************)
StartProcess ==
    /\ AtUserLevel /\ proc[cur] /\ ~user[cur]
    /\ \/ /\ cr3 \in stackpt
          /\ user' = [user EXCEPT ![cur] = TRUE]
          /\ UNCHANGED <<vars, kfree, stackpt>>
       \/ /\ cr3 \notin stackpt /\ kfree >= 1
          /\ kfree' = kfree - 1
          /\ stackpt' = stackpt \cup {cr3}
          /\ user' = [user EXCEPT ![cur] = TRUE]
          /\ UNCHANGED vars
       \/ /\ cr3 \notin stackpt /\ kfree = 0
          /\ \/ PoolHalt
             \/ NDEBUG /\ panic' = "page_table_add: PDE names frame 0"
          /\ UNCHANGED <<kfree, stackpt, user, status, ticks, stack_magic,
                         thread_ready_list, thread_all_list, cur, starting, slice>>
    /\ UNCHANGED <<proc, pgdir, cr3, esp0>>

\* intr_timer_handler; when it calls schedule(), schedule calls
\* process_activate on the task it dispatches.
PTimerTick ==
    /\ TimerTick
    /\ IF stack_magic[cur] /\ SliceOver(cur) /\ panic' = "none"
       THEN Activate(cur')
       ELSE UNCHANGED <<cr3, esp0>>
    /\ UNCHANGED <<kfree, proc, pgdir, user, stackpt>>

PHalted == panic # "none" /\ UNCHANGED allvars

PNext ==
    \/ \E p \in Tasks : ProcessExecute(p)
    \/ ProcessExecuteNoPcb
    \/ StartProcess
    \/ PTimerTick
    \/ PHalted

\* The PIT's IRQ0, as in Scheduler.
PSpec == PInit /\ [][PNext]_allvars /\ WF_allvars(PTimerTick)
=============================================================================
