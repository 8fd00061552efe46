# TLA+ models of MyTinyOS

These are TLA+ models of the kernel under `src/project/`, a single-CPU 32-bit x86 kernel built
chapter by chapter (`c8` … `c15`). Each module is translated from one chapter's snapshot of a
file, as noted below. TLC checks them through the `MC*.tla` modules and the `*.cfg` files;
`PROJECT.json` lists every run, the mutants that show each property can fail, the map from
definitions to source lines, the findings and the hazards.

## The system

| Part | Source | State | Operations |
|---|---|---|---|
| Intrusive list | `c10/lib/kernel/list.c` | `prev`/`next` of every `list_elem`, the `head`/`tail` sentinels | `list_init`, `list_insert_before`, `list_push`, `list_append`, `list_remove`, `list_pop`, `elem_find`, `list_len`, `list_empty`, `list_traversal` |
| Bitmap | `c11/lib/kernel/bitmap.c` | `bits[]`, `btmp_bytes_len` | `bitmap_init`, `bitmap_scan_test`, `bitmap_scan`, `bitmap_set` |
| Kernel memory | `c8/kernel/memory.c` | `kernel_pool`, `user_pool`, `kernel_vaddr` bitmaps; page tables | `mem_init`, `vaddr_get`, `palloc`, `page_table_add`, `malloc_page`, `get_kernel_pages` |
| Threads | `c10/thread/thread.c` | `task_struct` (status, ticks, priority, stack_magic, tags), `thread_ready_list`, `thread_all_list` | `thread_init`, `thread_start`, `schedule`, `thread_block`, `thread_unblock` |
| Timer | `c13/device/timer.c` | global `ticks`; the 8253 counter | `intr_timer_handler`, `frequency_set`, `timer_init`, `mtime_sleep` |
| Sync | `c14/thread/sync.h` (header only) | semaphore `value` (uint8_t), `waiters`; lock `holder`, `holder_repeat_nr` | `sema_down/up`, `lock_acquire/release` |
| User processes | `c13/userprog/process copy.c` | `pgdir`, the user vaddr bitmap, CR3, the TSS's `esp0` | `process_execute`, `create_page_dir`, `create_user_vaddr_bitmap`, `start_process`, `process_activate` |
| Interrupts, syscalls, stdio, fs, shell | `c9`, `c13`, `c14`, `c15` | IDT, PIC, user page directories, headers | see `PROJECT.json` components |

How the parts interact:
- `thread_start` takes a page from `get_kernel_pages` and appends the thread's tags to the
  two lists.
- The timer interrupt (IRQ0) runs `intr_timer_handler`, which calls `schedule`.
- `schedule` moves tags between the lists with `list_append` and `list_pop`.
- `malloc_page` uses `bitmap_scan`/`bitmap_set` on two bitmaps and writes page tables.
- Kernel operations mask interrupts with `intr_disable`/`intr_set_status`, except for these:
  - the memory functions;
  - the part of `thread_start` after `thread_create`.

  These run with interrupts on and can be preempted by the timer.

Hard behaviours of this code:
- preemption inside the non-atomic memory functions and inside `thread_start`;
- the off-by-one in `bitmap_scan`'s run walk;
- ASSERT-or-sentinel on exhaustion (`NDEBUG` changes the outcome);
- partial failure in `malloc_page`;
- no idle thread (an empty ready list halts);
- the `ticks == 0` test before the decrement;
- the uint8/uint16 widths (`ticks`, semaphore `value`, `all_free_pages`, the PIT bytes).

## Modules

- **Bitmap** (`bitmap.c`, c11): pure operators over a function `0 .. NBits -> {0,1}`.
  - Index `NBits` is the first bit of the byte after the bitmap. `bitmap_scan` reads it and
    `vaddr_get` may write it. `bitmap_init` never clears it, so each Init leaves it arbitrary.
  - The three loops of `bitmap_scan` are the RECURSIVE operators `FirstFreeByte`,
    `FirstFreeBit` and `Walk`.
  - `FirstFit` is the reference definition.
  - `BitmapScanPanics` is the `ASSERT` before `return -1`, controlled by the `NDEBUG` constant.
- **MCBitmap** reaches every bit pattern by `bitmap_set` and compares `bitmap_scan` with
  `FirstFit` for every request size.
- **Scheduler** (`thread.c` c10, `intr_timer_handler` of `timer.c` c13). One action per
  operation:
  - `ThreadStart` is `init_thread` plus the ready-list append.
  - `ThreadStartRegister` is the all-list append. A timer tick may come between the two
    (`starting` records the pending append).
  - `ThreadBlock`, `ThreadUnblock` and `TimerTick` each include the call to `schedule`
    (`Schedule`) made inside them.
  - `StackOverrun` is the fault the stack magic exists to detect.
  - A failed ASSERT sets `panic`, and `Halted` stutters (`panic_spin`).
  - The lists are sequences; LinkedList shows that list.c implements them.
  - `slice` is a history variable (the elapsed ticks since the last refill), used only by
    properties.
- **Memory** (`memory.c` c8). `malloc_page` is split at the points where a value read from a
  bitmap is used after interrupts could have been taken:
  - `VaddrGet` scans and `VaddrSet` sets.
  - `PallocScan` scans, and `MapPage` is `palloc`'s set followed by `page_table_add`.
  - `MallocDone` returns.

  Notes on the model:
  - Heap page `v` stands for `K_HEAP_START + v*PG_SIZE`.
  - `pte[v]` is the frame mapped there.
  - The PDEs of the kernel range exist from the loader, so only the present-PDE branch of
    `page_table_add` is reachable.
  - `result` uses -1 for NULL.
- **MCMemory**: one or two callers, requests of 1..3 pages, `Len = 1` byte (8 pages) per
  bitmap. `granted` is a history variable of the returned ranges.
- **ListSeq**: the abstract list, a sequence with push, append, remove and pop.
- **LinkedList** (`list.c` c10): the pointer model, with `prev` and `next` over the elements and
  the sentinels `head`/`tail`.
  - Inserts are guarded by `~ElemFind`, the `ASSERT(!elem_find)` every caller makes.
  - `Abstract == INSTANCE ListSeq WITH seq <- AbsSeq` maps the chain `head.next … tail` to
    the sequence.
- **ListWalk** (`thread_start` of `thread.c` c10) EXTENDS LinkedList with the caller's
  `ASSERT(!elem_find(&thread_ready_list, ...))`, which runs with interrupts on. `spc`, `cur`
  and `obj` are thread_start's place, elem_find's `elem` and the new tag. `FindBegin`,
  `FindStep` and `FindEnd` read one pointer each. `StartAppend` is the following `list_append`.
  `Others` is any masked list operation of another thread or of `schedule`, taken between
  any two reads. A fresh tag is one whose `prev` and `next` are still NULL from
  `init_thread`'s `memset`.
- **Process** (`process copy.c` c13) EXTENDS Scheduler.
  - `ProcessExecute` is all of `process_execute`: the pcb, the 23-page user bitmap
    (`UserBitmapPages`, computed from `USER_VADDR_START`), the page directory, and the two
    appends.
  - The kernel pool is the count `kfree`. Nothing is freed in c8, so `get_kernel_pages(n)`
    succeeds exactly when `n` pages are left. Otherwise it ends in `bitmap_scan`'s ASSERT, or
    returns NULL under NDEBUG.
  - `StartProcess` is `start_process`: `get_a_page` for the user stack, then the entry to
    level 3. `stackpt` holds the directories whose PDE 767 exists. The first user stack of a
    directory takes a page table from the kernel pool, unchecked as in `page_table_add`
    (`memory.c:224`). On an empty pool, that is `bitmap_scan`'s ASSERT, or under NDEBUG a
    PDE naming frame 0. The user pool is large and is not modelled. `PTimerTick` is the timer tick, plus
    `process_activate` on the task `schedule` dispatches. `cr3` and `esp0` name the task whose
    directory or kernel stack is loaded.
  - The call of `process_activate` from `schedule` is not in this snapshot (c10's `schedule`
    predates it). It is modelled as spec 5 describes the switch.
- **Sync** (`sync.h` c14, spec 5; the IF functions of `interrupt.c` c9) EXTENDS Scheduler.
  - `sync.c` is not in the sources, so `sema_down`, `sema_up`, `lock_acquire` and
    `lock_release` are modelled from spec 5 (spec_modelled). They run over Scheduler's
    `Schedule` and `Unblock`, which are translated from `thread.c`.
  - `pc[t]` is where thread `t` is in that code. `sema_down` is split at its `while` test
    (`SemaDownTest`), the block and return (`BlockReturn`) and `value--` (`SemaDownDec`).
  - `intr` is EFLAGS.IF. `STimerTick` is taken only when it is set. A task resumes with IF
    clear if it blocked in `thread_block`, and with IF set otherwise (`ResumeIntr`): an
    `iret`, or `kernel_thread`'s `intr_enable`.
  - `value` is uint8_t and wraps at 256. `repeat` is `holder_repeat_nr`, bounded by
    `MaxRepeat`.
  - `STimerTick` takes IRQ0 only if `pic_init` leaves it unmasked (`Irq0Unmasked`), and runs
    the handler `Interrupt` computes for its vector (`Irq0Handler`). That handler is
    `intr_timer_handler`, so the step is Scheduler's `TimerTick`. The step's other branches
    are an ignored vector and the spin of `general_intr_handler`. They are kept so that a
    change to `pic_init` or the IDT shows up in the runs.
- **Interrupt** (`interrupt.c` c9, `timer.c` c13) has pure operators for how a vector reaches
  its handler.
  - `PicInitWrites` lists `pic_init`'s ten `outb`s. `PicWrite` decodes them as an 8259A
    does: ICW1 on the control port, then ICW2 (the vector base), ICW3 and ICW4, then OCW1
    (the mask).
  - `IdtTable` is `exception_init`'s `idt_table`, after `register_handler(0x20, ...)`.
  - `Delivered` turns a vector past `lidt`'s limit (`IDT_DESC_CNT * 8 - 1`) into #GP (13).
  - `Handler` is `general_intr_handler`'s dispatch. Vectors 0x27 and 0x2f are ignored; any
    other vector spins.
- **CString** (`string.c` c8): every function as a pure operator over a memory function
  from addresses to bytes. Each `while` loop is a RECURSIVE operator. Plain `char` is
  signed on i386 gcc, so the functions reading through `char *` compare `SChar(byte)`.
- **Stdio** (`stdio.c` c13): `itoa` (recursion before the store), the `vsprintf` loop
  (`VsprintfFrom`, one call per format byte or conversion), and `printf` on a zeroed buffer.
- **MemPool** (`mem_pool_init` of `memory.c` c8): the pool and bitmap arithmetic in pages,
  with `all_free_pages` taken modulo 65536 (uint16_t). Addresses are offsets from
  `MEM_BITMAP_BASE`, to stay inside TLC's integers. No run checks it: the layout is
  straight-line arithmetic, and its one disagreement with the code's comment (finding 10)
  would need a violation run of its own.
- **MCString** states the reference checks of CString and Stdio, one predicate per call.
  **MCLib** extends MCBitmap: its states are the bitmap patterns, plus one state per library
  call (`LibCall`, made from the cleared bitmap), with `call` recording the call. The calls
  are those of MCString, and `mem_pool_init` for every whole MB from 2 MB to 4 GB, and 15
  pages more. The reference numerals are written
  independently of `itoa`, from powers of the base and a digit table.
- **Paging** (`memory.c` c8, `process copy.c` c13) runs the page-table code on a memory of
  page frames. The frames are the kernel directory (0x100000), the loader's first table,
  frame 0 (holding the GDT) and a pool of `NBits` frames.
  - An address is a virtual page number. `pde_ptr` and `pte_ptr` are `PdePtr` and `PtePtr`,
    which use the directory's self-map at entry 1023. `Translate` walks the directory named
    by `cr3`.
  - `page_table_add` (`PageTableAdd`) has both branches: present and absent PDE. In the
    absent-PDE branch (`NewTable`), the PDE is written, the new table is zeroed through the
    self-map window, and then the PTE is tested and written. The panics and ASSERTs set
    `halted`. `NDEBUG` selects the release build.
  - Each operation runs as one step per function call, with `ppc` naming the next call
    and `arg` holding what the earlier calls returned. `KernelPageAlloc` is the
    `malloc_page` half of `get_kernel_pages` (`MallocAlloc`: the heap bit, then the pool
    frame), for `thread_start` (op "kernel") or `create_page_dir` (op "dir").
    `UserStackAlloc` is `get_a_page`'s `palloc(&user_pool)` (`UserAlloc`, from spec 9).
    `TableAdd` is `page_table_add`. `KernelPageZero` is `get_kernel_pages`' `memset`.
    `PageDirFinish` is the rest of `create_page_dir`: copy entries 768..1022 of the current
    directory and write its own entry 1023. `UserStackDone` returns the stack to
    `start_process`, and `PageDirActivate` loads `cr3`. `PagingHalted` is the stopped kernel.
    The split keeps each step to what one C call does, so a halt in the middle of an
    operation (a full pool in `page_table_add`) leaves exactly the state the kernel leaves.
  - `kmap`, `dirs` and `umap` record what each call returned, so the properties can compare
    the page tables with what the callers believe.
  - MCMemory composes Paging with Memory from the same initial state. A `malloc_page`
    step (`MallocStep`) is taken only while the mapper is untouched. A mapper step
    (`PagingStep`) is taken only while no `malloc_page` call has started. The two state
    graphs therefore meet only at the start. Paging has its own pool bitmaps of `Len`
    bytes.
- **Pit** (`frequency_set` of `timer.c` c13): the three `outb`s and the 8253 that decodes the
  control word and loads low byte then high byte.

## Runs

| Run | Checks | Result |
|---|---|---|
| lib_reference | `ScanFirstFit` on a 2-byte bitmap, requests 1..4; `StringBuildersAgree`, `StrcmpIsOrder`, `PrintfAgrees` | passes, 144620 states |
| bitmap_past_end | `ScanStaysInBitmap`, 1 byte | **violated**: scan(3) with bits 2 and 5 set returns 6 (bits 6,7,8) |
| sched_safety | `TypeOK`, `ReadyListMatchesStatus`, `WokenRunsFirst`, `ReadyEventuallyRuns` (READY ~> RUNNING or halted); tasks m,a,b with blocking and stack overruns | passes, 52919 states |
| sched_guard | `GuardCheckedOnSwitch` | **violated**: `thread_block` switches away from a corrupted stack |
| mem_seq | `MemTypeOK`, `FramesNotShared`, `MappingsAccounted`, `GrantedRangeMapped`, one caller, ASSERTs on. Also Paging's `AddressSpacesAgree` (every directory maps itself at 1023, shares the kernel's tables for 768..1022, and translates every heap page and user stack to the frame its caller was given, whenever no operation is under way), `FramesOwnedOnce` (no pool frame is both a table and a page, or two pages, and frame 0 is never written) and `OnlyExhaustionHalts` (no ASSERT or `pte repeat` panic fires; only a full pool stops the kernel) | passes, 6705 states |
| mem_leak | `NoLeakOnFailure` with ASSERTs compiled out (NDEBUG), where `bitmap_scan` returns -1 | **violated**: a failed `malloc_page` keeps its pages and frames |
| mem_race | `FramesNotShared` with two callers | **violated**: two threads get the same frame from `palloc` |
| list_refines | `WellLinked`, `RefinesListSeq` and `StaleWalkReachesTail` (wherever thread_start's unmasked `elem_find` stands, even on an element popped or moved since, `next` leads to `&tail` without passing the new tag, so the walk never reads NULL, never cycles and the ASSERT never fires wrongly) with 3 elements | passes, 470 states |
| process_pgdir | `LowMemoryIntact` (a full kernel pool never makes the kernel write low physical memory), NDEBUG, a pool one page short of two processes | **violated** in 7 states: p2 empties the pool and is queued with a NULL pgdir, then p1's `start_process` takes a page table for its user stack from the empty pool and zeroes frame 0 |
| sync_mutex | `MutualExclusion`, `WaitersAreBlocked`, `NeverHalts`, `WokenEventuallyRuns`; tasks m,a,b on one lock | passes, 6630 states |
| string_strchr | `StrchrFindsAll` | **violated**: `strchr` of the byte 200 in a string holding it returns NULL |
| pit_count | `CountIsCounterValue` for IRQ0 frequencies 19..400 | **violated**: the high count byte is always 0 |

Every property of a passing run has a mutant in `PROJECT.json`: a plausible bug in a mapped
definition, under which TLC finds that property violated.

### Bounds

- **Strings.** The bytes are 'a', 'b' and 200, with strings of up to 2 bytes, and
  different garbage after each NUL. printf formats have up to three items from 16 (two plain
  bytes, two %s, two %c, six %d and four %x arguments, with 0, both signs and INT_MAX).
- **Bitmap.** The passing run has 2 bytes, so runs cross a byte boundary. The violation run
  has 1 byte, which is enough for a run to cross the end.
- **Scheduler.** Three tasks (main and two threads) with priorities 2, 1, 2. This gives
  preemption with a non-empty ready list, blocking of every thread (reaching the empty-list
  panic), and unblocking in front of a waiting thread. `ticks` values stay small because
  priorities are small. Main's real priority is 31; the logic does not depend on its size.
- **Memory.** 8 pages and requests of up to 3 pages fill the pool in three calls. They reach
  the run that crosses the end of the virtual bitmap, and the NULL path.
- **LinkedList.** Three elements give every order of every subset, and stale pointers on
  removed elements. The walker starts once per fresh element, so it walks lists of 0, 1 and 2
  elements while the others are popped, moved to the back and removed under it.
- **Process.** Main and two process pages. `KPages` is two whole processes (25 pages each)
  less one page, so the second `create_page_dir` is the first call to fail. With ASSERTs on,
  or with a large pool, the property holds: 51 and 123 states.
- **Sync.** Three tasks of priority 1 all using one lock, and `MaxRepeat = 2`. Every
  thread can block behind the holder, two can wait at once, and a waiter can be woken while
  the waker keeps running. There is no idle thread, so `NeverHalts` asks whether the lock
  users ever all wait at once.
- **Paging.** `Len = 1` (MCMemory.cfg) gives an 8-frame kernel pool and 8 heap pages. That is enough to
  fill the pool with heap pages, page directories and new page tables until `bitmap_scan`
  halts. `MaxDirs = 2` gives two user address spaces, so the second copies its kernel half
  after more heap pages are mapped, and `cr3` can switch between them.
- **Pit.** Every frequency whose count fits 16 bits up to 400 Hz.

### Fairness

- `Spec` of Scheduler has `WF_vars(TimerTick)`. The PIT raises IRQ0 periodically, and
  interrupts are on whenever a thread is outside a masked kernel operation, so the tick cannot
  be postponed forever.
- The threads' own calls (start, block, unblock) get no fairness, because a thread may compute
  forever.
- `SSpec` of Sync has `SF_syncvars(STimerTick)`. The 8259 holds IRQ0 pending while IF is
  clear and delivers it at the next `sti`, so a thread that keeps clearing and setting IF
  still takes the tick. Weak fairness would allow exactly that starvation. Each thread's
  steps inside `sync.c` (`KernelStep`) are weakly fair, because code a running thread has
  started runs on. When to take and release the lock gets no fairness.
- LinkedList is checked for safety only. The walk's termination is not a liveness property:
  a timer that popped and re-appended the element under the walker between every two reads
  would keep it going forever, and nothing in the code rules that out, only the length of a
  time slice. `StaleWalkReachesTail` says instead that the walk ends as soon as the list
  stops changing. Pit is checked only by its violation run, with
  CHECK_DEADLOCK FALSE because `frequency_set` ends.

## Findings

1. `bitmap_scan` can return a run that ends one bit past the bitmap (`bitmap.c:48`).
2. The quantum is priority + 1 ticks (`timer.c:29`), but the spec says priority. This is
   read from the code (the `ticks == 0` test comes before the decrement) and has no run.
3. The stack guard is checked only on timer ticks (`timer.c:24`), but the spec says on every
   scheduling decision.
4. Exhaustion halts the kernel under ASSERT (`bitmap.c:32`), but the spec says NULL is
   returned. This is read from the code and not given a run, because filling the pool in a
   test reaches it.
5. A failed `malloc_page` leaks its virtual pages and frames (`memory.c:265`).
6. `palloc` is not atomic, so two threads can be given one frame (`memory.c:179`).
7. `frequency_set` writes 0 as the PIT's high count byte (`timer.c:51`).
8. Under NDEBUG, an empty kernel pool makes the kernel overwrite low memory. `process_execute`
   checks neither the user bitmap's pages (`process copy.c:123`) nor `create_page_dir`'s
   result (`:142`). It queues a process whose pgdir is NULL. The next `start_process`
   then calls `get_a_page`, whose `page_table_add` takes the pool's NULL as a page table
   (`memory.c:224`) and zeroes the GDT in frame 0. No process ever reaches level 3 on the
   kernel's directory. Its `get_a_page` would fault first for the same reason.
9. `strchr`, `strrchr` and `strchrs` never match a byte of 0x80 or more (`string.c:72`).
   They compare a signed `char` with a `uint8_t`.

10. `mem_pool_init` counts free pages in a `uint16_t` (`memory.c:46`). From 258 MB the
    count wraps: at 258 MB both pools are empty, and at 512 MB half the memory is unused.
    This is read from the code and from MemPool's `MemPoolInit`, and has no run (none is
    left for it). Widening the type alone would let the three bitmaps overwrite the main
    thread's pcb from about 344 MB.
11. `general_intr_handler` skips the spurious vectors 0x27 and 0x2f (`interrupt.c:89`), but
    the IDT has only 0x21 gates. A spurious IRQ7 is therefore past `lidt`'s limit and
    raises #GP, and the kernel spins (`Interrupt`'s `Handler(39)` is "hang"). This is read
    from the model and has no run, because only the 8259A itself raises a spurious IRQ7.

12. `page_table_add` does not check `palloc(&kernel_pool)` for NULL when it makes a page
    table (`memory.c:224`). In the debug build, `bitmap_scan`'s ASSERT stops the kernel
    first. Under NDEBUG, `TableAdd` for a user stack after the kernel pool fills writes a PDE naming frame 0.
    It zeroes the GDT there and writes the user PTE into it. With `NDEBUG = TRUE` in
    MCMemory.cfg, TLC reports `FramesOwnedOnce` violated. This is recorded here rather than as a
    run.

## Not modelled, and the plan

Not modelled, and why:
- `switch_to`, the stack frames built by `thread_create`, `memset` zeroing and `printf`: they
  are data layout, not control.
- `make_idt_desc`'s descriptor bytes: data layout. `Interrupt` keeps only which handler
  each vector reaches.
- The fs and shell headers: there is no code.
- A semaphore used directly with more than one permit: the kernel's only user is the lock.
- What `general_intr_handler` prints, and the exception names: console output.
- `%d` of INT_MIN and `%x` of negative values: their 32-bit forms are outside TLC's
  integers.
- `sprintf` into a used buffer: it has no caller. `vsprintf` writes no final NUL.
- The TLB: `page_dir_activate` reloads `cr3`, which flushes it. No other code changes an
  entry that is already present.
- `addr_v2p` and `get_a_page` are not in these sources. They are modelled from spec 9: a
  page-table walk, and `vaddr` bookkeeping plus `palloc` plus `page_table_add`.
- `mtime_sleep`: it needs `thread_yield`, which is not in the sources.

Next, in order:
1. Done: **Sync** (run sync_mutex).
2. **Kernel**: composes Scheduler with Memory. `thread_start` calls `get_kernel_pages`, timer
   preemption happens inside `malloc_page`, and the unchecked NULL (`thread.c:88`) is
   included. (`elem_find` walking the ready list while `schedule` changes it, `thread.c:94`,
   is done in ListWalk.)
3. **MemPool**: a run for the `uint16_t` wrap (finding 10), once a run slot is free.
4. **Process**, further: (the user pool and `get_a_page` are done in Paging) a passing run for `process_activate`
   across thread/process switches, and the composition with Memory.
5. Done: `string.c` and `stdio.c` (runs lib_reference and string_strchr).
