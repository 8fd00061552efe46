------------------------------- MODULE Paging -------------------------------
(***************************************************************************)
(* The two-level page-table mapper of kernel/memory.c (c8) and the page    *)
(* directories of userprog/process copy.c (c13).                           *)
(*                                                                         *)
(* Physical memory is an arena: mem[f][s] is entry s of frame f, a 32-bit  *)
(* value frame * PG_SIZE + flags.  Only the frames that can hold a page    *)
(* directory or page table are in the arena, and only the entry indices    *)
(* the modelled addresses use are in Slots.  A virtual address is a page   *)
(* number (the top 20 bits) and an offset; the CPU walks the directory in  *)
(* cr3, then the table its entry names.  The last directory entry names   *)
(* the directory itself, so pde_ptr and pte_ptr reach the tables through   *)
(* the fixed window at 0xffc00000.  Newly present entries are never in    *)
(* the TLB, so the walk is done on the current arena.                      *)
(*                                                                         *)
(* The operations run as the single task calling them sees them, one     *)
(* step per function they call: malloc_page's reservations, page_table_add, *)
(* the memset of get_kernel_pages, the rest of create_page_dir (Memory     *)
(* models the interleaving of malloc_page).  A step works on a record S of *)
(* the arena, the three bitmaps, the halt reason err and the results.      *)
(***************************************************************************)
EXTENDS Bitmap, Bitwise, FiniteSets

CONSTANT MaxDirs     \* page directories create_page_dir is asked for

PG_SIZE == 4096
PG_FLAGS == 7                \* PG_US_U | PG_RW_W | PG_P_1
NULL == 0                    \* a NULL pointer or physical address
Fault == -1                  \* the walk met an entry without PG_P_1

KernelDir == 256             \* the loader's page directory at 0x100000
KPoolBase == 512             \* kernel_pool.phy_addr_start = 0x200000
UPoolBase == KPoolBase + NBits   \* user_pool.phy_addr_start
KFrames == {KPoolBase + i : i \in BitIdx}
HeapVpn(h) == 786688 + h     \* K_HEAP_START (0xc0100000) + h * PG_SIZE
USER_STACK3_VADDR == 786431  \* 0xc0000000 - 0x1000
Slots == {256 + h : h \in BitIdx} \cup {767, 768, 1022, 1023}
Arena == {0, KernelDir, 257} \cup KFrames
LowMem == 2                  \* what frame 0 holds below the kernel: the GDT
Stale == 7                   \* what a never-used pool frame may hold

\* PDE_IDX and PTE_IDX of memory.c, on the page number of the address
PDE_IDX(vpn) == shiftR(vpn & 1047552, 10)     \* (addr & 0xffc00000) >> 22
PTE_IDX(vpn) == vpn & 1023                    \* (addr & 0x003ff000) >> 12

Entry(f) == f * PG_SIZE + PG_FLAGS
Present(e) == e % 2 = 1
FrameOf(e) == e \div PG_SIZE

\* pde_ptr: 0xfffff000 + PDE_IDX(vaddr) * 4
PdePtr(vpn) == [page |-> 1048575, off |-> PDE_IDX(vpn) * 4]

\* pte_ptr: 0xffc00000 + ((vaddr & 0xffc00000) >> 10) + PTE_IDX(vaddr) * 4
PtePtr(vpn) == [page |-> 1047552 + shiftR(vpn & 1047552, 10),
                off |-> PTE_IDX(vpn) * 4]

\* The MMU: the frame virtual page vpn maps to under directory d.
Translate(m, d, vpn) ==
    LET pde == m[d][vpn \div 1024]
        pte == m[FrameOf(pde)][vpn % 1024]
    IN  IF ~Present(pde) \/ FrameOf(pde) \notin Arena \/ ~Present(pte)
        THEN Fault ELSE FrameOf(pte)

\* An access through pointer p faults when its page is not mapped (or
\* maps outside the arena, which no correct pointer of this code does).
Faults(S, c, p) == Translate(S.mem, c, p.page) \notin Arena

Load(S, c, p) ==
    IF Faults(S, c, p) THEN 0 ELSE S.mem[Translate(S.mem, c, p.page)][p.off \div 4]

\* A store after a halt does not happen; a store that faults halts in
\* general_intr_handler(14).
Halt(S, why) == IF S.err = "none" THEN [S EXCEPT !.err = why] ELSE S

Store(S, c, p, v) ==
    CASE S.err # "none" -> S
      [] Faults(S, c, p) -> Halt(S, "#PF")
      [] OTHER -> [S EXCEPT !.mem[Translate(S.mem, c, p.page)][p.off \div 4] = v]

\* memset(page, 0, PG_SIZE)
ZeroPage(S, c, page) ==
    CASE S.err # "none" -> S
      [] Faults(S, c, [page |-> page, off |-> 0]) -> Halt(S, "#PF")
      [] OTHER -> [S EXCEPT !.mem[Translate(S.mem, c, page)] = [s \in Slots |-> 0]]

\* Mutant: palloc does not mark the frame it hands out.
PallocUnmarked(bits, base) ==
    LET i == BitmapScan(bits, 1)
    IN  IF i = -1 THEN [frame |-> NULL, bits |-> bits]
        ELSE [frame |-> base + i, bits |-> bits]

\* palloc: bitmap_scan for one bit, bitmap_set, phy_addr_start + the
\* index's page; NULL when the scan finds nothing.  (A full pool makes the
\* scan halt first unless NDEBUG: BitmapScanPanics.)
Palloc(bits, base) ==
    LET i == BitmapScan(bits, 1)
    IN  IF i = -1 THEN [frame |-> NULL, bits |-> bits]
        ELSE [frame |-> base + i, bits |-> BitmapSet(bits, i, 1)]

(***************************************************************************)
(* page_table_add(vaddr, page_phyaddr) in directory c.  With the PDE       *)
(* present: ASSERT and PANIC "pte repeat" on a present PTE, else the PTE is *)
(* written.  Without it: a kernel-pool frame becomes the table (palloc's  *)
(* result unchecked: NULL gives physical address 0), the PDE is written,   *)
(* the table is zeroed through the window, ASSERT that the PTE is clear,   *)
(* then the PTE is written.                                                *)
(***************************************************************************)
\* Mutant: the new table is zeroed through pte before *pde exists.
NewTableEarly(S, c, vpn, f) ==
    Store(ZeroPage(S, c, PtePtr(vpn).page), c, PdePtr(vpn), Entry(f))

\* memory.c:225-236: *pde = pde_phyaddr | flags; memset(pte & 0xfffff000)
NewTable(S, c, vpn, f) ==
    ZeroPage(Store(S, c, PdePtr(vpn), Entry(f)), c, PtePtr(vpn).page)

PageTableAdd(S, c, vpn, pa) ==
    LET pde == PdePtr(vpn)
        pte == PtePtr(vpn)
        a   == Palloc(S.kp, KPoolBase)
        S1  == NewTable([S EXCEPT !.kp = a.bits], c, vpn, a.frame)
    IN  CASE S.err # "none" -> S
          [] Present(Load(S, c, pde)) /\ Present(Load(S, c, pte)) ->
                 Halt(S, "page_table_add: pte repeat")
          [] Present(Load(S, c, pde)) -> Store(S, c, pte, Entry(pa))
          [] BitmapScanPanics(S.kp) -> Halt(S, "bitmap_scan: bitmap full")
          [] ~NDEBUG /\ Present(Load(S1, c, pte)) -> Halt(S1, "page_table_add: assert")
          [] OTHER -> Store(S1, c, pte, Entry(pa))

(***************************************************************************)
(* malloc_page(PF_KERNEL, 1) up to its page_table_add: vaddr_get on        *)
(* kernel_vaddr, then palloc on kernel_pool.  A NULL from either scan is   *)
(* returned as NULL, the virtual page kept (memory.c:265-268).  ret is the *)
(* heap page, pa the frame for it.                                         *)
(***************************************************************************)
MallocAlloc(S) ==
    LET h  == BitmapScan(S.kv, 1)
        S1 == [S EXCEPT !.kv = BitmapSet(S.kv, h, 1)]
        a  == Palloc(S1.kp, KPoolBase)
    IN  CASE BitmapScanPanics(S.kv) -> Halt(S, "bitmap_scan: bitmap full")
          [] h = -1 -> S
          [] BitmapScanPanics(S1.kp) -> Halt(S1, "bitmap_scan: bitmap full")
          [] a.frame = NULL -> S1
          [] OTHER -> [S1 EXCEPT !.kp = a.bits, !.ret = HeapVpn(h), !.pa = a.frame]

\* Mutant: memcpy of 1020 bytes, one entry short of the kernel half.
CopyKernelHalfShort(S, c, dst) ==
    LET from == Translate(S.mem, c, 1048575)
        to   == Translate(S.mem, c, dst)
    IN  [S EXCEPT !.mem[to] = [s \in Slots |-> IF s \in 768 .. 1021
                                               THEN S.mem[from][s] ELSE @[s]]]

\* create_page_dir's memcpy(page_dir_vaddr + 0x300 * 4,
\* 0xfffff000 + 0x300 * 4, 1024): entries 768 .. 1023 of the directory in
\* use, read through its own last entry.
CopyKernelHalf(S, c, dst) ==
    LET from == Translate(S.mem, c, 1048575)
        to   == Translate(S.mem, c, dst)
    IN  [S EXCEPT !.mem[to] = [s \in Slots |-> IF s >= 768
                                               THEN S.mem[from][s] ELSE @[s]]]

\* create_page_dir after its get_kernel_pages(1) gave page vpn: copy the
\* kernel half, addr_v2p of the page, make entry 1023 name its own frame.
\* ret is the directory's frame.
FinishPageDir(S, c, vpn) ==
    LET S1 == CopyKernelHalf(S, c, vpn)
        d  == Translate(S1.mem, c, vpn)
    IN  [Store(S1, c, [page |-> vpn, off |-> 1023 * 4], Entry(d)) EXCEPT !.ret = d]

\* get_a_page(PF_USER, vaddr) up to its page_table_add: palloc on user_pool.
UserAlloc(S) ==
    LET a == Palloc(S.up, UPoolBase)
    IN  CASE BitmapScanPanics(S.up) -> Halt(S, "bitmap_scan: bitmap full")
          [] a.frame = NULL -> S
          [] OTHER -> [S EXCEPT !.up = a.bits, !.ret = USER_STACK3_VADDR, !.pa = a.frame]
-----------------------------------------------------------------------------
VARIABLES
    mem,        \* the arena
    kvaddr,     \* kernel_vaddr.vaddr_bitmap
    kpool,      \* kernel_pool.pool_bitmap
    upool,      \* user_pool.pool_bitmap
    halted,     \* "none", or why the kernel stopped
    cr3,        \* the directory the CPU walks
    dirs,       \* frames of the directories create_page_dir returned
    kmap,       \* kmap[h]: the frame heap page h was given, or NULL
    umap,       \* umap[d]: the frame of process d's user stack, or NULL
    ppc,        \* where the calling task is: "idle" or the next call
    arg         \* the operation under way, its page and frame

pgvars == <<mem, kvaddr, kpool, upool, halted, cr3, dirs, kmap, umap, ppc, arg>>

\* The state as a step sees it, and a step that commits a result.
Now == [mem |-> mem, kv |-> kvaddr, kp |-> kpool, up |-> upool,
        err |-> "none", ret |-> NULL, pa |-> NULL]
Commit(S) ==
    /\ mem' = S.mem /\ kvaddr' = S.kv /\ kpool' = S.kp /\ upool' = S.up
    /\ halted' = S.err

(***************************************************************************)
(* After the loader and mem_init: the kernel directory has its entries     *)
(* 768 .. 1022 for the tables at 0x101000 .. 0x1ff000 and 1023 for itself; *)
(* no heap page is mapped; the pool bitmaps are clear.  A pool frame holds *)
(* what was left in RAM, here an entry that looks present.                 *)
(***************************************************************************)
PagingInit ==
    /\ mem = [f \in Arena |->
                 CASE f = 0 -> [s \in Slots |-> LowMem]
                   [] f = KernelDir ->
                          [s \in Slots |-> CASE s = 1023 -> Entry(KernelDir)
                                           [] s >= 768  -> Entry(s - 511)
                                           [] OTHER     -> 0]
                   [] f = 257 -> [s \in Slots |-> 0]
                   [] OTHER -> [s \in Slots |-> Stale]]
    /\ kvaddr = [i \in 0 .. NBits |-> 0]
    /\ kpool = [i \in 0 .. NBits |-> 0]
    /\ upool = [i \in 0 .. NBits |-> 0]
    /\ halted = "none"
    /\ cr3 = KernelDir
    /\ dirs = {}
    /\ kmap = [h \in BitIdx |-> NULL]
    /\ umap = [f \in KFrames |-> NULL]
    /\ ppc = "idle"
    /\ arg = [op |-> "kernel", vpn |-> NULL, pa |-> NULL]

\* A kernel thread's get_kernel_pages(1) (thread_start's pcb, the user
\* vaddr bitmap of process_execute), or process_execute's create_page_dir
\* (op "dir"), starts with malloc_page's reservations.
KernelPageAlloc ==
    /\ halted = "none" /\ ppc = "idle" /\ cr3 = KernelDir
    /\ \E op \in {"kernel", "dir"} :
          /\ op = "dir" => Cardinality(dirs) < MaxDirs
          /\ LET S == MallocAlloc(Now)
             IN  /\ Commit(S)
                 /\ IF S.err = "none" /\ S.ret # NULL
                    THEN ppc' = "add" /\ arg' = [op |-> op, vpn |-> S.ret, pa |-> S.pa]
                    ELSE UNCHANGED <<ppc, arg>>
    /\ UNCHANGED <<cr3, dirs, kmap, umap>>

\* start_process, run once by each process in its own address space:
\* get_a_page(PF_USER, USER_STACK3_VADDR) starts with palloc.
UserStackAlloc ==
    /\ halted = "none" /\ ppc = "idle" /\ cr3 \in dirs /\ umap[cr3] = NULL
    /\ LET S == UserAlloc(Now)
       IN  /\ Commit(S)
           /\ IF S.err = "none" /\ S.pa # NULL
              THEN ppc' = "add" /\ arg' = [op |-> "user", vpn |-> S.ret, pa |-> S.pa]
              ELSE UNCHANGED <<ppc, arg>>
    /\ UNCHANGED <<cr3, dirs, kmap, umap>>

\* page_table_add(arg.vpn, arg.pa) in the directory in use.
TableAdd ==
    /\ halted = "none" /\ ppc = "add"
    /\ Commit(PageTableAdd(Now, cr3, arg.vpn, arg.pa))
    /\ ppc' = IF arg.op = "user" THEN "user_done" ELSE "zero"
    /\ UNCHANGED <<cr3, dirs, kmap, umap, arg>>

\* get_kernel_pages: memset of the new page, which is returned; for
\* create_page_dir the directory is then filled in.
KernelPageZero ==
    /\ halted = "none" /\ ppc = "zero"
    /\ LET S == ZeroPage(Now, cr3, arg.vpn)
       IN  /\ Commit(S)
           /\ kmap' = IF S.err # "none" THEN kmap
                      ELSE [kmap EXCEPT ![arg.vpn - 786688] = Translate(S.mem, cr3, arg.vpn)]
    /\ ppc' = IF arg.op = "dir" THEN "dir" ELSE "idle"
    /\ UNCHANGED <<cr3, dirs, umap, arg>>

\* the rest of create_page_dir; process_execute keeps the directory.
PageDirFinish ==
    /\ halted = "none" /\ ppc = "dir"
    /\ LET S == FinishPageDir(Now, cr3, arg.vpn)
       IN  /\ Commit(S)
           /\ dirs' = IF S.err # "none" THEN dirs ELSE dirs \cup {S.ret}
    /\ ppc' = "idle"
    /\ UNCHANGED <<cr3, kmap, umap, arg>>

\* get_a_page returns the frame as the user stack.
UserStackDone ==
    /\ halted = "none" /\ ppc = "user_done"
    /\ umap' = [umap EXCEPT ![cr3] = arg.pa]
    /\ ppc' = "idle"
    /\ UNCHANGED <<mem, kvaddr, kpool, upool, halted, cr3, dirs, kmap, arg>>

\* schedule's process_activate: page_dir_activate loads the task's directory
\* (addr_v2p of pgdir) or 0x100000 for a kernel thread.
PageDirActivate ==
    /\ halted = "none" /\ ppc = "idle"
    /\ \E d \in dirs \cup {KernelDir} : cr3' = d
    /\ UNCHANGED <<mem, kvaddr, kpool, upool, halted, dirs, kmap, umap, ppc, arg>>

PagingHalted == halted # "none" /\ UNCHANGED pgvars

PagingNext ==
    \/ KernelPageAlloc \/ UserStackAlloc \/ TableAdd \/ KernelPageZero
    \/ PageDirFinish \/ UserStackDone \/ PageDirActivate \/ PagingHalted

-----------------------------------------------------------------------------
(* Every address space maps exactly what the mapper put in: its entry 1023 *)
(* names its own frame, its kernel half is the kernel directory's (the     *)
(* tables are shared, so heap pages mapped after create_page_dir show in   *)
(* every directory), each heap page maps the frame get_kernel_pages gave   *)
(* it and the user stack page the frame of this process's get_a_page,    *)
(* whenever no operation is under way.                                    *)
AddressSpacesAgree ==
    halted = "none" /\ ppc = "idle" =>
        \A d \in dirs \cup {KernelDir} :
            /\ Translate(mem, d, 1048575) = d
            /\ \A s \in Slots : s \in 768 .. 1022 => mem[d][s] = mem[KernelDir][s]
            /\ \A h \in BitIdx :
                   Translate(mem, d, HeapVpn(h)) = IF kmap[h] = NULL THEN Fault ELSE kmap[h]
            /\ Translate(mem, d, USER_STACK3_VADDR) =
                   IF d \in dirs /\ umap[d] # NULL THEN umap[d] ELSE Fault

(* Each kernel-pool frame has one owner: the heap pages (directories among *)
(* them) and the page tables page_table_add made are distinct frames      *)
(* marked in kernel_pool, and frame 0 below the kernel is never written.   *)
FramesOwnedOnce ==
    LET withTable == {d \in dirs : Present(mem[d][767])}
        tables    == {FrameOf(mem[d][767]) : d \in withTable}
        mapped    == {h \in BitIdx : kmap[h] # NULL}
        heap      == {kmap[h] : h \in mapped}
    IN  halted = "none" =>
            /\ Cardinality(tables) = Cardinality(withTable)
            /\ Cardinality(heap) = Cardinality(mapped)
            /\ tables \cap heap = {}
            /\ \A f \in tables \cup heap : f \in KFrames /\ kpool[f - KPoolBase] = 1
            /\ mem[0] = [s \in Slots |-> LowMem]

(* The mapper stops the kernel only when a pool is full: it never writes a *)
(* table through the window before the directory entry exists (a page      *)
(* fault), and its ASSERTs and its "pte repeat" PANIC never fire, which   *)
(* needs the new table zeroed before the PTE is tested.                    *)
OnlyExhaustionHalts == halted \in {"none", "bitmap_scan: bitmap full"}
=============================================================================
