------------------------------- MODULE Memory -------------------------------
(***************************************************************************)
(* The kernel heap allocator of kernel/memory.c (c8): malloc_page and      *)
(* get_kernel_pages, with vaddr_get, palloc and page_table_add.            *)
(*                                                                         *)
(* The kernel virtual-address bitmap and the kernel physical pool bitmap   *)
(* have the same length, kbm_length = Len bytes (mem_pool_init).  Heap     *)
(* page v is K_HEAP_START + v * PG_SIZE; frame f is kernel_pool            *)
(* .phy_addr_start + f * PG_SIZE.  pte[v] is the frame page v maps to.     *)
(* Heap page NBits, the one bit past the virtual bitmap, is a real         *)
(* virtual address too: vaddr_get can hand it out (see Bitmap!Walk).       *)
(*                                                                         *)
(* The page directory entries of the whole kernel range exist from boot    *)
(* (loader: PDEs 768..1022, mem_pool_init:40-44), so for a heap address    *)
(* page_table_add always takes its "PDE present" branch.                   *)
(*                                                                         *)
(* None of these functions masks interrupts, so a caller can be preempted  *)
(* between any two of its steps; the steps below split malloc_page at the  *)
(* points where what it read from a bitmap is used afterwards.             *)
(***************************************************************************)
EXTENDS Bitmap

CONSTANTS
    Callers,     \* threads that call get_kernel_pages
    MaxReq,      \* largest pg_cnt requested
    NoFrame,     \* pte not present
    PF_KERNEL, PF_USER

ASSUME MaxReq \in 1 .. 3839                 \* malloc_page's ASSERT on pg_cnt

HeapPages == 0 .. NBits
Frames    == 0 .. NBits - 1
\* what malloc_page returned: a heap page index, NULL, or nothing yet
Null      == -1
NoResult  == -2

VARIABLES
    kernel_vaddr,   \* kernel_vaddr.vaddr_bitmap (and the bit after it)
    kernel_pool,    \* kernel_pool.pool_bitmap (and the bit after it)
    pte,            \* pte[v]: the frame heap page v maps to, or NoFrame
    panic,          \* "none", or the ASSERT / PANIC that halted the kernel
    mpc,            \* where each caller is in malloc_page
    pg_cnt,         \* the request
    vaddr_start,    \* bit index vaddr_get returned
    vaddr,          \* next heap page to map
    cnt,            \* pages still to map
    bit_idx,        \* what the last bitmap_scan of the caller returned
    result          \* what malloc_page last returned to the caller

mvars == <<kernel_vaddr, kernel_pool, pte, panic, mpc, pg_cnt, vaddr_start,
           vaddr, cnt, bit_idx, result>>
locals == <<pg_cnt, vaddr_start, vaddr, cnt, bit_idx>>

(* After mem_init: both bitmaps zeroed by bitmap_init.  The byte after the *)
(* kernel pool bitmap is the user pool bitmap (zeroed); the byte after the *)
(* virtual bitmap is memory nobody initialises.                            *)
MemInit ==
    /\ \E adj \in {0, 1} :
           kernel_vaddr = [i \in 0 .. NBits |-> IF i < NBits THEN 0 ELSE adj]
    /\ kernel_pool = [i \in 0 .. NBits |-> 0]
    /\ pte = [v \in HeapPages |-> NoFrame]
    /\ panic = "none"
    /\ mpc = [c \in Callers |-> "idle"]
    /\ pg_cnt = [c \in Callers |-> 0]
    /\ vaddr_start = [c \in Callers |-> 0]
    /\ vaddr = [c \in Callers |-> 0]
    /\ cnt = [c \in Callers |-> 0]
    /\ bit_idx = [c \in Callers |-> 0]
    /\ result = [c \in Callers |-> NoResult]

\* Mutant: vaddr_get's loop sets one bit fewer than pg_cnt.
ReserveShort(bits, s, n) ==
    [i \in DOMAIN bits |-> IF i \in s .. s + n - 2 THEN 1 ELSE bits[i]]

\* vaddr_get's loop: bitmap_set(&kernel_vaddr.vaddr_bitmap, s + cnt, 1)
\* for cnt in 0 .. pg_cnt - 1
Reserve(bits, s, n) ==
    [i \in DOMAIN bits |-> IF i \in s .. s + n - 1 THEN 1 ELSE bits[i]]

\* Mutant: palloc forgets to mark the frame it found.
PallocNoSet(pool, idx) == pool

\* palloc: bitmap_set(&m_pool->pool_bitmap, bit_idx, 1)
PallocSet(pool, idx) == BitmapSet(pool, idx, 1)

\* Mutant: the loop test reads the post-decremented counter as ">= 0".
MoreToMapNonStrict(c) == cnt[c] >= 0

\* Mutant: malloc_page's loop maps one page fewer than requested.
MoreToMapShort(c) == cnt[c] > 1

\* malloc_page: while ((cnt--) > 0)
MoreToMap(c) == cnt[c] > 0

Return(c, r) ==
    /\ mpc' = [mpc EXCEPT ![c] = "idle"]
    /\ result' = [result EXCEPT ![c] = r]

-----------------------------------------------------------------------------
(***************************************************************************)
(* malloc_page(pf, n) up to the scan of vaddr_get.  For PF_USER vaddr_get  *)
(* has no branch yet and returns NULL.  For PF_KERNEL bitmap_scan either   *)
(* halts (ASSERT: no byte with a free bit), finds nothing (NULL), or gives *)
(* the start of the run, which the caller holds until it sets the bits.    *)
(***************************************************************************)
VaddrGet(c, pf, n) ==
    /\ panic = "none" /\ mpc[c] = "idle"
    /\ IF pf = PF_USER
       THEN Return(c, Null) /\ UNCHANGED <<panic, locals>>
       ELSE IF BitmapScanPanics(kernel_vaddr)
       THEN panic' = "bitmap_scan: bitmap full" /\ UNCHANGED <<mpc, result, locals>>
       ELSE LET s == BitmapScan(kernel_vaddr, n)
            IN  IF s = -1
                THEN Return(c, Null) /\ UNCHANGED <<panic, locals>>
                ELSE /\ mpc' = [mpc EXCEPT ![c] = "vaddr_scanned"]
                     /\ pg_cnt' = [pg_cnt EXCEPT ![c] = n]
                     /\ bit_idx' = [bit_idx EXCEPT ![c] = s]
                     /\ UNCHANGED <<panic, result, vaddr_start, vaddr, cnt>>
    /\ UNCHANGED <<kernel_vaddr, kernel_pool, pte>>

\* vaddr_get marks the run and returns its address; malloc_page starts its
\* loop at that page with cnt = pg_cnt.
VaddrSet(c) ==
    /\ panic = "none" /\ mpc[c] = "vaddr_scanned"
    /\ kernel_vaddr' = Reserve(kernel_vaddr, bit_idx[c], pg_cnt[c])
    /\ vaddr_start' = [vaddr_start EXCEPT ![c] = bit_idx[c]]
    /\ vaddr' = [vaddr EXCEPT ![c] = bit_idx[c]]
    /\ cnt' = [cnt EXCEPT ![c] = pg_cnt[c]]
    /\ mpc' = [mpc EXCEPT ![c] = "palloc"]
    /\ UNCHANGED <<kernel_pool, pte, panic, pg_cnt, bit_idx, result>>

\* The loop is done: malloc_page returns vaddr_start (get_kernel_pages then
\* zeroes the pages, which the model does not represent).
MallocDone(c) ==
    /\ panic = "none" /\ mpc[c] = "palloc" /\ ~MoreToMap(c)
    /\ Return(c, vaddr_start[c])
    /\ UNCHANGED <<kernel_vaddr, kernel_pool, pte, panic, locals>>

(***************************************************************************)
(* One turn of malloc_page's loop, first half: palloc's bitmap_scan of the *)
(* kernel pool for one bit.  It halts (ASSERT) on a full pool; under       *)
(* NDEBUG it returns NULL, and malloc_page returns NULL without undoing    *)
(* the virtual pages or the frames of earlier turns (memory.c:265-268).    *)
(***************************************************************************)
PallocScan(c) ==
    /\ panic = "none" /\ mpc[c] = "palloc" /\ MoreToMap(c)
    /\ IF BitmapScanPanics(kernel_pool)
       THEN panic' = "bitmap_scan: bitmap full" /\ UNCHANGED <<mpc, result, locals>>
       ELSE LET idx == BitmapScan(kernel_pool, 1)
            IN  IF idx = -1
                THEN Return(c, Null) /\ UNCHANGED <<panic, locals>>
                ELSE /\ mpc' = [mpc EXCEPT ![c] = "palloc_scanned"]
                     /\ bit_idx' = [bit_idx EXCEPT ![c] = idx]
                     /\ UNCHANGED <<panic, result, pg_cnt, vaddr_start, vaddr, cnt>>
    /\ UNCHANGED <<kernel_vaddr, kernel_pool, pte>>

(***************************************************************************)
(* Second half: palloc marks the frame; page_table_add finds the PDE       *)
(* present, PANICs "pte repeat" if the PTE is already present, else writes *)
(* it; the loop moves to the next page.                                    *)
(***************************************************************************)
MapPage(c) ==
    /\ panic = "none" /\ mpc[c] = "palloc_scanned"
    /\ kernel_pool' = PallocSet(kernel_pool, bit_idx[c])
    /\ IF pte[vaddr[c]] # NoFrame
       THEN /\ panic' = "page_table_add: pte repeat"
            /\ UNCHANGED <<pte, mpc, vaddr, cnt>>
       ELSE /\ pte' = [pte EXCEPT ![vaddr[c]] = bit_idx[c]]
            /\ vaddr' = [vaddr EXCEPT ![c] = @ + 1]
            /\ cnt' = [cnt EXCEPT ![c] = @ - 1]
            /\ mpc' = [mpc EXCEPT ![c] = "palloc"]
            /\ UNCHANGED panic
    /\ UNCHANGED <<kernel_vaddr, pg_cnt, vaddr_start, bit_idx, result>>

MemHalted == panic # "none" /\ UNCHANGED mvars

MemNext ==
    \/ \E c \in Callers, pf \in {PF_KERNEL, PF_USER}, n \in 1 .. MaxReq :
           VaddrGet(c, pf, n)
    \/ \E c \in Callers : VaddrSet(c) \/ MallocDone(c) \/ PallocScan(c) \/ MapPage(c)
    \/ MemHalted

MemSpec == MemInit /\ [][MemNext]_mvars

-----------------------------------------------------------------------------
MemTypeOK ==
    /\ kernel_vaddr \in Bitmaps /\ kernel_pool \in Bitmaps
    /\ pte \in [HeapPages -> Frames \cup {NoFrame}]
    /\ mpc \in [Callers -> {"idle", "vaddr_scanned", "palloc", "palloc_scanned"}]
    /\ pg_cnt \in [Callers -> 0 .. MaxReq]
    /\ vaddr \in [Callers -> 0 .. NBits + MaxReq]
    /\ cnt \in [Callers -> 0 .. MaxReq]
    /\ result \in [Callers -> {NoResult, Null} \cup HeapPages]
=============================================================================
