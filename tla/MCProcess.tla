----------------------------- MODULE MCProcess -----------------------------
(***************************************************************************)
(* Process with main and two process pages.  KPages leaves room for one    *)
(* whole process (pcb, 23 bitmap pages, page directory) and, for the       *)
(* second, the pcb and the bitmap but not the page directory.             *)
(***************************************************************************)
EXTENDS Process

CONSTANTS m, p1, p2

MCTasks == {m, p1, p2}
\* default_prio is 31 in the code; 2 keeps slices short
MCPrio == (m :> 2) @@ (p1 :> 2) @@ (p2 :> 2)
MCKPages == 2 * (1 + UserBitmapPages + 1) - 1

-----------------------------------------------------------------------------
(* A full kernel pool never makes the kernel overwrite low physical       *)
(* memory: the GDT in frame 0 and the kernel the loader put below 1 MB.    *)
(* The spec (78) says exhaustion is a sentinel every caller checks before  *)
(* using it.  process_execute checks neither create_user_vaddr_bitmap's    *)
(* pages (bitmap_init then clears 94199 bytes from address 0) nor          *)
(* create_page_dir's (the task is queued with a NULL pgdir, runs on the    *)
(* kernel's directory, and its start_process's get_a_page needs a page     *)
(* table from the empty pool, which page_table_add does not check).        *)
LowMemoryIntact ==
    panic \notin {"bitmap_init: memset(NULL) over the kernel",
                  "page_table_add: PDE names frame 0"}

=============================================================================
