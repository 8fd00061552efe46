------------------------------- MODULE MemPool -------------------------------
(***************************************************************************)
(* mem_pool_init of kernel/memory.c (c8): how the installed memory is cut  *)
(* into the kernel pool and the user pool, and where their bitmaps and the *)
(* kernel heap's bitmap are put.                                           *)
(*                                                                         *)
(* The arithmetic is done in pages: used_mem, 0x100000 plus the 256 pages  *)
(* of page directory and tables, is 512 pages exactly, so free_mem /       *)
(* PG_SIZE is the installed page count less 512.  Bitmap addresses are    *)
(* offsets from MEM_BITMAP_BASE (0xc009a000).  Both keep the numbers       *)
(* within TLC's integers.                                                  *)
(***************************************************************************)
EXTENDS Integers

UsedPages == 512             \* (0x100000 + PG_SIZE * 256) / PG_SIZE
MainPcbOffset == 16384       \* 0xc009e000 - MEM_BITMAP_BASE: the main thread's pcb

(***************************************************************************)
(* mem_pool_init(all_mem), with all_mem in whole pages (at least the 512  *)
(* in use): all_free_pages is a uint16_t, so the page count is taken       *)
(* modulo 65536; the kernel gets half (rounded down), the user the rest;  *)
(* each pool starts where the previous ends; a bitmap has one bit per     *)
(* page, the remainder of a byte dropped.                                  *)
(***************************************************************************)
MemPoolInit(all_pages) ==
    LET all_free_pages == (all_pages - UsedPages) % 65536
        kernel_free_pages == all_free_pages \div 2
        user_free_pages == all_free_pages - kernel_free_pages
    IN  [kp_start |-> UsedPages, kpages |-> kernel_free_pages,
         up_start |-> UsedPages + kernel_free_pages, upages |-> user_free_pages,
         kbm_length |-> kernel_free_pages \div 8,
         ubm_length |-> user_free_pages \div 8]

\* The three bitmaps one after the other from MEM_BITMAP_BASE: the kernel
\* pool's, the user pool's, then kernel_vaddr's, as long as the kernel's.
BitmapsEnd(p) == p.kbm_length + p.ubm_length + p.kbm_length
=============================================================================
