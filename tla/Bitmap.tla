------------------------------- MODULE Bitmap -------------------------------
(***************************************************************************)
(* The byte-backed bit vector of lib/kernel/bitmap.c, as pure operators.   *)
(*                                                                         *)
(* A bitmap of Len bytes indexes NBits = 8 * Len resources.  It is kept    *)
(* as a function over 0 .. NBits: the extra index NBits is the first bit   *)
(* of the byte that lies just after the bitmap in memory.  bitmap_scan     *)
(* reads that bit (see Walk) and vaddr_get may write it, so it is part of  *)
(* what the code touches; bitmap_init never clears it, so its value is     *)
(* whatever the neighbouring memory holds.                                 *)
(***************************************************************************)
EXTENDS Integers

CONSTANTS
    Len,      \* btmp_bytes_len
    NDEBUG    \* TRUE when ASSERT compiles to nothing (debug.h)

ASSUME Len \in Nat \ {0} /\ NDEBUG \in BOOLEAN

NBits   == 8 * Len
BitIdx  == 0 .. NBits - 1
\* the bitmap plus the bit just past its end
Bitmaps == [0 .. NBits -> {0, 1}]

\* bitmap_init: memset of the Len bytes; the neighbouring byte is untouched
BitmapInit(bits) == [i \in 0 .. NBits |-> IF i < NBits THEN 0 ELSE bits[i]]

\* bitmap_scan_test: TRUE when bit i is 1
BitmapScanTest(bits, i) == bits[i] = 1

\* bitmap_set: bit i := value (i = NBits writes the neighbouring byte)
BitmapSet(bits, i, value) == [bits EXCEPT ![i] = value]

\* byte j of the bitmap is 0xff
ByteFull(bits, j) == \A k \in 0 .. 7 : bits[8 * j + k] = 1

\* First loop of bitmap_scan: skip the bytes that are 0xff.
RECURSIVE FirstFreeByte(_, _)
FirstFreeByte(bits, idx_byte) ==
    IF idx_byte < Len /\ ByteFull(bits, idx_byte)
    THEN FirstFreeByte(bits, idx_byte + 1)
    ELSE idx_byte

\* Second loop: the first 0 bit at or after bit i (inside a non-full byte).
RECURSIVE FirstFreeBit(_, _)
FirstFreeBit(bits, i) ==
    IF BitmapScanTest(bits, i) THEN FirstFreeBit(bits, i + 1) ELSE i

\* Mutant: the run counter is not reset on an allocated bit.
RECURSIVE WalkNoReset(_, _, _, _, _)
WalkNoReset(bits, cnt, next_bit, bit_left, count) ==
    IF bit_left = 0 THEN -1
    ELSE LET c == IF ~BitmapScanTest(bits, next_bit) THEN count + 1 ELSE count
         IN IF c = cnt THEN next_bit - cnt + 1
            ELSE WalkNoReset(bits, cnt, next_bit + 1, bit_left - 1, c)

(***************************************************************************)
(* Third loop: walk bit_left bits from next_bit counting the current run   *)
(* of free bits, reset to 0 on an allocated bit.  bitmap_scan starts it    *)
(* at bit_idx_start + 1 with bit_left = NBits - bit_idx_start, so its last *)
(* iteration tests bit NBits, one past the end of the bitmap.              *)
(***************************************************************************)
RECURSIVE Walk(_, _, _, _, _)
Walk(bits, cnt, next_bit, bit_left, count) ==
    IF bit_left = 0 THEN -1
    ELSE LET c == IF ~BitmapScanTest(bits, next_bit) THEN count + 1 ELSE 0
         IN IF c = cnt THEN next_bit - cnt + 1
            ELSE Walk(bits, cnt, next_bit + 1, bit_left - 1, c)

\* The ASSERT(idx_byte < btmp_bytes_len) of bitmap_scan fails: every byte is
\* 0xff.  Unless NDEBUG, this halts the kernel instead of returning -1.
BitmapScanPanics(bits) == ~NDEBUG /\ FirstFreeByte(bits, 0) = Len

\* bitmap_scan: start of cnt consecutive free bits, or -1
BitmapScan(bits, cnt) ==
    LET idx_byte      == FirstFreeByte(bits, 0)
        bit_idx_start == FirstFreeBit(bits, 8 * idx_byte)
    IN  IF idx_byte = Len THEN -1
        ELSE IF cnt = 1 THEN bit_idx_start
        ELSE Walk(bits, cnt, bit_idx_start + 1, NBits - bit_idx_start, 1)

-----------------------------------------------------------------------------
(***************************************************************************)
(* Reference: first fit, the lowest s such that bits s .. s+cnt-1 all lie  *)
(* inside the bitmap and are free; -1 when there is none.                  *)
(***************************************************************************)
RunFree(bits, s, cnt) == \A i \in s .. s + cnt - 1 : bits[i] = 0

FirstFit(bits, cnt) ==
    LET starts == {s \in 0 .. NBits - cnt : RunFree(bits, s, cnt)}
    IN  IF starts = {} THEN -1
        ELSE CHOOSE s \in starts : \A t \in starts : s <= t
=============================================================================
