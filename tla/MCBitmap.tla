------------------------------ MODULE MCBitmap ------------------------------
(***************************************************************************)
(* Exhaustive check of bitmap_scan against first fit: starting from        *)
(* bitmap_init, bitmap_set reaches every allocation pattern of the Len     *)
(* bytes, with either value in the byte that follows the bitmap.           *)
(***************************************************************************)
EXTENDS Bitmap

CONSTANT MaxCnt   \* largest request tried in each state

VARIABLE bits

Init == \E adj \in {0, 1} : bits = BitmapInit([i \in 0 .. NBits |-> adj])

\* bitmap_set on any bit of the bitmap, to either value
Set == \E i \in BitIdx, v \in {0, 1} : bits' = BitmapSet(bits, i, v)

Next == Set

Spec == Init /\ [][Next]_bits

\* Whenever some run of cnt free bits lies inside the bitmap, bitmap_scan
\* returns the lowest such run (the byte skip, the bit skip and the run
\* counter with its reset together make it first fit).
ScanFirstFit ==
    \A cnt \in 1 .. MaxCnt :
        FirstFit(bits, cnt) # -1 => BitmapScan(bits, cnt) = FirstFit(bits, cnt)

\* bitmap_scan never returns a run that extends past the last bit of the
\* bitmap (bitmap.c:48 counts bit_left from bit_idx_start but the walk
\* begins one bit later, so its last test is of bit NBits).
ScanStaysInBitmap ==
    \A cnt \in 1 .. MaxCnt :
        LET s == BitmapScan(bits, cnt) IN s = -1 \/ s + cnt <= NBits
=============================================================================
