------------------------------- MODULE MCLib --------------------------------
(***************************************************************************)
(* The kernel's pure library routines against reference definitions.      *)
(* The states are MCBitmap's: every pattern bitmap_set reaches, on which  *)
(* bitmap_scan is checked.  From the cleared bitmap a caller also makes    *)
(* one call of string.c or stdio.c (MCString's Calls); call records it.   *)
(***************************************************************************)
EXTENDS MCBitmap

Str == INSTANCE MCString

VARIABLE call   \* the library call of this state, or NoCall

LibInit == Init /\ call = Str!NoCall

\* bitmap_set, as in MCBitmap
SetBit == Set /\ call' = Str!NoCall

\* one call of string.c or stdio.c, made while the bitmap is clear
LibCall ==
    /\ call = Str!NoCall /\ \A i \in BitIdx : bits[i] = 0
    /\ call' \in Str!Calls
    /\ UNCHANGED bits

LibNext == SetBit \/ LibCall

LibSpec == LibInit /\ [][LibNext]_<<bits, call>>

-----------------------------------------------------------------------------
(* strlen, strcpy, strcat, memcpy and memset build what the C library      *)
(* defines and write nothing outside it: strcat appends from dst's NUL     *)
(* (the --str after its scan) and memcpy and memset touch exactly size     *)
(* bytes (MCString's BuildersAgree).                                       *)
StringBuildersAgree == call.f = "build" => Str!BuildersAgree(call.s[1], call.s[2])

(* strcmp is a total order that tells exactly the equal strings apart,     *)
(* whatever garbage follows their NULs (its loop stops at a NUL), and      *)
(* memcmp over the bytes and the NUL orders them alike (CmpIsOrder).       *)
StrcmpIsOrder ==
    call.f = "cmp" => Str!CmpIsOrder(call.s[1], call.s[2], call.s[3])

(* printf prints every format of up to three items as the C library does,  *)
(* most significant digit first, and returns the length (PrintfAgreesOn).  *)
PrintfAgrees == call.f = "printf" => Str!PrintfAgreesOn(call.its)

(* strchr, strrchr and strchrs find every byte, 0x80 and up included, as    *)
(* their comments say (StrchrFinds).                                       *)
StrchrFindsAll == call.f = "strchr" => Str!StrchrFinds(call.s[1], call.ch)
=============================================================================
