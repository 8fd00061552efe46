------------------------------- MODULE CString -------------------------------
(***************************************************************************)
(* The string and memory routines of lib/string.c (c8), as pure operators. *)
(*                                                                         *)
(* Memory is a function m from addresses 0 .. N-1 to bytes 0 .. 255; a    *)
(* pointer is an address, and NULL is -1.  Each while loop of the code is  *)
(* a RECURSIVE operator that moves the pointers one byte per call.  The    *)
(* functions whose pointers are `char *` read bytes as signed: gcc for     *)
(* i386 makes plain char signed, so a byte of 0x80 or more reads as a      *)
(* negative number (SChar).  The ASSERTs against NULL arguments are left   *)
(* out: every caller passes a real buffer.                                 *)
(***************************************************************************)
EXTENDS Integers

NULL == -1

\* A byte read through a (signed) char pointer.
SChar(b) == IF b >= 128 THEN b - 256 ELSE b

\* memset: size bytes from dst set to value.
Memset(m, dst, value, size) ==
    [i \in DOMAIN m |-> IF dst <= i /\ i < dst + size THEN value ELSE m[i]]

\* memcpy: one byte at a time, lowest address first.
RECURSIVE Memcpy(_, _, _, _)
Memcpy(m, dst, src, size) ==
    IF size = 0 THEN m
    ELSE Memcpy([m EXCEPT ![dst] = m[src]], dst + 1, src + 1, size - 1)

\* memcmp: the first differing byte decides, compared as (signed) chars.
RECURSIVE Memcmp(_, _, _, _)
Memcmp(m, a, b, size) ==
    CASE size = 0         -> 0
      [] m[a] # m[b]      -> IF SChar(m[a]) > SChar(m[b]) THEN 1 ELSE -1
      [] OTHER            -> Memcmp(m, a + 1, b + 1, size - 1)

\* strcpy: while (*dst_++ = *src_++); the NUL is copied too.
RECURSIVE Strcpy(_, _, _)
Strcpy(m, dst, src) ==
    LET m2 == [m EXCEPT ![dst] = m[src]]
    IN  IF m[src] = 0 THEN m2 ELSE Strcpy(m2, dst + 1, src + 1)

\* strlen: bytes before the first NUL.
RECURSIVE Strlen(_, _)
Strlen(m, str) == IF m[str] = 0 THEN 0 ELSE 1 + Strlen(m, str + 1)

\* Mutant: the loop runs on past a common NUL.
RECURSIVE StrcmpNoNul(_, _, _)
StrcmpNoNul(m, a, b) ==
    IF m[a] = m[b] THEN StrcmpNoNul(m, a + 1, b + 1)
    ELSE IF SChar(m[a]) < SChar(m[b]) THEN -1 ELSE 1

\* strcmp: skip the common prefix while *a != 0, then compare the two
\* (signed) chars: -1, 0 or 1.
RECURSIVE Strcmp(_, _, _)
Strcmp(m, a, b) ==
    IF m[a] # 0 /\ m[a] = m[b] THEN Strcmp(m, a + 1, b + 1)
    ELSE IF SChar(m[a]) < SChar(m[b]) THEN -1
    ELSE IF SChar(m[a]) > SChar(m[b]) THEN 1 ELSE 0

\* *str == ch: a (signed) char against the uint8_t ch, both promoted to int.
Matches(m, p, ch) == SChar(m[p]) = ch

\* strchr: the first address holding ch before the NUL, or NULL.
RECURSIVE Strchr(_, _, _)
Strchr(m, str, ch) ==
    CASE m[str] = 0          -> NULL
      [] Matches(m, str, ch) -> str
      [] OTHER               -> Strchr(m, str + 1, ch)

\* strrchr: the walk keeps the last address that held ch in last_char.
RECURSIVE StrrchrFrom(_, _, _, _)
StrrchrFrom(m, str, ch, last_char) ==
    IF m[str] = 0 THEN last_char
    ELSE StrrchrFrom(m, str + 1, ch,
                     IF Matches(m, str, ch) THEN str ELSE last_char)
Strrchr(m, str, ch) == StrrchrFrom(m, str, ch, NULL)

\* Mutant: strcat without the --str, appending after dst's NUL.
StrcatNoBack(m, dst, src) == Strcpy(m, dst + Strlen(m, dst) + 1, src)

\* strcat: walk to the NUL of dst (while (*str++); --str), then copy src
\* over it, NUL included.
Strcat(m, dst, src) == Strcpy(m, dst + Strlen(m, dst), src)

\* strchrs: how many bytes before the NUL equal ch.
RECURSIVE Strchrs(_, _, _)
Strchrs(m, str, ch) ==
    IF m[str] = 0 THEN 0
    ELSE (IF Matches(m, str, ch) THEN 1 ELSE 0) + Strchrs(m, str + 1, ch)
=============================================================================
