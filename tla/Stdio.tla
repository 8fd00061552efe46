-------------------------------- MODULE Stdio --------------------------------
(***************************************************************************)
(* itoa, vsprintf and printf of lib/stdio.c (c13) as pure operators.       *)
(*                                                                         *)
(* The output buffer is a function from offsets 0 .. N-1 to bytes, buf_ptr *)
(* an offset.  A format is a byte sequence ending in NUL; the variadic     *)
(* arguments are a sequence, and va_arg takes the next one (each is a     *)
(* 4-byte stack slot).  A %s argument is the byte sequence of its string.  *)
(***************************************************************************)
EXTENDS CString, Sequences

\* the ASCII codes the code names as character literals
PCT == 37     \* '%'
MINUS == 45   \* '-'
CHAR_s == 115
CHAR_c == 99
CHAR_d == 100
CHAR_x == 120

\* m + '0' for 0..9, m - 10 + 'A' for the rest
DigitChar(d) == IF d < 10 THEN d + 48 ELSE d - 10 + 65

\* Mutant: itoa stores the remainder's digit before the recursive call.
RECURSIVE ItoaLowFirst(_, _, _, _)
ItoaLowFirst(value, buf, bp, base) ==
    LET b1 == [buf EXCEPT ![bp] = DigitChar(value % base)]
    IN  IF value \div base # 0 THEN ItoaLowFirst(value \div base, b1, bp + 1, base)
        ELSE <<b1, bp + 1>>

(***************************************************************************)
(* itoa(value, &buf_ptr, base): the quotient is printed first, by the     *)
(* recursive call, then the remainder's digit is stored at buf_ptr, which *)
(* moves on.  The result is the buffer and the new buf_ptr.               *)
(***************************************************************************)
RECURSIVE Itoa(_, _, _, _)
Itoa(value, buf, bp, base) ==
    LET r == IF value \div base # 0 THEN Itoa(value \div base, buf, bp, base)
             ELSE <<buf, bp>>
    IN  <<[r[1] EXCEPT ![r[2]] = DigitChar(value % base)], r[2] + 1>>

\* strcpy(buf_ptr, arg_str): the string's bytes and its NUL.
PutStr(buf, bp, s) ==
    [i \in DOMAIN buf |-> IF bp <= i /\ i < bp + Len(s) THEN s[i - bp + 1]
                          ELSE IF i = bp + Len(s) THEN 0 ELSE buf[i]]

(***************************************************************************)
(* The while loop of vsprintf, from format index fi and argument index ai. *)
(* A plain byte is copied.  After '%', the conversions s, c, d and x each *)
(* take one argument and skip the conversion byte; any other byte is not  *)
(* skipped, so the loop goes on from it (a '%' there starts a new          *)
(* conversion, a NUL ends the loop).  %c stores the low byte of the slot;  *)
(* %d writes '-' and negates a negative argument first.  No NUL is written *)
(* after the last byte.                                                    *)
(***************************************************************************)
RECURSIVE VsprintfFrom(_, _, _, _, _, _)
VsprintfFrom(buf, bp, fmt, fi, args, ai) ==
    LET c == fmt[fi]
        k == fmt[fi + 1]
        Go(b, p) == VsprintfFrom(b, p, fmt, fi + 2, args, ai + 1)
        GoItoa(v, b, p, base) == LET r == Itoa(v, b, p, base) IN Go(r[1], r[2])
    IN  CASE c = 0   -> buf
          [] c # PCT -> VsprintfFrom([buf EXCEPT ![bp] = c], bp + 1, fmt, fi + 1,
                                     args, ai)
          [] k = CHAR_s -> Go(PutStr(buf, bp, args[ai]), bp + Len(args[ai]))
          [] k = CHAR_c -> Go([buf EXCEPT ![bp] = args[ai] % 256], bp + 1)
          [] k = CHAR_d /\ args[ai] < 0 ->
                 GoItoa(0 - args[ai], [buf EXCEPT ![bp] = MINUS], bp + 1, 10)
          [] k = CHAR_d -> GoItoa(args[ai], buf, bp, 10)
          [] k = CHAR_x -> GoItoa(args[ai], buf, bp, 16)
          [] OTHER   -> VsprintfFrom(buf, bp, fmt, fi + 1, args, ai)

\* vsprintf(str, format, ap): the buffer, and strlen(str) as the result.
Vsprintf(buf, fmt, args) ==
    LET b == VsprintfFrom(buf, 0, fmt, 1, args, 1) IN <<b, Strlen(b, 0)>>

\* printf: vsprintf into char buf[BufLen] = {0}, then write(buf), whose
\* sys_write returns strlen(buf).  The result is what reaches the console
\* (the bytes before the first NUL) and the return value.
Printf(fmt, args, BufLen) ==
    LET r == Vsprintf([i \in 0 .. BufLen - 1 |-> 0], fmt, args)
    IN  <<[j \in 1 .. r[2] |-> r[1][j - 1]], r[2]>>
=============================================================================
