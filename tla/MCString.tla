------------------------------ MODULE MCString ------------------------------
(***************************************************************************)
(* The routines of string.c and stdio.c against reference definitions,    *)
(* over every input built from a few bytes: ASCII letters, a byte of 0x80  *)
(* or more, and NUL.  Each check is a predicate of one call's arguments;  *)
(* Calls lists the calls MCLib makes.                                      *)
(***************************************************************************)
EXTENDS Stdio, SequencesExt

\* Bytes of the test strings: 'a', 'b' and a byte with the top bit set.
Letters == {97, 98, 200}
Strings == BoundedSeq(Letters, 2)

\* A string as it lies in memory: its bytes, then NUL.
CStr(s) == s \o <<0>>

\* Memory holding the strings of ss one after the other, each in a slot of
\* Slot bytes; the bytes after each NUL hold garbage (98 + k in the k-th
\* slot, different in each), as a real buffer may.
Slot == 5
Layout(ss) ==
    [i \in 0 .. Slot * Len(ss) - 1 |->
        LET k == i \div Slot + 1
            j == (i % Slot) + 1
        IN  IF j <= Len(ss[k]) + 1 THEN CStr(ss[k])[j] ELSE 98 + k]

\* The C string starting at address p.
StrAt(m, p) == [j \in 1 .. Strlen(m, p) |-> m[p + j - 1]]

\* Memory outside [lo, hi) is untouched.
Untouched(m, m2, lo, hi) == \A i \in DOMAIN m : (i < lo \/ i >= hi) => m2[i] = m[i]

-----------------------------------------------------------------------------
(* strlen, strcpy, strcat, memcpy and memset build what the C library      *)
(* defines, and write nothing outside it: strcat appends from dst's NUL    *)
(* (the --str after the scan), strcpy and strcat end with a NUL, and       *)
(* memcpy and memset touch exactly size bytes.                             *)
BuildersAgree(s1, s2) ==
        LET m == Layout(<<s1, s2>>)
            cpy == Strcpy(m, 0, Slot)
            cat == Strcat(Layout(<<s1, s2, <<>>>>), 0, Slot)
            n == Len(s2) + 1
        IN  /\ Strlen(m, 0) = Len(s1)
            /\ StrAt(cpy, 0) = s2 /\ Untouched(m, cpy, 0, Len(s2) + 1)
            /\ StrAt(cat, 0) = s1 \o s2
            /\ Untouched(Layout(<<s1, s2, <<>>>>), cat, Len(s1), Len(s1) + n)
            /\ LET mc == Memcpy(m, 0, Slot, n)
               IN  /\ \A j \in 0 .. n - 1 : mc[j] = m[Slot + j]
                   /\ Untouched(m, mc, 0, n)
            /\ LET ms == Memset(m, 1, 0, Len(s1))
               IN  /\ \A j \in 1 .. Len(s1) : ms[j] = 0
                   /\ Untouched(m, ms, 1, 1 + Len(s1))

(* strcmp is a total order on strings that tells exactly the equal ones    *)
(* apart, whatever garbage follows their NULs: it stops at the first NUL   *)
(* ( *a != 0 ), and memcmp over the bytes and the NUL orders them alike.   *)
(* The order compares signed chars, so a byte of 0x80 or more sorts below  *)
(* 'a'; the property holds for that order as for any other.                *)
CmpIsOrder(s1, s2, s3) ==
        LET m == Layout(<<s1, s2, s3>>)
            cmp(x, y) == Strcmp(m, x * Slot, y * Slot)
        IN  /\ (cmp(0, 1) = 0) <=> (s1 = s2)
            /\ cmp(0, 1) = 0 - cmp(1, 0)
            /\ (cmp(0, 1) = -1 /\ cmp(1, 2) = -1) => cmp(0, 2) = -1
            /\ LET n == IF Len(s1) < Len(s2) THEN Len(s1) + 1 ELSE Len(s2) + 1
               IN  Memcmp(m, 0, Slot, n) = cmp(0, 1)

\* Reference numerals: the digit table of base 16, and n written with
\* exactly as many digits as it needs (the largest power of base not above
\* n gives the first digit).
DigitTable == <<48, 49, 50, 51, 52, 53, 54, 55, 56, 57, 65, 66, 67, 68, 69, 70>>
MaxDigits(base) == IF base = 10 THEN 10 ELSE 8
Numeral(n, base) ==
    LET L == CHOOSE k \in 1 .. MaxDigits(base) :
                 /\ n \div base^(k - 1) < base
                 /\ (k = 1 \/ n \div base^(k - 2) >= base)
    IN  [i \in 1 .. L |-> DigitTable[((n \div base^(L - i)) % base) + 1]]

\* printf calls as format items: a plain byte, or a conversion with its
\* argument.  %c gets a char promoted to int (-56 is the byte 200);
\* %x gets no negative argument and %d not INT_MIN, whose 32-bit forms
\* TLC's integers do not hold.
StrArgs == <<<<>>, <<97, 98>>>>   \* the %s arguments, by index
Items ==
    {[k |-> "lit", v |-> b] : b \in {97, 200}}
    \cup {[k |-> "s", v |-> t] : t \in DOMAIN StrArgs}
    \cup {[k |-> "c", v |-> x] : x \in {97, -56}}
    \cup {[k |-> "d", v |-> x] : x \in {0, 7, 10, -5, 2147483647, -2147483647}}
    \cup {[k |-> "x", v |-> x] : x \in {0, 26, 255, 2147483647}}
Conv == [s |-> CHAR_s, c |-> CHAR_c, d |-> CHAR_d, x |-> CHAR_x]
Encode(it) == IF it.k = "lit" THEN <<it.v>> ELSE <<PCT, Conv[it.k]>>
Expect(it) ==
    CASE it.k = "lit" -> <<it.v>>
      [] it.k = "s"   -> StrArgs[it.v]
      [] it.k = "c"   -> <<it.v % 256>>
      [] it.k = "d"   -> IF it.v < 0 THEN <<MINUS>> \o Numeral(0 - it.v, 10)
                         ELSE Numeral(it.v, 10)
      [] it.k = "x"   -> Numeral(it.v, 16)
FormatOf(its) == FlattenSeq([i \in 1 .. Len(its) |-> Encode(its[i])]) \o <<0>>
ArgsOf(its) ==
    LET convs == SelectSeq(its, LAMBDA it : it.k # "lit")
    IN  [i \in 1 .. Len(convs) |->
            IF convs[i].k = "s" THEN StrArgs[convs[i].v] ELSE convs[i].v]

(* printf prints every format of up to three items as the C library does: *)
(* numerals in the base asked for with their most significant digit first  *)
(* (itoa's recursion before the store), a '-' before a negative %d, the    *)
(* low byte for %c, and the string for %s; it returns the length printed.  *)
(* vsprintf writes no final NUL: the result is right because printf's      *)
(* buffer starts zeroed.                                                   *)
PrintfAgreesOn(its) ==
        LET out == FlattenSeq([i \in 1 .. Len(its) |-> Expect(its[i])])
        IN  Printf(FormatOf(its), ArgsOf(its), 40) = <<out, Len(out)>>

(* strchr, strrchr and strchrs find, for every byte ch, its first and last *)
(* occurrence before the NUL and its count, as their comments say and the  *)
(* uint8_t ch parameter suggests, bytes of 0x80 or more included.           *)
StrchrFinds(s, ch) ==
        LET m == Layout(<<s>>)
            Is(x) == x = ch
            first == SelectInSeq(s, Is)
            last == SelectLastInSeq(s, Is)
        IN  /\ Strchr(m, 0, ch) = IF first = 0 THEN NULL ELSE first - 1
            /\ Strrchr(m, 0, ch) = IF last = 0 THEN NULL ELSE last - 1
            /\ Strchrs(m, 0, ch) = Len(SelectSeq(s, Is))

\* The library calls checked: the arguments of one check each.
NoCall == [f |-> "none", s |-> <<>>, its |-> <<>>, ch |-> 0, n |-> 0]
Calls ==
    {[NoCall EXCEPT !.f = "build", !.s = <<s1, s2>>] : s1, s2 \in Strings}
    \cup {[NoCall EXCEPT !.f = "cmp", !.s = <<s1, s2, s3>>] : s1, s2, s3 \in Strings}
    \cup {[NoCall EXCEPT !.f = "printf", !.its = its] : its \in BoundedSeq(Items, 3)}
    \cup {[NoCall EXCEPT !.f = "strchr", !.s = <<t>>, !.ch = c] :
              t \in Strings, c \in Letters}
=============================================================================
