------------------------------ MODULE Strings ------------------------------
(***************************************************************************)
(* lib/string.c, in the version with ASM.  Memory is a function from       *)
(* addresses to characters, and a pointer is an address.  A routine that   *)
(* writes returns the memory it leaves.                                    *)
(***************************************************************************)
EXTENDS Integers, Sequences

CONSTANT WORD   \* bytes of a word: 4

NUL == "NUL"
NULL == -1

\* The characters the models use, in the order of their codes.
Ascii == <<NUL, "\\t", " ", "#", "%", "*", "+", "-", ".",
           "0", "1", "2", "3", "4", "5", "6", "7", "8", "9", "?",
           "A", "B", "C", "D", "E", "F", "X",
           "a", "b", "c", "d", "e", "f", "l", "o", "p", "r", "s", "u", "x", "y", "DEL">>
Code(ch) == CHOOSE i \in DOMAIN Ascii : Ascii[i] = ch
Difference(p, q) == Code(p) - Code(q)

-----------------------------------------------------------------------------
(* Lengths and copies.                                                       *)

RECURSIVE strlen(_, _)
strlen(mem, s) == IF mem[s] = NUL THEN 0 ELSE 1 + strlen(mem, s + 1)

RECURSIVE strnlen(_, _, _)
strnlen(mem, s, size) ==
  IF size = 0 \/ mem[s] = NUL THEN 0 ELSE 1 + strnlen(mem, s + 1, size - 1)

RECURSIVE strcpy(_, _, _)
strcpy(mem, dst, src) ==
  LET after == [mem EXCEPT ![dst] = mem[src]]
  IN  IF mem[src] = NUL THEN after ELSE strcpy(after, dst + 1, src + 1)

strcat(mem, dst, src) == strcpy(mem, dst + strlen(mem, dst), src)

\* Once src is at its end the rest of dst is filled.
RECURSIVE strncpy(_, _, _, _)
strncpy(mem, dst, src, size) ==
  IF size = 0 THEN mem
  ELSE LET after == [mem EXCEPT ![dst] = mem[src]]
       IN  strncpy(after, dst + 1, IF after[src] # NUL THEN src + 1 ELSE src, size - 1)

\* The copy stops one short of size.
RECURSIVE StrlcpyLoop(_, _, _, _)
StrlcpyLoop(mem, dst, src, size) ==
  IF size - 1 > 0 /\ mem[src] # NUL
  THEN StrlcpyLoop([mem EXCEPT ![dst] = mem[src]], dst + 1, src + 1, size - 1)
  ELSE [mem EXCEPT ![dst] = NUL]
strlcpy(mem, dst, src, size) == IF size > 0 THEN StrlcpyLoop(mem, dst, src, size) ELSE mem

-----------------------------------------------------------------------------
(* Comparisons and searches.                                                 *)

RECURSIVE strcmp(_, _, _)
strcmp(mem, p, q) ==
  IF mem[p] # NUL /\ mem[p] = mem[q] THEN strcmp(mem, p + 1, q + 1) ELSE Difference(mem[p], mem[q])

RECURSIVE strncmp(_, _, _, _)
strncmp(mem, p, q, n) ==
  IF n > 0 /\ mem[p] # NUL /\ mem[p] = mem[q] THEN strncmp(mem, p + 1, q + 1, n - 1)
  ELSE IF n = 0 THEN 0 ELSE Difference(mem[p], mem[q])

RECURSIVE memcmp(_, _, _, _)
memcmp(mem, p, q, n) ==
  IF n = 0 THEN 0
  ELSE IF mem[p] # mem[q] THEN Difference(mem[p], mem[q]) ELSE memcmp(mem, p + 1, q + 1, n - 1)

\* The NUL that ends the string is not searched for.
RECURSIVE strfind(_, _, _)
strfind(mem, s, ch) == IF mem[s] = NUL \/ mem[s] = ch THEN s ELSE strfind(mem, s + 1, ch)
strchr(mem, s, ch) == LET p == strfind(mem, s, ch) IN IF mem[p] = NUL THEN NULL ELSE p

RECURSIVE memfind(_, _, _, _)
memfind(mem, s, ch, n) ==
  IF n = 0 \/ mem[s] = ch THEN s ELSE memfind(mem, s + 1, ch, n - 1)

-----------------------------------------------------------------------------
(* Blocks.                                                                   *)

\* rep stos and rep movs: count units, in the direction of the DF flag.  A unit is read
\* whole before it is written.
RECURSIVE Stos(_, _, _, _, _)
Stos(mem, d, ch, count, unit) ==
  IF count = 0 THEN mem
  ELSE Stos([a \in DOMAIN mem |-> IF a \in d .. d + unit - 1 THEN ch ELSE mem[a]], d + unit, ch, count - 1, unit)
RECURSIVE Movs(_, _, _, _, _, _)
Movs(mem, d, s, count, unit, step) ==
  IF count = 0 THEN mem
  ELSE Movs([a \in DOMAIN mem |-> IF a \in d .. d + unit - 1 THEN mem[s + a - d] ELSE mem[a]],
            d + step * unit, s + step * unit, count - 1, unit, step)

Aligned(a) == a % WORD = 0

memset(mem, v, ch, n) ==
  IF n = 0 THEN mem
  ELSE IF Aligned(v) /\ Aligned(n) THEN Stos(mem, v, ch, n \div WORD, WORD)
  ELSE Stos(mem, v, ch, n, 1)

\* Is dst in front of the end of src, so that the copy has to go down?
Overlaps_Not(dst, src, n) == FALSE
Overlaps(dst, src, n) == src < dst /\ src + n > dst

memmove(mem, dst, src, n) ==
  LET d == IF Overlaps(dst, src, n) THEN dst + n ELSE dst
      s == IF Overlaps(dst, src, n) THEN src + n ELSE src
      step == IF Overlaps(dst, src, n) THEN -1 ELSE 1
      unit == IF Aligned(s) /\ Aligned(d) /\ Aligned(n) THEN WORD ELSE 1
      first(p) == IF step = -1 THEN p - unit ELSE p
  IN  Movs(mem, first(d), first(s), n \div unit, unit, step)

memcpy(mem, dst, src, n) == memmove(mem, dst, src, n)

-----------------------------------------------------------------------------
(* strtol, for a string that is a sequence; the NUL is behind its end.       *)

At(str, i) == IF i <= Len(str) THEN str[i] ELSE NUL

Lower == <<"0", "1", "2", "3", "4", "5", "6", "7", "8", "9", "a", "b", "c", "d", "e", "f">>
Upper == <<"A", "B", "C", "D", "E", "F">>
NoDigit == 99
\* Letters after f are digits of no base up to 16.
Digit(ch) ==
  IF \E i \in DOMAIN Lower : Lower[i] = ch THEN (CHOOSE i \in DOMAIN Lower : Lower[i] = ch) - 1
  ELSE IF \E i \in DOMAIN Upper : Upper[i] = ch THEN (CHOOSE i \in DOMAIN Upper : Upper[i] = ch) + 9
  ELSE NoDigit

RECURSIVE Blanks(_, _)
Blanks(str, i) == IF At(str, i) \in {" ", "\\t"} THEN Blanks(str, i + 1) ELSE i

RECURSIVE Digits(_, _, _, _)
Digits(str, i, base, val) ==
  IF Digit(At(str, i)) < base THEN Digits(str, i + 1, base, val * base + Digit(At(str, i)))
  ELSE [val |-> val, end |-> i]

\* The value, and where the scan stopped.
strtol(str, base) ==
  LET sign == Blanks(str, 1)
      i == IF At(str, sign) \in {"+", "-"} THEN sign + 1 ELSE sign
      hex == base \in {0, 16} /\ At(str, i) = "0" /\ At(str, i + 1) = "x"
      octal == base = 0 /\ ~hex /\ At(str, i) = "0"
      r == Digits(str, IF hex THEN i + 2 ELSE IF octal THEN i + 1 ELSE i,
                  IF hex THEN 16 ELSE IF octal THEN 8 ELSE IF base = 0 THEN 10 ELSE base, 0)
  IN  [r EXCEPT !.val = IF At(str, sign) = "-" THEN -@ ELSE @]
=============================================================================
