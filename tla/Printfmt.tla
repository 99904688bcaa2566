------------------------------ MODULE Printfmt ------------------------------
(***************************************************************************)
(* Formatted output: lib/printfmt.c, and the ways its characters go, into  *)
(* a buffer (snprintf), from the kernel to the console (kern/printf.c), or *)
(* from user code in pieces through sys_cputs (lib/printf.c, and sys_cputs *)
(* of kern/syscall.c, which formats every piece again).                    *)
(*                                                                         *)
(* What vprintfmt gives to putch is a sequence of characters.  An argument *)
(* is all that va_arg could read there: a number, a string, a character.   *)
(***************************************************************************)
EXTENDS Strings
LOCAL INSTANCE SequencesExt

CONSTANTS
  IntBits,      \* bits of int and long; a long long has twice as many
  PRINTBUF,     \* 256: the size of struct printbuf's buf
  MAXERROR

NullString == <<NUL>>
Arg(n, s, ch) == [n |-> n, s |-> s, ch |-> ch]

Rep(ch, n) == IF n > 0 THEN [i \in 1 .. n |-> ch] ELSE <<>>

\* The size of what va_arg reads, for a number that is given signed.
Modulus(lflag) == IF lflag >= 2 THEN 2 ^ (2 * IntBits) ELSE 2 ^ IntBits
getuint(n, lflag) == n % Modulus(lflag)
getint(n, lflag) ==
  LET u == n % Modulus(lflag) IN IF 2 * u >= Modulus(lflag) THEN u - Modulus(lflag) ELSE u

\* The leading digits first, with width counted down; padding before the first digit.
RECURSIVE printnum(_, _, _, _)
printnum(num, base, width, padc) ==
  (IF num >= base THEN printnum(num \div base, base, width - 1, padc) ELSE Rep(padc, width - 1))
  \o <<Lower[(num % base) + 1]>>

\* error_string, two characters for each of its texts; there is none for 0.
error_string(err) == <<"e", Lower[err + 1]>>

Abs(n) == IF n < 0 THEN -n ELSE n

FormatError(n) ==
  LET err == Abs(n)
  IN  IF err >= MAXERROR \/ err = 0
      THEN <<"e", "r", "r", "o", "r", " ">> \o printnum(err, 10, -1, " ")
      ELSE error_string(err)

\* %s: padded on the left unless by '-', cut at precision, padded on the right.
FormatString(f, str) ==
  LET p == IF str = NullString THEN <<"(", "n", "u", "l", "l", ")">> ELSE str
      n == IF f.precision < 0 \/ Len(p) <= f.precision THEN Len(p) ELSE f.precision
      left == IF f.width > 0 /\ f.padc # "-" THEN f.width - n ELSE 0
      right == IF f.width > 0 /\ f.padc # "-" THEN 0 ELSE f.width - n
  IN  Rep(f.padc, left)
      \o [i \in 1 .. n |-> IF f.altflag /\ p[i] \in {"\\t", "DEL"} THEN "?" ELSE p[i]]
      \o Rep(" ", right)

\* What a conversion prints for an argument.
Conversions == {"c", "e", "s", "d", "u", "o", "p", "x"}
Convert(conv, f, arg) ==
  CASE conv = "c" -> <<arg.ch>>
    [] conv = "e" -> FormatError(arg.n)
    [] conv = "s" -> FormatString(f, arg.s)
    [] conv = "d" -> (IF getint(arg.n, f.lflag) < 0 THEN <<"-">> ELSE <<>>)
                     \o printnum(Abs(getint(arg.n, f.lflag)), 10, f.width, f.padc)
    [] conv = "u" -> printnum(getuint(arg.n, f.lflag), 10, f.width, f.padc)
    [] conv = "o" -> <<"X", "X", "X">>
    [] conv = "p" -> <<"0", "x">> \o printnum(getuint(arg.n, 1), 16, f.width, f.padc)
    [] conv = "x" -> printnum(getuint(arg.n, f.lflag), 16, f.width, f.padc)
Takes(conv) == IF conv = "o" THEN 0 ELSE 1

-----------------------------------------------------------------------------
(* vprintfmt                                                                 *)

Flags == [padc |-> " ", width |-> -1, precision |-> -1, lflag |-> 0, altflag |-> FALSE]

process_precision(f, n) ==
  IF f.width < 0 THEN [f EXCEPT !.width = n, !.precision = -1] ELSE [f EXCEPT !.precision = n]

RECURSIVE NumberEnd(_, _)
NumberEnd(fmt, i) == IF Digit(At(fmt, i)) < 10 THEN NumberEnd(fmt, i + 1) ELSE i

\* After an escape that is not known the scan goes back to behind its '%'.
Back_Not(fmt, i) == i + 1
Back(fmt, i) == CHOOSE j \in 2 .. i : fmt[j - 1] = "%" /\ \A k \in j .. i - 1 : fmt[k] # "%"

RECURSIVE Scan(_, _, _, _), Escape(_, _, _, _, _)
\* i: the next character of fmt; past: did the scan run past the NUL?
Scan(fmt, i, ap, out) ==
  IF At(fmt, i) = NUL THEN [out |-> out, past |-> i > Len(fmt) + 1]
  ELSE IF At(fmt, i) # "%" THEN Scan(fmt, i + 1, ap, Append(out, At(fmt, i)))
  ELSE Escape(fmt, i + 1, ap, out, Flags)
Escape(fmt, i, ap, out, f) ==
  LET ch == At(fmt, i)
      reswitch(g) == Escape(fmt, i + 1, ap, out, g)
      end == NumberEnd(fmt, i)
  IN  CASE ch \in {"-", "0"} -> reswitch([f EXCEPT !.padc = ch])
        [] Digit(ch) \in 1 .. 9 ->
             Escape(fmt, end, ap, out, process_precision(f, Digits(SubSeq(fmt, i, end - 1), 1, 10, 0).val))
        [] ch = "*" -> Escape(fmt, i + 1, Tail(ap), out, process_precision(f, Head(ap).n))
        [] ch = "." -> reswitch([f EXCEPT !.width = IF @ < 0 THEN 0 ELSE @])
        [] ch = "#" -> reswitch([f EXCEPT !.altflag = TRUE])
        [] ch = "l" -> reswitch([f EXCEPT !.lflag = @ + 1])
        [] ch \in Conversions ->
             Scan(fmt, i + 1, SubSeq(ap, 1 + Takes(ch), Len(ap)), out \o Convert(ch, f, Head(ap)))
        [] ch = "%" -> Scan(fmt, i + 1, ap, Append(out, "%"))
        [] OTHER -> Scan(fmt, Back(fmt, i), ap, Append(out, "%"))

vprintfmt(fmt, ap) == Scan(fmt, 1, ap, <<>>)

-----------------------------------------------------------------------------
(* Where the characters go.                                                  *)

sprintputch(b, ch) ==
  IF b.buf < b.ebuf
  THEN [b EXCEPT !.cnt = @ + 1, !.mem[b.buf] = ch, !.buf = @ + 1]
  ELSE [b EXCEPT !.cnt = @ + 1]

\* vsnprintf into mem[0 ..], for a buffer of n; -3 is -E_INVAL.
vsnprintf(mem, n, out) ==
  LET b == FoldLeft(sprintputch, [buf |-> 0, ebuf |-> n - 1, cnt |-> 0, mem |-> mem], out)
  IN  IF n < 1 THEN [mem |-> mem, ret |-> -3]
      ELSE [mem |-> [b.mem EXCEPT ![b.buf] = NUL], ret |-> b.cnt]

\* The C string at the start of an array, and what else is in it up to the first NUL.
CString(buf) == SubSeq(buf, 1, IF \E i \in DOMAIN buf : buf[i] = NUL
                               THEN (CHOOSE i \in DOMAIN buf : buf[i] = NUL /\ \A j \in 1 .. i - 1 : buf[j] # NUL) - 1
                               ELSE Len(buf))

\* kern/printf.c: cputchar for every character; *cnt++ moves the pointer, so that none
\* is counted.
cprintf(fmt, ap) == [console |-> vprintfmt(fmt, ap).out, ret |-> 0]

\* sys_cputs in the kernel: cprintf("%.*s", len, s).
sys_cputs(buf, len) ==
  cprintf(<<"%", ".", "*", "s">>, <<Arg(len, <<>>, NUL), Arg(0, CString(buf), NUL)>>).console

\* lib/printf.c; what is left of an earlier piece stays in buf.
putch(b, ch) ==
  LET buf == [b.buf EXCEPT ![b.idx + 1] = ch]
      full == b.idx + 1 = PRINTBUF - 1
  IN  [buf |-> buf, cnt |-> b.cnt + 1,
       idx |-> IF full THEN 0 ELSE b.idx + 1,
       console |-> IF full THEN b.console \o sys_cputs(buf, b.idx + 1) ELSE b.console]

vcprintf(buf, out) ==
  LET b == FoldLeft(putch, [buf |-> buf, idx |-> 0, cnt |-> 0, console |-> <<>>], out)
  IN  [console |-> b.console \o sys_cputs(b.buf, b.idx), ret |-> b.cnt]
=============================================================================
