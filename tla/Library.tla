------------------------------- MODULE Library -------------------------------
(***************************************************************************)
(* The monitor together with the routines that it, and the rest of the     *)
(* kernel and the user library, call: strings, formatted output, debugging *)
(* information and the check of user memory.  These have no state of their *)
(* own.  A call is a step that records its arguments and its result, and   *)
(* the properties compare the result with a definition of what is wanted.  *)
(***************************************************************************)
EXTENDS Monitor, Printfmt, Kdebug, UserMem

\* Names of commands, one a prefix of another.
MCCommands == <<<<"x", "x">>, <<"x">>, <<"DEL", "x", "x">>>>

CONSTANT Addresses   \* where the files and functions of a table of stabs begin

VARIABLE call   \* the last call: its routine, arguments and result

vars == <<monitorVars, call>>

NoCall == [routine |-> "none", args |-> <<>>, out |-> <<>>]

Init == MonitorInit /\ call = NoCall

\* The routines do not look at the screen: they are called on a blank one only.
Blank == crt = [buf |-> [p \in Cell |-> " "], pos |-> 0] /\ mode = "command" /\ line = <<>>

Calls(routine, args, out) == call' = [routine |-> routine, args |-> args, out |-> out]

Returns == call # NoCall /\ call' = NoCall /\ UNCHANGED monitorVars

-----------------------------------------------------------------------------
(* Blocks of memory: every block of a memory of three words.                 *)

Block == 0 .. 3 * WORD - 1
Marked == [a \in Block |-> Ascii[a + 2]]

CallMemmove ==
  \E dst, src \in Block, n \in 0 .. 3 * WORD :
    /\ dst + n <= 3 * WORD /\ src + n <= 3 * WORD
    /\ Calls("memmove", <<dst, src, n>>, memmove(Marked, dst, src, n))
CallMemset ==
  \E v \in Block, n \in 0 .. 3 * WORD :
    /\ v + n <= 3 * WORD
    /\ Calls("memset", <<v, n>>, memset(Marked, v, "x", n))

-----------------------------------------------------------------------------
(* Strings: two, of up to two characters, and a NUL behind each, in memory   *)
(* of size Room; p and q are where they begin.                               *)

StrChars == {"a", "b"}
Strs == {<<>>} \cup {<<x>> : x \in StrChars} \cup {<<x, y>> : x, y \in StrChars}
Room == 10
PAddr == 0
QAddr == 5
Lay(p, q) == [a \in 0 .. Room - 1 |->
  IF a < Len(p) THEN p[a + 1]
  ELSE IF a \in QAddr .. QAddr + Len(q) - 1 THEN q[a - QAddr + 1]
  ELSE IF a \in {Len(p), QAddr + Len(q)} THEN NUL ELSE "*"]

CallString ==
  \E p, q \in Strs, n \in 0 .. 4 :
    LET mem == Lay(p, q)
    IN  \/ n = 0 /\ Calls("strcpy", <<p, q, n>>, strcpy(mem, PAddr, QAddr))
        \/ n = 0 /\ Calls("strcat", <<p, q, n>>, strcat(mem, PAddr, QAddr))
        \/ Calls("strncpy", <<p, q, n>>, strncpy(mem, PAddr, QAddr, n))
        \/ Calls("strlcpy", <<p, q, n>>, strlcpy(mem, PAddr, QAddr, n))
        \/ Calls("compare", <<p, q, n>>, <<strcmp(mem, PAddr, QAddr), strncmp(mem, PAddr, QAddr, n),
                                           memcmp(mem, PAddr, QAddr, n)>>)
        \/ p = <<>> /\ \E ch \in {"a", NUL} :
             Calls("find", <<p, q, n, ch>>, <<strchr(mem, QAddr, ch), strfind(mem, QAddr, ch),
                                              memfind(mem, QAddr, ch, n), strnlen(mem, QAddr, n)>>)

Sign(x) == IF x > 0 THEN 1 ELSE IF x < 0 THEN -1 ELSE 0
\* The order of two sequences of characters with a NUL behind them.
Compared(s, t) ==
  LET differ == {i \in 1 .. Len(s) + 1 : At(s, i) # At(t, i)}
      i == CHOOSE k \in differ : \A j \in differ : k <= j
  IN  IF differ = {} THEN 0 ELSE Sign(Difference(At(s, i), At(t, i)))
Prefix(s, n) == SubSeq(s, 1, IF n < Len(s) THEN n ELSE Len(s))

\* Is str, padded with pad NULs, at address 0, with the rest of mem as it was?
Stored(mem, was, str, pad) ==
  \A a \in DOMAIN mem : mem[a] =
    IF a < Len(str) THEN str[a + 1] ELSE IF a < Len(str) + pad THEN NUL ELSE was[a]

First(q, ch) == {i \in DOMAIN q : q[i] = ch /\ \A j \in 1 .. i - 1 : q[j] # ch}

\* memmove is right for blocks that overlap in either direction and for every alignment;
\* no routine writes a byte outside its destination; strlcpy always terminates what it
\* wrote and strncpy only what is short enough; comparisons and searches stop at the NUL.
StringResults ==
  LET r == call.routine
      o == call.out
      p == call.args[1]
      q == call.args[2]
      n == call.args[3]
      ch == call.args[4]
      was == Lay(p, q)
  IN  /\ r = "memmove" => \A a \in Block :
           o[a] = IF a \in p .. p + n - 1 THEN Marked[q + a - p] ELSE Marked[a]
      /\ r = "memset" => \A a \in Block :
           o[a] = IF a \in call.args[1] .. call.args[1] + call.args[2] - 1 THEN "x" ELSE Marked[a]
      /\ r = "strcpy" => Stored(o, was, q, 1)
      /\ r = "strcat" => Stored(o, was, p \o q, 1)
      /\ r = "strncpy" => Stored(o, was, Prefix(q, n), IF n > Len(q) THEN n - Len(q) ELSE 0)
      /\ r = "strlcpy" => Stored(o, was, IF n = 0 THEN <<>> ELSE Prefix(q, n - 1), IF n = 0 THEN 0 ELSE 1)
      /\ r = "compare" =>
           /\ Sign(o[1]) = Compared(p, q)
           /\ Sign(o[2]) = Compared(Prefix(p, n), Prefix(q, n))
           /\ o[3] = 0 <=> \A i \in 0 .. n - 1 : was[PAddr + i] = was[QAddr + i]
      /\ r = "find" =>
           /\ o[1] # NULL <=> First(q, ch) # {}
           /\ o[1] # NULL => o[1] - QAddr + 1 \in First(q, ch)
           /\ o[2] = IF o[1] # NULL THEN o[1] ELSE QAddr + Len(q)
           /\ LET found == {a \in QAddr .. QAddr + n - 1 : was[a] = ch}
              IN  IF found = {} THEN o[3] = QAddr + n ELSE o[3] \in found /\ \A a \in found : o[3] <= a
           /\ o[4] = IF n < Len(q) THEN n ELSE Len(q)

-----------------------------------------------------------------------------
(* Formatted output: every format of a '%' and up to three characters more,  *)
(* and one in front of a literal.                                            *)

FmtChars == Conversions \cup {"-", "0", "2", "*", ".", "#", "l", "%", "a"}
FormatsOf(S) == {<<"%">> \o s : s \in S}
Formats ==
  LET one == {<<x>> : x \in FmtChars}
      two == {<<x, y>> : x, y \in FmtChars}
      three == {<<x, y, z>> : x \in FmtChars \ Conversions, y \in {"0", "2", "*", "a"}, z \in FmtChars}
  IN  FormatsOf({<<>>} \cup one \cup two \cup three) \cup {<<"a">> \o f : f \in FormatsOf(one)}

ArgLists == {<<Arg(-5, <<"a", "\\t", "b">>, "c"), Arg(3, <<"x">>, "d"), Arg(2, <<>>, "a")>>,
             <<Arg(4, NullString, NUL), Arg(-1, <<"a", "b">>, "c"), Arg(300, <<"a">>, "b")>>}

SnBuf == [a \in 0 .. 8 |-> "*"]
Stale == [i \in 1 .. PRINTBUF |-> "y"]

CallPrintf ==
  \E fmt \in Formats, ap \in ArgLists :
    LET r == vprintfmt(fmt, ap)
    IN  Calls("printf", <<fmt, ap>>,
              [out |-> r.out, past |-> r.past, cprintf |-> vcprintf(Stale, r.out),
               snprintf |-> [n \in 0 .. 8 |-> vsnprintf(SnBuf, n, r.out)]])

\* A blank, a sign, and what strtol takes for a base of its own choice.
Mark(base) == IF base = 16 THEN <<" ", "-", "0", "x">> ELSE IF base = 8 THEN <<" ", "-", "0">> ELSE <<" ", "-">>

CallPrintnum ==
  \E num \in {0, 1, 7, 9, 10, 15, 16, 99, 100, 255, 256, 1000}, base \in {8, 10, 16}, width \in -1 .. 5, padc \in {" ", "0", "-"} :
    Calls("printnum", <<num, base, width, padc>>,
          [digits |-> printnum(num, base, width, padc),
           read |-> strtol(printnum(num, base, width, padc), base),
           prefixed |-> strtol(Mark(base) \o printnum(num, base, -1, padc), 0)])

\* How many digits num has, and the digit at place k from the right.
Places(num, base) == CHOOSE k \in 1 .. 20 : num < base ^ k /\ (k = 1 \/ num >= base ^ (k - 1))
DigitAt(num, base, k) == (num \div base ^ k) % base

\* Formatted output arrives whole, whichever way it goes: snprintf stores what fits and
\* a NUL, touches nothing behind its buffer and returns the full length; the pieces that
\* user code hands to sys_cputs, which formats them once more, add up to the text, as
\* long as there is no NUL in it.  A format with no known conversion is printed as it
\* is, and no scan runs past its end.  A number is printed with all of its digits,
\* padded on the left with blanks or zeros to its width, and strtol reads it back.  (With
\* '-', the flag to pad on the right, printnum pads on the left, and with '-': only the
\* digits are stated then.)
Formatted ==
  LET r == call.routine
      o == call.out
  IN  /\ r = "printf" =>
           /\ ~o.past
           /\ o.cprintf.ret = Len(o.out)
           /\ NUL \notin {o.out[i] : i \in DOMAIN o.out} => o.cprintf.console = o.out
           /\ \A n \in 1 .. 8 :
                /\ o.snprintf[n].ret = Len(o.out)
                /\ Stored(o.snprintf[n].mem, SnBuf, Prefix(o.out, n - 1), 1)
           /\ o.snprintf[0].mem = SnBuf
           /\ call.args[1] = <<"%", "d">> => strtol(o.out, 10).val = call.args[2][1].n
           /\ LET fmt == call.args[1]
              IN  (\A i \in DOMAIN fmt : fmt[i] \notin Conversions /\ (fmt[i] = "%" => i <= 2))
                  /\ Cardinality({i \in DOMAIN fmt : fmt[i] = "%"}) = 1 => o.out = fmt
      /\ r = "printnum" =>
           LET num == call.args[1]
               base == call.args[2]
               width == call.args[3]
               places == Places(num, base)
               len == IF width > places THEN width ELSE places
               padc == call.args[4]
           IN  /\ \A k \in 0 .. places - 1 : o.digits[Len(o.digits) - k] = Lower[DigitAt(num, base, k) + 1]
               /\ padc \in {" ", "0"} =>
                    /\ Len(o.digits) = len
                    /\ \A k \in places .. len - 1 : o.digits[len - k] = padc
                    /\ o.read = [val |-> num, end |-> len + 1]
               /\ (base = 10 /\ num = 0) \/ o.prefixed.val = -num

-----------------------------------------------------------------------------
(* Debugging information: tables of a header, a file and four stabs, in      *)
(* which files and functions come in the order of their addresses.           *)

AnyStab == {Stab(type, value, TRUE) : type \in {"SO", "FUN"}, value \in Addresses}
           \cup {Stab(type, 2, TRUE) : type \in {"SOL", "PSYM", "SLINE"}}
Sorted(t) == \A i, j \in DOMAIN t :
  i < j /\ {t[i].n_type, t[j].n_type} \subseteq {"SO", "FUN"} => t[i].n_value <= t[j].n_value
StabTables ==
  {<<Stab("UNDF", 0, TRUE), Stab("SO", 2, TRUE)>> \o t : t \in {u \in [1 .. 4 -> AnyStab] : Sorted(u)}}
Nameless(t) == [i \in DOMAIN t |-> [t[i] EXCEPT !.in = FALSE]]

CallDebuginfo ==
  \E t \in StabTables, addr \in 1 .. 7 :
    \/ Calls("debuginfo", <<t, addr, TRUE>>, debuginfo_eip(t, addr, TRUE))
    \/ addr = 4 /\ Calls("debuginfo", <<Nameless(t), addr, TRUE>>, debuginfo_eip(Nameless(t), addr, TRUE))
    \/ addr = 4 /\ Calls("debuginfo", <<t, addr, FALSE>>, debuginfo_eip(t, addr, FALSE))

\* debuginfo_eip finds the last file and, in it, the last function that begins at or
\* before the address, whatever other stabs lie between, and among several that begin
\* at one address the last; it fails when the tables are not valid or no file begins
\* before the address.  For Addresses two or more apart: after an exact match the search
\* goes on with addr + 1 and takes a stab that begins there.  Nothing is said of success
\* without a line number, for which the comment in the code asks for -1: the search for
\* it is not written.
Encloses ==
  call.routine = "debuginfo" =>
    LET t == call.args[1]
        addr == call.args[2]
        all == 0 .. Len(t) - 1
        files == Before(t, "SO", all, addr)
        file == Last(files)
        later == {i \in Of(t, "SO", all) : i > file}
        own == {i \in all : i >= file /\ \A j \in later : i < j}
        funs == Before(t, "FUN", own, addr)
    IN  /\ ~call.args[3] \/ files = {} => call.out.ret # 0
        /\ call.out.ret = 0 /\ funs # {} =>
             /\ call.out.fn_addr = Value(t, Last(funs))
             /\ t[1].in => call.out.fn = Last(funs) /\ call.out.file \in file .. Last(funs)
        /\ call.out.ret = 0 /\ Of(t, "FUN", own) = {} => call.out.fn_addr = addr

-----------------------------------------------------------------------------
(* The check of user memory: every range below the end of the address space. *)

Perms == {{}, {"P"}, {"P", "U"}, {"P", "U", "W"}}
\* User code could access what is above ULIM, too, if it were not for the limit.
UserTables == {[p \in UPage |-> IF p < ULIM \div PGSIZE THEN u[p] ELSE {"P", "U", "W"}] :
                 u \in [0 .. (ULIM \div PGSIZE) - 1 -> Perms]}
CallUserMem ==
  \E table \in UserTables, va \in 0 .. SPACE - 1, perm \in {{}, {"W"}} : \E len \in 0 .. SPACE - 1 - va :
    Calls("user_mem_check", <<table, va, len, perm>>, user_mem_check(table, va, len, perm))

\* user_mem_check, which looks at one address of a page, allows exactly the ranges all
\* of whose addresses user code may access, and reports the first one that it may not.
UserMemExact ==
  call.routine = "user_mem_check" =>
    LET bad == Forbidden(call.args[1], call.args[2], call.args[3], call.args[4])
    IN  /\ call.out.ok <=> bad = {}
        /\ ~call.out.ok => call.out.addr \in bad /\ \A a \in bad : call.out.addr <= a

-----------------------------------------------------------------------------
LibraryCall ==
  /\ Blank /\ call = NoCall
  /\ \/ CallMemmove \/ CallMemset \/ CallString \/ CallPrintf \/ CallPrintnum
     \/ CallDebuginfo \/ CallUserMem
  /\ UNCHANGED monitorVars

Next == (call = NoCall /\ monitor /\ UNCHANGED call) \/ LibraryCall \/ Returns

Spec == Init /\ [][Next]_vars
=============================================================================
