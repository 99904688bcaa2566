------------------------------- MODULE Monitor -------------------------------
(***************************************************************************)
(* The kernel monitor (kern/monitor.c): monitor reads a line, and runcmd   *)
(* cuts it into arguments inside readline's buffer and looks the command   *)
(* up.  What a command prints is MonitorOutput of Readline.                *)
(***************************************************************************)
EXTENDS Readline, Strings

CONSTANTS
  MAXARGS,
  Commands    \* commands[], by name: a sequence of sequences of characters

VARIABLE cmd  \* what runcmd did: see NoCmd

monitorVars == <<editVars, cmd>>

\* buf as it is left, the addresses in argv, and the command called: its number,
\* 0 for none and -1 for one that is not known.  A line with too many arguments is
\* refused.
NoCmd == [buf |-> <<>>, argv |-> <<>>, refused |-> FALSE, called |-> 0]

MonitorInit == EditInit /\ cmd = NoCmd

-----------------------------------------------------------------------------
\* The line in readline's buffer, from address 0.
Buffer(str) == [a \in 0 .. Len(str) |-> IF a < Len(str) THEN str[a + 1] ELSE NUL]

WHITESPACE == Buffer(<<"\\t", "\\r", "\\n", " ">>)
White(ch) == strchr(WHITESPACE, 0, ch) # NULL

RECURSIVE Gobble(_, _), SkipArg(_, _), Parse(_, _, _)

\* while (*buf && strchr(WHITESPACE, *buf)) *buf++ = 0;
Gobble(buf, p) ==
  IF buf[p] # NUL /\ White(buf[p]) THEN Gobble([buf EXCEPT ![p] = NUL], p + 1)
  ELSE [buf |-> buf, p |-> p]

\* while (*buf && !strchr(WHITESPACE, *buf)) buf++;
SkipArg(buf, p) == IF buf[p] # NUL /\ ~White(buf[p]) THEN SkipArg(buf, p + 1) ELSE p

TooMany_Full(argc) == argc = MAXARGS
TooMany(argc) == argc = MAXARGS - 1

Parse(buf, p, argv) ==
  LET g == Gobble(buf, p)
  IN  IF g.buf[g.p] = NUL THEN [buf |-> g.buf, argv |-> argv, refused |-> FALSE, called |-> 0]
      ELSE IF TooMany(Len(argv)) THEN [buf |-> g.buf, argv |-> argv, refused |-> TRUE, called |-> 0]
      ELSE Parse(g.buf, SkipArg(g.buf, g.p), Append(argv, g.p))

\* strcmp of the string at p with a command's name, in one memory.
Same(buf, p, name) ==
  LET end == Len(line) + 1
      mem == [a \in 0 .. end + Len(name) |-> IF a < end THEN buf[a] ELSE Buffer(name)[a - end]]
  IN  strcmp(mem, p, end) = 0

Lookup(r) ==
  LET Match == {i \in DOMAIN Commands : Same(r.buf, r.argv[1], Commands[i])}
  IN  IF r.refused \/ r.argv = <<>> THEN 0
      ELSE IF Match = {} THEN -1 ELSE CHOOSE i \in Match : \A j \in Match : i <= j

runcmd ==
  /\ RunLine
  /\ cmd' = LET r == Parse(Buffer(line), 0, <<>>) IN [r EXCEPT !.called = Lookup(r)]

\* No command returns a negative number, so monitor goes on to the next line.
NextLine == Again /\ cmd' = NoCmd

monitor == (Edits /\ UNCHANGED cmd) \/ runcmd \/ NextLine

-----------------------------------------------------------------------------
(* Properties.                                                               *)

\* The beginnings of the words of the line, as addresses, in order.
WordStarts ==
  SelectSeq([j \in 1 .. Len(line) |-> j - 1],
            LAMBDA a : ~White(line[a + 1]) /\ (a = 0 \/ White(line[a])))
WordAt(a) ==
  SubSeq(line, a + 1, CHOOSE e \in a + 1 .. Len(line) :
                        /\ \A j \in a + 1 .. e : ~White(line[j])
                        /\ e = Len(line) \/ White(line[e + 1]))

\* runcmd, which cuts the line inside the buffer that it is still reading, passes on
\* exactly the words of the line, each ended by a 0 of its own, leaves room in argv for
\* the null pointer behind them, refuses a line with more words than that, and calls the
\* command whose whole name is the first word.
ArgvSplit ==
  mode = "ran" =>
    /\ Len(cmd.argv) < MAXARGS
    /\ cmd.refused <=> Len(WordStarts) > MAXARGS - 1
    /\ ~cmd.refused =>
         /\ cmd.argv = WordStarts
         /\ \A k \in DOMAIN cmd.argv :
              /\ strlen(cmd.buf, cmd.argv[k]) = Len(WordAt(cmd.argv[k]))
              /\ \A j \in DOMAIN WordAt(cmd.argv[k]) :
                   cmd.buf[cmd.argv[k] + j - 1] = WordAt(cmd.argv[k])[j]
         /\ cmd.called > 0 <=> cmd.argv # <<>> /\ \E i \in DOMAIN Commands : Commands[i] = WordAt(cmd.argv[1])
         /\ cmd.called > 0 => Commands[cmd.called] = WordAt(cmd.argv[1])
=============================================================================
