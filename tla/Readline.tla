------------------------------ MODULE Readline ------------------------------
(***************************************************************************)
(* The monitor's line editor and the text display: readline of             *)
(* lib/readline.c echoing through cga_putc of kern/console.c.  The editor  *)
(* keeps the line, the display keeps a window of text, and nothing but the *)
(* echo connects the two.                                                  *)
(*                                                                         *)
(* A cell holds a character; colours are left out.  crt_pos counts cells.  *)
(***************************************************************************)
EXTENDS Integers, Sequences

CONSTANTS
  CRT_COLS, CRT_ROWS,
  BUFLEN,     \* readline's buffer, with the terminating 0
  Glyph       \* characters of ' ' and above; "DEL" is one of them

ASSUME ScreenAssumption == CRT_COLS \in Nat \ {0} /\ CRT_ROWS \in Nat \ {0}
\* 1023 characters fit into 24 lines of 80.
ASSUME LineAssumption == BUFLEN \in Nat \ {0} /\ BUFLEN - 1 <= CRT_COLS * (CRT_ROWS - 1)

CRT_SIZE == CRT_COLS * CRT_ROWS
Cell == 0 .. CRT_SIZE - 1
Control == {"\\b", "\\n", "\\r", "\\t"}
ASSUME GlyphAssumption == {"DEL", " "} \subseteq Glyph /\ Glyph \cap Control = {}

VARIABLES
  crt,      \* crt_buf and crt_pos
  line,     \* readline: buf[0 .. i-1]
  mode      \* "command": the monitor prints; "readline"; "runcmd": the line is complete; "ran"

editVars == <<crt, line, mode>>

\* cga_init takes over the screen and the cursor as the BIOS left them.
EditInit ==
  /\ crt \in [buf : [Cell -> Glyph], pos : Cell]
  /\ line = <<>> /\ mode = "command"

-----------------------------------------------------------------------------
(* cga_putc                                                                  *)

\* Past the last cell the window moves down by a row.
Scroll(s) ==
  IF s.pos < CRT_SIZE THEN s
  ELSE [buf |-> [p \in Cell |-> IF p + CRT_COLS \in Cell THEN s.buf[p + CRT_COLS] ELSE " "],
        pos |-> s.pos - CRT_COLS]

Backspace_InRow(s) ==
  IF s.pos % CRT_COLS > 0 THEN [buf |-> [s.buf EXCEPT ![s.pos - 1] = " "], pos |-> s.pos - 1] ELSE s
Backspace(s) ==
  IF s.pos > 0 THEN [buf |-> [s.buf EXCEPT ![s.pos - 1] = " "], pos |-> s.pos - 1] ELSE s

RowStart(pos) == pos - (pos % CRT_COLS)

\* Every character but the tab.
PutChar(s, c) == Scroll(
  CASE c = "\\b" -> Backspace(s)
    [] c = "\\n" -> [s EXCEPT !.pos = RowStart(@ + CRT_COLS)]
    [] c = "\\r" -> [s EXCEPT !.pos = RowStart(@)]
    [] OTHER     -> [buf |-> [s.buf EXCEPT ![s.pos] = c], pos |-> s.pos + 1])

\* A tab is five spaces.
cga_putc(s, c) ==
  LET Space(t) == PutChar(t, " ")
  IN  IF c = "\\t" THEN Scroll(Space(Space(Space(Space(Space(s)))))) ELSE PutChar(s, c)

cputchar(c) == crt' = cga_putc(crt, c)

-----------------------------------------------------------------------------
\* The monitor prints, and then prompts.
MonitorOutput(c) == mode = "command" /\ cputchar(c) /\ UNCHANGED <<line, mode>>

Start == mode = "command" /\ mode' = "readline" /\ line' = <<>> /\ UNCHANGED crt

-----------------------------------------------------------------------------
(* readline, for one character from getchar.                                 *)

Erases(c) == c \in {"\\b", "DEL"} /\ line # <<>>

Erase(c) ==
  /\ mode = "readline" /\ Erases(c)
  /\ cputchar("\\b")
  /\ line' = SubSeq(line, 1, Len(line) - 1)
  /\ UNCHANGED mode

Fits(i) == i < BUFLEN - 1

Insert(c) ==
  /\ mode = "readline" /\ ~Erases(c) /\ c \in Glyph /\ Fits(Len(line))
  /\ cputchar(c)
  /\ line' = Append(line, c)
  /\ UNCHANGED mode

Finish(c) ==
  /\ mode = "readline" /\ c \in {"\\n", "\\r"}
  /\ cputchar("\\n")
  /\ mode' = "runcmd"
  /\ UNCHANGED line

\* Other control characters, and characters that do not fit, are ignored.
readline(c) == Erase(c) \/ Insert(c) \/ Finish(c)

\* The monitor runs the line, and goes on to the next one.
RunLine == mode = "runcmd" /\ mode' = "ran" /\ UNCHANGED <<crt, line>>

Again == mode = "ran" /\ mode' = "command" /\ line' = <<>> /\ UNCHANGED crt

Edits == Start \/ \E c \in Glyph \cup Control : MonitorOutput(c) \/ readline(c)

EditNext == Edits \/ RunLine \/ Again

EditSpec == EditInit /\ [][EditNext]_editVars

-----------------------------------------------------------------------------
(* Properties.                                                               *)

\* What one sees is what one gets: while a line is edited, the characters before the
\* cursor are those in the buffer, across rows, scrolling and erasing; the next one is
\* stored inside crt_buf, and the terminating 0 inside buf.
ScreenShowsLine ==
  /\ crt.pos \in Cell
  /\ Len(line) < BUFLEN
  /\ mode = "readline" =>
       \A j \in 1 .. Len(line) : crt.buf[crt.pos - Len(line) + j - 1] = line[j]
=============================================================================
