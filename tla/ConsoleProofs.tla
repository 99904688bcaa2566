--------------------------- MODULE ConsoleProofs ---------------------------
(***************************************************************************)
(* Console input for every size of the ring buffer and of the keyboard     *)
(* controller's queue, every set of keys and every serial line; and the    *)
(* display with the line editor, for every size of the screen and of the   *)
(* editor's buffer.                                                        *)
(***************************************************************************)
EXTENDS Console, Readline, TLAPS, SequenceTheorems

Modifiers == {"SHIFT", "CTL", "ALT"}
Shift == SUBSET {"SHIFT", "CTL", "ALT", "CAPSLOCK", "E0ESC"}
Code == {"E0", "letter", "lshift", "rshift", "ctrl", "alt", "caps", "point"}
KbdBytes == [code : Code, up : BOOLEAN, want : Char \cup {NO}, reboot : BOOLEAN]
Slot == 0 .. CONSBUFSIZE - 1
Ring == [buf : [Slot -> Char \cup {NO}], rpos : Slot, wpos : Slot]

\* Types.
TypeInv ==
  /\ held \in SUBSET Modifiers
  /\ caps \in BOOLEAN
  /\ kbd \in Seq(KbdBytes)
  /\ serial = <<>> \/ \E ch \in Char \cup {NO} : serial = <<ch>>
  /\ shift \in Shift
  /\ cons \in Ring
  /\ rebooted \in BOOLEAN
  /\ unread \in Seq(Char)

\* What shift is when every byte has been seen.
Down(h, on) == h \cup (IF on THEN {"CAPSLOCK"} ELSE {})

\* With shift as it is before a byte, kbd_proc_data does what was meant, and leaves shift
\* as it is to be after it.
Decodes(before, byte, after) ==
  LET new == kbd_proc_data(before, byte)
  IN  new.shift = after /\ new.c = byte.want /\ (Reboots(new) <=> byte.reboot)

\* f is what shift will be between the bytes of q.
Run(f, q, first, last) ==
  /\ f \in [0 .. Len(q) -> Shift]
  /\ f[0] = first /\ f[Len(q)] = last
  /\ \A j \in 1 .. Len(q) : Decodes(f[j - 1], q[j], f[j])

\* The bytes that wait will be decoded as they were meant.
DecodeInv == \E f \in [0 .. Len(kbd) -> Shift] : Run(f, kbd, shift, Down(held, caps))

ConsoleInv == TypeInv /\ DecodeInv /\ InOrder

-----------------------------------------------------------------------------
(* The bytes that wait.                                                      *)

\* The first byte is decoded.
LEMMA RunTail ==
  ASSUME NEW q \in Seq(KbdBytes), q # <<>>, NEW first, NEW last, NEW f, Run(f, q, first, last)
  PROVE  /\ Decodes(first, Head(q), f[1]) /\ f[1] \in Shift
         /\ \E g \in [0 .. Len(Tail(q)) -> Shift] : Run(g, Tail(q), f[1], last)
<1> DEFINE n == Len(q)
           g == [j \in 0 .. n - 1 |-> f[j + 1]]
<1>1. n \in Nat /\ n > 0 /\ Len(Tail(q)) = n - 1 /\ Head(q) = q[1] /\ \A j \in 1 .. n - 1 : Tail(q)[j] = q[j + 1]
  OBVIOUS
<1>2. f \in [0 .. n -> Shift] /\ f[0] = first /\ f[n] = last /\ \A j \in 1 .. n : Decodes(f[j - 1], q[j], f[j])
  BY DEF Run
<1> HIDE DEF n
<1>3. g \in [0 .. n - 1 -> Shift] /\ g[0] = f[1] /\ g[n - 1] = last
  BY <1>1, <1>2
<1>4. \A j \in 1 .. n - 1 : Decodes(g[j - 1], Tail(q)[j], g[j])
  <2> SUFFICES ASSUME NEW j \in 1 .. n - 1 PROVE Decodes(g[j - 1], Tail(q)[j], g[j])
    OBVIOUS
  <2>1. j + 1 \in 1 .. n /\ (j + 1) - 1 = j /\ g[j - 1] = f[j] /\ g[j] = f[j + 1] /\ Tail(q)[j] = q[j + 1]
    BY <1>1
  <2>2. Decodes(f[(j + 1) - 1], q[j + 1], f[j + 1])
    BY <1>2, <2>1
  <2> QED
    BY <2>1, <2>2
<1>5. Run(g, Tail(q), f[1], last)
  <2> HIDE DEF g
  <2> QED
    BY <1>1, <1>3, <1>4 DEF Run
<1>6. 1 \in 1 .. n /\ 1 - 1 = 0
  BY <1>1
<1>7. Decodes(first, Head(q), f[1]) /\ f[1] \in Shift
  BY <1>1, <1>2, <1>6
<1> QED
  BY <1>1, <1>3, <1>5, <1>7

\* A byte comes.
LEMMA RunAppend ==
  ASSUME NEW q \in Seq(KbdBytes), NEW b \in KbdBytes, NEW first, NEW mid, NEW last \in Shift,
         \E f \in [0 .. Len(q) -> Shift] : Run(f, q, first, mid), Decodes(mid, b, last)
  PROVE  \E g \in [0 .. Len(Append(q, b)) -> Shift] : Run(g, Append(q, b), first, last)
<1>1. PICK f \in [0 .. Len(q) -> Shift] : Run(f, q, first, mid)
  OBVIOUS
<1> DEFINE n == Len(q)
           p == Append(q, b)
           g == [j \in 0 .. n + 1 |-> IF j = n + 1 THEN last ELSE f[j]]
<1>2. n \in Nat /\ Len(p) = n + 1 /\ p[n + 1] = b /\ \A j \in 1 .. n : p[j] = q[j]
  OBVIOUS
<1>3. f \in [0 .. n -> Shift] /\ f[0] = first /\ f[n] = mid /\ \A j \in 1 .. n : Decodes(f[j - 1], q[j], f[j])
  BY <1>1 DEF Run
<1> HIDE DEF n, p
<1>4. g \in [0 .. n + 1 -> Shift] /\ g[0] = first /\ g[n + 1] = last
  BY <1>2, <1>3
<1>5. \A j \in 1 .. n + 1 : Decodes(g[j - 1], p[j], g[j])
  <2> SUFFICES ASSUME NEW j \in 1 .. n + 1 PROVE Decodes(g[j - 1], p[j], g[j])
    OBVIOUS
  <2>1. CASE j = n + 1
    <3>1. g[j - 1] = mid /\ g[j] = last /\ p[j] = b
      BY <1>2, <1>3, <2>1
    <3> QED
      BY <3>1
  <2>2. CASE j \in 1 .. n
    <3>1. g[j - 1] = f[j - 1] /\ g[j] = f[j] /\ p[j] = q[j]
      BY <1>2, <2>2
    <3> QED
      BY <1>3, <2>2, <3>1
  <2> QED
    BY <1>2, <2>1, <2>2
<1>6. Run(g, p, first, last)
  <2> HIDE DEF g
  <2> QED
    BY <1>2, <1>4, <1>5 DEF Run
<1> QED
  BY <1>2, <1>4, <1>6 DEF p

-----------------------------------------------------------------------------
(* The decoder.                                                              *)

\* The byte E0 is remembered, whatever is down.
LEMMA E0Decodes ==
  ASSUME NEW h \in SUBSET Modifiers, NEW on \in BOOLEAN
  PROVE  /\ Decodes(Down(h, on), Byte("E0", FALSE, NO, FALSE), Down(h, on) \cup {"E0ESC"})
         /\ Down(h, on) \in Shift /\ Down(h, on) \cup {"E0ESC"} \in Shift
         /\ "E0ESC" \notin Down(h, on)
         /\ Byte("E0", FALSE, NO, FALSE) \in KbdBytes
<1>1. Down(h, on) \in Shift /\ Down(h, on) \cup {"E0ESC"} \in Shift /\ "E0ESC" \notin Down(h, on)
  BY DEF Down, Shift, Modifiers
<1>2. Byte("E0", FALSE, NO, FALSE) \in KbdBytes
  BY DEF Byte, KbdBytes, Code, NO
<1>3. Decodes(Down(h, on), Byte("E0", FALSE, NO, FALSE), Down(h, on) \cup {"E0ESC"})
  BY DEF Decodes, kbd_proc_data, Byte, Reboots, NO, KEY_DEL
<1> QED
  BY <1>1, <1>2, <1>3

\* What shift is when the last byte of key k comes.
Before(k, h, on) == IF k \in E0Keys THEN Down(h, on) \cup {"E0ESC"} ELSE Down(h, on)

\* The tables, by key.
LEMMA Tables ==
  ASSUME NEW k \in DOMAIN Keyboard
  PROVE  /\ Keyboard[k] # "E0" /\ Keyboard[k] \in Code
         /\ Modifier(k) => Bit[Keyboard[k]] \in Modifiers /\ k # "caps"
         /\ shiftcode(k \in E0Keys, Keyboard[k]) = IF Modifier(k) THEN {Bit[Keyboard[k]]} ELSE {}
         /\ togglecode(k \in E0Keys, Keyboard[k]) = IF k = "caps" THEN {"CAPSLOCK"} ELSE {}
<1>1. k \in {"letter", "lshift", "rshift", "lctrl", "rctrl", "lalt", "ralt", "caps", "point", "del"}
  BY DEF Keyboard
<1>2. Keyboard[k] # "E0" /\ Keyboard[k] \in Code
  BY <1>1 DEF Keyboard, Code
<1>3. Modifier(k) => Bit[Keyboard[k]] \in Modifiers /\ k # "caps"
  BY <1>1 DEF Keyboard, Bit, Modifier, Modifiers
<1>4. shiftcode(k \in E0Keys, Keyboard[k]) = IF Modifier(k) THEN {Bit[Keyboard[k]]} ELSE {}
  BY <1>1 DEF shiftcode, Keyboard, Bit, Modifier, E0Keys
<1>5. togglecode(k \in E0Keys, Keyboard[k]) = IF k = "caps" THEN {"CAPSLOCK"} ELSE {}
  BY <1>1 DEF togglecode, Keyboard, E0Keys
<1> QED
  BY <1>2, <1>3, <1>4, <1>5

\* What shift is before the last byte of a key, and whether E0ESC is in it.
LEMMA BeforeIs ==
  ASSUME NEW k \in DOMAIN Keyboard, NEW h \in SUBSET Modifiers, NEW on \in BOOLEAN
  PROVE  /\ "E0ESC" \in Before(k, h, on) <=> k \in E0Keys
         /\ Before(k, h, on) \ {"E0ESC"} = Down(h, on)
BY DEF Before, Down, Modifiers

\* A key goes up.
LEMMA ReleaseDecodes ==
  ASSUME NEW k \in DOMAIN Keyboard, NEW h \in SUBSET Modifiers, NEW on \in BOOLEAN
  PROVE  Decodes(Before(k, h, on), Byte(Keyboard[k], TRUE, NO, FALSE),
                 Down(IF Modifier(k) THEN h \ {Bit[Keyboard[k]]} ELSE h, on))
<1> DEFINE b == Byte(Keyboard[k], TRUE, NO, FALSE)
           sh == Before(k, h, on)
           new == kbd_proc_data(sh, b)
           code == IF Modifier(k) THEN {Bit[Keyboard[k]]} ELSE {}
<1>1. b.code = Keyboard[k] /\ b.up = TRUE /\ b.want = NO /\ b.reboot = FALSE
  BY DEF Byte
<1>2. /\ "E0ESC" \in sh <=> k \in E0Keys
      /\ sh \ {"E0ESC"} = Down(h, on)
      /\ shiftcode(k \in E0Keys, Keyboard[k]) = code /\ Keyboard[k] # "E0"
      /\ Modifier(k) => Bit[Keyboard[k]] \in Modifiers
  BY BeforeIs, Tables
<1> HIDE DEF b, sh
<1>3. new = [shift |-> Released(sh, Keyboard[k]), c |-> NO]
  BY <1>1, <1>2 DEF kbd_proc_data
<1>4. new.shift = Released(sh, Keyboard[k]) /\ new.c = NO
  <2> HIDE DEF new
  <2> QED
    BY <1>3
<1>5. Released(sh, Keyboard[k]) = sh \ (code \cup {"E0ESC"})
  <2>1. ("E0ESC" \in sh) = (k \in E0Keys)
    BY <1>2
  <2> QED
    BY <1>2, <2>1 DEF Released
<1>6. sh \ (code \cup {"E0ESC"}) = Down(h, on) \ code
  BY <1>2
<1>7. Down(h, on) \ code = Down(IF Modifier(k) THEN h \ {Bit[Keyboard[k]]} ELSE h, on)
  BY <1>2 DEF Down, Modifiers
<1> HIDE DEF new
<1>8. ~Reboots(new)
  BY <1>4 DEF Reboots, NO, KEY_DEL
<1> QED
  BY <1>1, <1>4, <1>5, <1>6, <1>7, <1>8 DEF Decodes, new, b, sh

\* A key goes down.
LEMMA PressDecodes ==
  ASSUME NEW k \in DOMAIN Keyboard, NEW h \in SUBSET Modifiers, NEW on \in BOOLEAN,
         NEW down \in SUBSET Modifiers, NEW locked \in BOOLEAN, NEW reboot \in BOOLEAN,
         down = IF Modifier(k) THEN h \cup {Bit[Keyboard[k]]} ELSE h,
         locked <=> IF k = "caps" THEN ~on ELSE on,
         reboot <=> k = "del" /\ {"CTL", "ALT"} \subseteq down
  PROVE  Decodes(Before(k, h, on), Byte(Keyboard[k], FALSE, Meaning(k, down, locked), reboot), Down(down, locked))
<1> DEFINE b == Byte(Keyboard[k], FALSE, Meaning(k, down, locked), reboot)
           sh == Before(k, h, on)
           new == kbd_proc_data(sh, b)
           pressed == Pressed(sh, Keyboard[k])
           code == IF Modifier(k) THEN {Bit[Keyboard[k]]} ELSE {}
           toggle == IF k = "caps" THEN {"CAPSLOCK"} ELSE {}
<1>1. b.code = Keyboard[k] /\ b.up = FALSE /\ b.want = Meaning(k, down, locked) /\ b.reboot = reboot
  BY DEF Byte
<1>2. /\ "E0ESC" \in sh <=> k \in E0Keys
      /\ sh \ {"E0ESC"} = Down(h, on)
      /\ shiftcode(k \in E0Keys, Keyboard[k]) = code /\ togglecode(k \in E0Keys, Keyboard[k]) = toggle
      /\ Keyboard[k] # "E0" /\ (Modifier(k) => Bit[Keyboard[k]] \in Modifiers /\ k # "caps")
  BY BeforeIs, Tables
<1>3. ("E0ESC" \in sh) = (k \in E0Keys)
  BY <1>2
<1> HIDE DEF b, sh
<1>4. new = [shift |-> pressed, c |-> CapsLocked(pressed, charcode(pressed, k \in E0Keys, Keyboard[k]))]
  BY <1>1, <1>2, <1>3 DEF kbd_proc_data
<1>5. pressed = ((Down(h, on) \cup code) \ toggle) \cup (toggle \ (Down(h, on) \cup code))
  BY <1>2, <1>3 DEF Pressed
<1>6. pressed = Down(down, locked)
  <2> HIDE DEF pressed
  <2>1. CASE Modifier(k)
    BY <1>2, <1>5, <2>1 DEF Down, Modifiers
  <2>2. CASE ~Modifier(k) /\ k # "caps"
    BY <1>2, <1>5, <2>2 DEF Down
  <2>3. CASE ~Modifier(k) /\ k = "caps"
    <3>1. pressed = (h \ {"CAPSLOCK"}) \cup IF on THEN {} ELSE {"CAPSLOCK"}
      BY <1>5, <2>3 DEF Down, Modifiers
    <3> QED
      BY <2>3, <3>1 DEF Down, Modifiers
  <2> QED
    BY <2>1, <2>2, <2>3
<1>7. "CTL" \in pressed <=> "CTL" \in down
  BY <1>6 DEF Down
<1>8. "SHIFT" \in pressed <=> "SHIFT" \in down
  BY <1>6 DEF Down
<1>9. "CAPSLOCK" \in pressed <=> locked
  BY <1>6 DEF Down, Modifiers
<1>10. {"CTL", "ALT"} \subseteq pressed <=> {"CTL", "ALT"} \subseteq down
  BY <1>6 DEF Down
<1> HIDE DEF new, pressed
<1>11. new.shift = pressed /\ new.c = CapsLocked(pressed, charcode(pressed, k \in E0Keys, Keyboard[k]))
  BY <1>4
<1>12. k \in {"letter", "lshift", "rshift", "lctrl", "rctrl", "lalt", "ralt", "caps", "point", "del"}
  BY DEF Keyboard
<1>13. CapsLocked(pressed, charcode(pressed, k \in E0Keys, Keyboard[k])) = Meaning(k, down, locked)
  <2>1. CASE k = "letter"
    BY <1>7, <1>8, <1>9, <2>1 DEF CapsLocked, charcode, Meaning, Keyboard, E0Keys, NO, KEY_DEL
  <2>2. CASE k = "point"
    BY <1>7, <1>9, <2>2 DEF CapsLocked, charcode, Meaning, Keyboard, E0Keys, NO, KEY_DEL
  <2>3. CASE k = "del"
    BY <1>9, <2>3 DEF CapsLocked, charcode, Meaning, Keyboard, E0Keys, NO, KEY_DEL
  <2>4. CASE k \notin {"letter", "point", "del"}
    BY <1>9, <1>12, <2>4 DEF CapsLocked, charcode, Meaning, Keyboard, E0Keys, NO, KEY_DEL
  <2> QED
    BY <2>1, <2>2, <2>3, <2>4
<1>14. Meaning(k, down, locked) = KEY_DEL <=> k = "del"
  BY <1>12 DEF Meaning, NO, KEY_DEL
<1>15. Reboots(new) <=> b.reboot
  BY <1>1, <1>10, <1>11, <1>13, <1>14 DEF Reboots
<1> QED
  BY <1>1, <1>6, <1>11, <1>13, <1>15 DEF Decodes, new, b, sh

-----------------------------------------------------------------------------
(* The ring buffer.                                                          *)

Pos(a) == IF a < CONSBUFSIZE THEN a ELSE a - CONSBUFSIZE
Count(r, w) == IF w >= r THEN w - r ELSE w + CONSBUFSIZE - r

\* The buffer ring holds the characters of u, the oldest first.
Holds(ring, u) ==
  /\ Len(u) = Count(ring.rpos, ring.wpos)
  /\ \A i \in 1 .. Len(u) : u[i] = ring.buf[Pos(ring.rpos + i - 1)]

\* Remainders, as far as the buffer needs them.
LEMMA PosIs ==
  ASSUME NEW a \in Nat, a < 2 * CONSBUFSIZE
  PROVE  a % CONSBUFSIZE = Pos(a) /\ Pos(a) \in Slot
<1>1. CASE a < CONSBUFSIZE
  BY <1>1, SizeAssumption DEF Pos, Slot
<1>2. CASE a >= CONSBUFSIZE
  <2>1. a % CONSBUFSIZE = a - CONSBUFSIZE
    BY <1>2, SizeAssumption
  <2> QED
    BY <1>2, <2>1, SizeAssumption DEF Pos, Slot
<1> QED
  BY <1>1, <1>2, SizeAssumption

\* Positions after the reader's r and the writer's w have moved.
LEMMA Positions ==
  ASSUME NEW r \in Nat, NEW w \in Nat, NEW n \in Nat, r < CONSBUFSIZE, w < CONSBUFSIZE, n = Count(r, w)
  PROVE  /\ n < CONSBUFSIZE /\ w = Pos(r + n)
         /\ (w + CONSBUFSIZE - r) \in Nat /\ w + CONSBUFSIZE - r < 2 * CONSBUFSIZE /\ n = Pos(w + CONSBUFSIZE - r)
         /\ Count(r, Pos(w + 1)) = IF n + 1 = CONSBUFSIZE THEN 0 ELSE n + 1
         /\ \A i \in 1 .. n : Pos(r + i - 1) \in Slot /\ Pos(r + i - 1) # w
         /\ r # w => n > 0 /\ Count(Pos(r + 1), w) = n - 1
         /\ \A i \in 1 .. n - 1 : Pos(r + (i + 1) - 1) = Pos(Pos(r + 1) + i - 1)
<1>1. n < CONSBUFSIZE /\ w = Pos(r + n)
  BY SizeAssumption DEF Count, Pos
<1>2. (w + CONSBUFSIZE - r) \in Nat /\ w + CONSBUFSIZE - r < 2 * CONSBUFSIZE /\ n = Pos(w + CONSBUFSIZE - r)
  BY SizeAssumption DEF Count, Pos
<1>3. Count(r, Pos(w + 1)) = IF n + 1 = CONSBUFSIZE THEN 0 ELSE n + 1
  BY SizeAssumption DEF Count, Pos
<1>4. \A i \in 1 .. n : Pos(r + i - 1) \in Slot /\ Pos(r + i - 1) # w
  BY SizeAssumption DEF Count, Pos, Slot
<1>5. r # w => n > 0 /\ Count(Pos(r + 1), w) = n - 1
  BY SizeAssumption DEF Count, Pos
<1>6. \A i \in 1 .. n - 1 : Pos(r + (i + 1) - 1) = Pos(Pos(r + 1) + i - 1)
  BY <1>1, SizeAssumption DEF Pos
<1> QED
  BY <1>1, <1>2, <1>3, <1>4, <1>5, <1>6

\* The fields of a ring.
LEMMA RingFields ==
  ASSUME NEW ring \in Ring
  PROVE  /\ ring.rpos \in Nat /\ ring.rpos < CONSBUFSIZE /\ ring.wpos \in Nat /\ ring.wpos < CONSBUFSIZE
         /\ ring.rpos \in Slot /\ ring.wpos \in Slot /\ ring.buf \in [Slot -> Char \cup {NO}]
         /\ Count(ring.rpos, ring.wpos) \in Nat /\ Count(ring.rpos, ring.wpos) < CONSBUFSIZE
<1>1. ring.rpos \in Slot /\ ring.wpos \in Slot /\ ring.buf \in [Slot -> Char \cup {NO}]
  BY DEF Ring
<1>2. ring.rpos \in Nat /\ ring.rpos < CONSBUFSIZE /\ ring.wpos \in Nat /\ ring.wpos < CONSBUFSIZE
  BY <1>1, SizeAssumption DEF Slot
<1> QED
  BY <1>1, <1>2, SizeAssumption DEF Count

\* What cons_getc would return is u exactly if the buffer holds u.
LEMMA HoldsIs ==
  ASSUME NEW ring \in Ring, NEW u \in Seq(Char), NEW n \in Int,
         n = (ring.wpos + CONSBUFSIZE - ring.rpos) % CONSBUFSIZE
  PROVE  [i \in 1 .. n |-> ring.buf[(ring.rpos + i - 1) % CONSBUFSIZE]] = u <=> Holds(ring, u)
<1>1. /\ ring.rpos \in Nat /\ ring.rpos < CONSBUFSIZE /\ ring.wpos \in Nat /\ ring.wpos < CONSBUFSIZE
      /\ ring.rpos \in Slot /\ ring.wpos \in Slot /\ ring.buf \in [Slot -> Char \cup {NO}]
      /\ Count(ring.rpos, ring.wpos) \in Nat /\ Count(ring.rpos, ring.wpos) < CONSBUFSIZE
  BY RingFields
<1>2. n = Count(ring.rpos, ring.wpos)
  <2> DEFINE a == ring.wpos + CONSBUFSIZE - ring.rpos
  <2>1. a \in Nat /\ a < 2 * CONSBUFSIZE /\ Count(ring.rpos, ring.wpos) = Pos(a)
    BY <1>1, Positions
  <2> HIDE DEF a
  <2>2. a % CONSBUFSIZE = Pos(a)
    BY <2>1, PosIs
  <2> QED
    BY <2>1, <2>2 DEF a
<1>3. ASSUME NEW i \in 1 .. n PROVE (ring.rpos + i - 1) % CONSBUFSIZE = Pos(ring.rpos + i - 1)
  <2> DEFINE a == ring.rpos + i - 1
  <2>1. a \in Nat /\ a < 2 * CONSBUFSIZE
    BY <1>1, <1>2, SizeAssumption
  <2> HIDE DEF a
  <2>2. a % CONSBUFSIZE = Pos(a)
    BY <2>1, PosIs
  <2> QED
    BY <2>2 DEF a
<1> DEFINE w == [i \in 1 .. n |-> ring.buf[(ring.rpos + i - 1) % CONSBUFSIZE]]
<1>4. DOMAIN w = 1 .. n /\ \A i \in 1 .. n : w[i] = ring.buf[Pos(ring.rpos + i - 1)]
  BY <1>3
<1>5. DOMAIN u = 1 .. Len(u) /\ Len(u) \in Nat /\ u = [i \in 1 .. Len(u) |-> u[i]]
  OBVIOUS
<1>6. w = [i \in 1 .. n |-> w[i]]
  OBVIOUS
<1> HIDE DEF w
<1>7. ASSUME w = u PROVE Holds(ring, u)
  <2>1. 1 .. n = 1 .. Len(u)
    BY <1>4, <1>5, <1>7
  <2>2. n = Len(u)
    BY <1>1, <1>2, <1>5, <2>1
  <2> QED
    BY <1>2, <1>4, <1>7, <2>2 DEF Holds
<1>8. ASSUME Holds(ring, u) PROVE w = u
  <2>1. n = Len(u)
    BY <1>2, <1>8 DEF Holds
  <2>2. \A i \in 1 .. n : w[i] = u[i]
    BY <1>4, <1>8, <2>1 DEF Holds
  <2> QED
    BY <1>5, <1>6, <2>1, <2>2
<1> QED
  BY <1>7, <1>8 DEF w

\* The next position.
LEMMA WrapIs ==
  ASSUME NEW a \in Nat, a < CONSBUFSIZE
  PROVE  Wrap(a + 1) = Pos(a + 1) /\ Wrap(a + 1) \in Slot /\ Wrap(a + 1) \in Nat
BY SizeAssumption DEF Wrap, Pos, Slot

\* cons_intr's two assignments, field by field.
LEMMA StoreFields ==
  ASSUME NEW ring \in Ring, NEW ch, NEW next
  PROVE  [ring EXCEPT !.buf[ring.wpos] = ch, !.wpos = next]
           = [buf |-> [ring.buf EXCEPT ![ring.wpos] = ch], rpos |-> ring.rpos, wpos |-> next]
<1> DEFINE left == [ring EXCEPT !.buf[ring.wpos] = ch, !.wpos = next]
           buf == [ring.buf EXCEPT ![ring.wpos] = ch]
<1>1. ring = [buf |-> ring.buf, rpos |-> ring.rpos, wpos |-> ring.wpos]
  BY DEF Ring
<1>2. DOMAIN ring = {"buf", "rpos", "wpos"}
  BY <1>1
<1>3. DOMAIN left = {"buf", "rpos", "wpos"} /\ left.buf = buf /\ left.rpos = ring.rpos /\ left.wpos = next
  BY <1>2
<1>4. left = [x \in DOMAIN left |-> left[x]]
  OBVIOUS
<1> HIDE DEF left, buf
<1>5. left = [buf |-> buf, rpos |-> ring.rpos, wpos |-> next]
  BY <1>3, <1>4
<1> QED
  BY <1>5 DEF left, buf

\* A character is stored: it is the newest, or the buffer is full and looks empty.
LEMMA RingStore ==
  ASSUME NEW ring \in Ring, NEW u \in Seq(Char), Holds(ring, u), NEW ch \in Char,
         NEW after, after = [buf |-> [ring.buf EXCEPT ![ring.wpos] = ch], rpos |-> ring.rpos, wpos |-> Wrap(ring.wpos + 1)],
         NEW v, v = IF Len(Append(u, ch)) = CONSBUFSIZE THEN <<>> ELSE Append(u, ch)
  PROVE  after \in Ring /\ v \in Seq(Char) /\ Holds(after, v)
<1>1. /\ ring.rpos \in Nat /\ ring.rpos < CONSBUFSIZE /\ ring.wpos \in Nat /\ ring.wpos < CONSBUFSIZE
      /\ ring.rpos \in Slot /\ ring.wpos \in Slot /\ ring.buf \in [Slot -> Char \cup {NO}]
      /\ Count(ring.rpos, ring.wpos) \in Nat /\ Count(ring.rpos, ring.wpos) < CONSBUFSIZE
  BY RingFields
<1> DEFINE n == Len(u)
           next == Wrap(ring.wpos + 1)
           buf == [ring.buf EXCEPT ![ring.wpos] = ch]
           full == Append(u, ch)
<1>2. n \in Nat /\ n = Count(ring.rpos, ring.wpos) /\ \A i \in 1 .. n : u[i] = ring.buf[Pos(ring.rpos + i - 1)]
  BY DEF Holds
<1>3. full \in Seq(Char) /\ Len(full) = n + 1 /\ full[n + 1] = ch /\ \A i \in 1 .. n : full[i] = u[i]
  OBVIOUS
<1>4. next \in Slot /\ next = Pos(ring.wpos + 1) /\ next \in Nat
  BY <1>1, WrapIs
<1>5. /\ buf \in [Slot -> Char \cup {NO}] /\ buf[ring.wpos] = ch
      /\ \A a \in Slot : a # ring.wpos => buf[a] = ring.buf[a]
  BY <1>1
<1> HIDE DEF n, next, buf, full
<1>6. after = [buf |-> buf, rpos |-> ring.rpos, wpos |-> next]
  BY DEF buf, next
<1>7. after \in Ring /\ after.buf = buf /\ after.rpos = ring.rpos /\ after.wpos = next
  <2>1. ring.rpos \in Slot /\ next \in Slot /\ buf \in [Slot -> Char \cup {NO}]
    BY <1>1, <1>4, <1>5
  <2>2. after.buf = buf /\ after.rpos = ring.rpos /\ after.wpos = next
    BY <1>6
  <2> QED
    BY <1>6, <2>1, <2>2 DEF Ring
<1>8. v = IF n + 1 = CONSBUFSIZE THEN <<>> ELSE full
  BY <1>3 DEF full
<1>9. /\ n < CONSBUFSIZE /\ ring.wpos = Pos(ring.rpos + n)
      /\ Count(ring.rpos, Pos(ring.wpos + 1)) = IF n + 1 = CONSBUFSIZE THEN 0 ELSE n + 1
      /\ \A i \in 1 .. n : Pos(ring.rpos + i - 1) \in Slot /\ Pos(ring.rpos + i - 1) # ring.wpos
  BY <1>1, <1>2, Positions
<1>10. Count(after.rpos, after.wpos) = IF n + 1 = CONSBUFSIZE THEN 0 ELSE n + 1
  BY <1>4, <1>7, <1>9
<1>11. CASE n + 1 = CONSBUFSIZE
  <2>1. v = <<>>
    BY <1>8, <1>11
  <2>2. Len(<<>>) = 0 /\ <<>> \in Seq(Char) /\ Count(after.rpos, after.wpos) = 0
    BY <1>10, <1>11
  <2> QED
    BY <1>7, <2>1, <2>2 DEF Holds
<1>12. CASE n + 1 # CONSBUFSIZE
  <2>1. v = full /\ Len(v) = n + 1 /\ Count(after.rpos, after.wpos) = n + 1
    BY <1>3, <1>8, <1>10, <1>12
  <2>2. ASSUME NEW i \in 1 .. n + 1 PROVE full[i] = buf[Pos(ring.rpos + i - 1)]
    <3>1. CASE i = n + 1
      <4>1. ring.rpos + i - 1 = ring.rpos + n
        BY <1>1, <1>2, <3>1
      <4> QED
        BY <1>3, <1>5, <1>9, <3>1, <4>1
    <3>2. CASE i \in 1 .. n
      BY <1>2, <1>3, <1>5, <1>9, <3>2
    <3> QED
      BY <1>2, <3>1, <3>2
  <2> QED
    BY <1>3, <1>7, <2>1, <2>2 DEF Holds
<1> QED
  BY <1>11, <1>12

\* cons_getc takes the oldest character.
LEMMA RingTake ==
  ASSUME NEW ring \in Ring, NEW u \in Seq(Char), Holds(ring, u), ring.rpos # ring.wpos,
         NEW after, after = [ring EXCEPT !.rpos = Wrap(ring.rpos + 1)]
  PROVE  u # <<>> /\ after \in Ring /\ Tail(u) \in Seq(Char) /\ Holds(after, Tail(u))
<1>1. /\ ring.rpos \in Nat /\ ring.rpos < CONSBUFSIZE /\ ring.wpos \in Nat /\ ring.wpos < CONSBUFSIZE
      /\ ring.rpos \in Slot /\ ring.wpos \in Slot /\ ring.buf \in [Slot -> Char \cup {NO}]
      /\ Count(ring.rpos, ring.wpos) \in Nat /\ Count(ring.rpos, ring.wpos) < CONSBUFSIZE
  BY RingFields
<1> DEFINE n == Len(u)
           next == Wrap(ring.rpos + 1)
           rest == Tail(u)
<1>2. n \in Nat /\ n = Count(ring.rpos, ring.wpos) /\ \A i \in 1 .. n : u[i] = ring.buf[Pos(ring.rpos + i - 1)]
  BY DEF Holds
<1> HIDE DEF n, next, rest
<1>3. /\ n > 0 /\ Count(Pos(ring.rpos + 1), ring.wpos) = n - 1
      /\ \A i \in 1 .. n - 1 : Pos(ring.rpos + (i + 1) - 1) = Pos(Pos(ring.rpos + 1) + i - 1)
  BY <1>1, <1>2, Positions
<1>4. n > 0 /\ u # <<>>
  BY <1>3 DEF n
<1>5. rest \in Seq(Char) /\ Len(rest) = n - 1 /\ \A i \in 1 .. n - 1 : rest[i] = u[i + 1]
  BY <1>4 DEF n, rest
<1>6. next \in Slot /\ next = Pos(ring.rpos + 1) /\ next \in Nat
  BY <1>1, SizeAssumption DEF Wrap, Pos, Slot, next
<1>7. after \in Ring /\ after.buf = ring.buf /\ after.rpos = next /\ after.wpos = ring.wpos
  BY <1>6 DEF Ring, next
<1>8. Count(after.rpos, after.wpos) = n - 1
  BY <1>6, <1>7, <1>3
<1>9. ASSUME NEW i \in 1 .. n - 1 PROVE rest[i] = ring.buf[Pos(next + i - 1)]
  <2>1. i + 1 \in 1 .. n
    BY <1>2
  <2>2. Pos(ring.rpos + (i + 1) - 1) = Pos(next + i - 1)
    BY <1>6, <1>3
  <2> QED
    BY <1>2, <1>5, <2>1, <2>2
<1> QED
  BY <1>4, <1>5, <1>7, <1>8, <1>9 DEF Holds, rest

-----------------------------------------------------------------------------
(* Steps.                                                                    *)

\* InOrder in the terms of the lemmas on rings.
LEMMA InOrderNow ==
  ASSUME cons \in Ring, unread \in Seq(Char)
  PROVE  InOrder <=> Holds(cons, unread)
<1> DEFINE n == (cons.wpos + CONSBUFSIZE - cons.rpos) % CONSBUFSIZE
<1>1. n \in Int
  BY RingFields, SizeAssumption
<1>2. [i \in 1 .. n |-> cons.buf[(cons.rpos + i - 1) % CONSBUFSIZE]] = unread <=> Holds(cons, unread)
  <2> HIDE DEF n
  <2>1. n = (cons.wpos + CONSBUFSIZE - cons.rpos) % CONSBUFSIZE
    BY DEF n
  <2> QED
    BY <1>1, <2>1, HoldsIs
<1> QED
  BY <1>2 DEF InOrder, Waiting

\* The same in the next state.
LEMMA InOrderNext ==
  ASSUME cons' \in Ring, unread' \in Seq(Char), Holds(cons', unread')
  PROVE  InOrder'
<1> DEFINE n == (cons'.wpos + CONSBUFSIZE - cons'.rpos) % CONSBUFSIZE
<1>1. n \in Int
  BY RingFields, SizeAssumption
<1>2. [i \in 1 .. n |-> cons'.buf[(cons'.rpos + i - 1) % CONSBUFSIZE]] = unread'
  <2> HIDE DEF n
  <2>1. n = (cons'.wpos + CONSBUFSIZE - cons'.rpos) % CONSBUFSIZE
    BY DEF n
  <2> QED
    BY <1>1, <2>1, HoldsIs
<1> QED
  BY <1>2 DEF InOrder, Waiting

\* cons_intr stores a character, or nothing for 0, just as it was meant.
LEMMA PutKeeps ==
  ASSUME TypeInv, InOrder, NEW ch \in Char \cup {NO}, Put(ch, ch)
  PROVE  cons' \in Ring /\ unread' \in Seq(Char) /\ InOrder'
<1>1. cons \in Ring /\ unread \in Seq(Char) /\ Holds(cons, unread)
  BY InOrderNow DEF TypeInv
<1>2. CASE ch = NO
  <2>1. Len(unread) # CONSBUFSIZE
    BY <1>1, RingFields DEF Holds
  <2>2. cons' = cons /\ unread' = unread
    BY <1>2, <2>1 DEF Put
  <2> QED
    BY <1>1, <2>2, InOrderNext
<1>3. CASE ch # NO
  <2>1. ch \in Char
    BY <1>3
  <2>2. cons' = [buf |-> [cons.buf EXCEPT ![cons.wpos] = ch], rpos |-> cons.rpos, wpos |-> Wrap(cons.wpos + 1)]
    <3>1. cons' = [cons EXCEPT !.buf[cons.wpos] = ch, !.wpos = Wrap(cons.wpos + 1)]
      BY <1>3 DEF Put
    <3> QED
      BY <1>1, <3>1, StoreFields
  <2>3. unread' = IF Len(Append(unread, ch)) = CONSBUFSIZE THEN <<>> ELSE Append(unread, ch)
    BY <1>3 DEF Put
  <2>4. cons' \in Ring /\ unread' \in Seq(Char) /\ Holds(cons', unread')
    BY <1>1, <2>1, <2>2, <2>3, RingStore
  <2> QED
    BY <2>4, InOrderNext
<1> QED
  BY <1>2, <1>3

\* Two bytes that come together.
LEMMA TwoBytes ==
  ASSUME NEW q \in Seq(KbdBytes), NEW e \in KbdBytes, NEW b \in KbdBytes
  PROVE  q \o (<<e>> \o <<b>>) = Append(Append(q, e), b)
<1>1. <<e>> \in Seq(KbdBytes) /\ <<b>> \in Seq(KbdBytes) /\ Append(q, e) \in Seq(KbdBytes)
  OBVIOUS
<1>2. q \o (<<e>> \o <<b>>) = (q \o <<e>>) \o <<b>>
  BY <1>1, ConcatAssociative
<1>3. q \o <<e>> = Append(q, e) /\ Append(q, e) \o <<b>> = Append(Append(q, e), b)
  BY <1>1, AppendIsConcat
<1> QED
  BY <1>2, <1>3

\* The bytes of a key join the queue.
LEMMA KeyQueued ==
  ASSUME ConsoleInv, NEW k \in DOMAIN Keyboard, NEW b \in KbdBytes,
         NEW down \in SUBSET Modifiers, NEW locked \in BOOLEAN,
         Decodes(Before(k, held, caps), b, Down(down, locked)),
         kbd' = kbd \o ((IF k \in E0Keys THEN <<Byte("E0", FALSE, NO, FALSE)>> ELSE <<>>) \o <<b>>),
         held' = down, caps' = locked, shift' = shift
  PROVE  kbd' \in Seq(KbdBytes) /\ DecodeInv'
<1>1. /\ kbd \in Seq(KbdBytes) /\ held \in SUBSET Modifiers /\ caps \in BOOLEAN /\ shift \in Shift
      /\ \E f \in [0 .. Len(kbd) -> Shift] : Run(f, kbd, shift, Down(held, caps))
  BY DEF ConsoleInv, TypeInv, DecodeInv
<1> DEFINE e == Byte("E0", FALSE, NO, FALSE)
<1>2. /\ Decodes(Down(held, caps), e, Down(held, caps) \cup {"E0ESC"})
      /\ Down(held, caps) \in Shift /\ Down(held, caps) \cup {"E0ESC"} \in Shift
      /\ e \in KbdBytes /\ Down(down, locked) \in Shift
  BY <1>1, E0Decodes
<1> HIDE DEF e
<1>3. CASE k \in E0Keys
  <2> DEFINE q == Append(kbd, e)
  <2>1. q \in Seq(KbdBytes)
    BY <1>1, <1>2
  <2>2. \E f \in [0 .. Len(q) -> Shift] : Run(f, q, shift, Down(held, caps) \cup {"E0ESC"})
    BY <1>1, <1>2, RunAppend
  <2>3. Decodes(Down(held, caps) \cup {"E0ESC"}, b, Down(down, locked))
    BY <1>3 DEF Before
  <2>4. kbd' = Append(q, b)
    <3>1. kbd' = kbd \o (<<e>> \o <<b>>)
      BY <1>3 DEF e
    <3> QED
      BY <1>1, <1>2, <3>1, TwoBytes
  <2> HIDE DEF q
  <2>5. \E f \in [0 .. Len(Append(q, b)) -> Shift] : Run(f, Append(q, b), shift, Down(down, locked))
    BY <1>2, <2>1, <2>2, <2>3, RunAppend
  <2>6. Append(q, b) \in Seq(KbdBytes)
    BY <2>1
  <2> QED
    BY <2>4, <2>5, <2>6 DEF DecodeInv
<1>4. CASE k \notin E0Keys
  <2>1. Decodes(Down(held, caps), b, Down(down, locked))
    BY <1>4 DEF Before
  <2>2. kbd' = Append(kbd, b)
    BY <1>1, <1>4
  <2>3. \E f \in [0 .. Len(Append(kbd, b)) -> Shift] : Run(f, Append(kbd, b), shift, Down(down, locked))
    BY <1>1, <1>2, <2>1, RunAppend
  <2>4. Append(kbd, b) \in Seq(KbdBytes)
    BY <1>1
  <2> QED
    BY <2>2, <2>3, <2>4 DEF DecodeInv
<1> QED
  BY <1>3, <1>4

\* A key goes down.
LEMMA PressKeeps ==
  ASSUME ConsoleInv, NEW k \in Key, Press(k)
  PROVE  ConsoleInv'
<1> DEFINE down == IF Modifier(k) THEN held \cup {Bit[Keyboard[k]]} ELSE held
           locked == IF k = "caps" THEN ~caps ELSE caps
           reboot == k = "del" /\ {"CTL", "ALT"} \subseteq down
           b == Byte(Keyboard[k], FALSE, Meaning(k, down, locked), reboot)
<1>1. /\ k \in DOMAIN Keyboard /\ held \in SUBSET Modifiers /\ caps \in BOOLEAN
      /\ TypeInv /\ InOrder
  BY KeyAssumption DEF ConsoleInv, TypeInv
<1>2. down \in SUBSET Modifiers
  BY <1>1, Tables
<1>3. locked \in BOOLEAN /\ reboot \in BOOLEAN
  BY <1>1
<1>4. /\ held' = down /\ caps' = locked /\ shift' = shift
      /\ kbd' = kbd \o ((IF k \in E0Keys THEN <<Byte("E0", FALSE, NO, FALSE)>> ELSE <<>>) \o <<b>>)
      /\ UNCHANGED <<serial, cons, rebooted, unread>>
  BY DEF Press, Bytes
<1>5. Decodes(Before(k, held, caps), b, Down(down, locked))
  <2>1. down = IF Modifier(k) THEN held \cup {Bit[Keyboard[k]]} ELSE held
    OBVIOUS
  <2>2. locked <=> IF k = "caps" THEN ~caps ELSE caps
    OBVIOUS
  <2>3. reboot <=> k = "del" /\ {"CTL", "ALT"} \subseteq down
    OBVIOUS
  <2> HIDE DEF down, locked, reboot
  <2> QED
    BY <1>1, <1>2, <1>3, <2>1, <2>2, <2>3, PressDecodes
<1>6. b \in KbdBytes
  <2>1. Keyboard[k] \in Code
    BY <1>1, Tables
  <2>2. Meaning(k, down, locked) \in Char \cup {NO}
    <3> HIDE DEF down, locked
    <3> QED
      BY DEF Meaning, Char, NO, KEY_DEL
  <2> HIDE DEF down, locked, reboot
  <2> QED
    BY <1>3, <2>1, <2>2 DEF Byte, KbdBytes
<1> HIDE DEF down, locked, reboot, b
<1>7. kbd' \in Seq(KbdBytes) /\ DecodeInv'
  BY <1>1, <1>2, <1>3, <1>4, <1>5, <1>6, KeyQueued
<1>8. TypeInv'
  BY <1>1, <1>2, <1>3, <1>4, <1>7 DEF TypeInv
<1>9. InOrder'
  BY <1>1, <1>4 DEF InOrder, Waiting
<1> QED
  BY <1>7, <1>8, <1>9 DEF ConsoleInv

\* A key goes up.
LEMMA ReleaseKeeps ==
  ASSUME ConsoleInv, NEW k \in Key, Release(k)
  PROVE  ConsoleInv'
<1> DEFINE down == IF Modifier(k) THEN held \ {Bit[Keyboard[k]]} ELSE held
           b == Byte(Keyboard[k], TRUE, NO, FALSE)
<1>1. /\ k \in DOMAIN Keyboard /\ held \in SUBSET Modifiers /\ caps \in BOOLEAN
      /\ TypeInv /\ InOrder
  BY KeyAssumption DEF ConsoleInv, TypeInv
<1>2. down \in SUBSET Modifiers
  BY <1>1
<1>3. /\ held' = down /\ caps' = caps /\ shift' = shift
      /\ kbd' = kbd \o ((IF k \in E0Keys THEN <<Byte("E0", FALSE, NO, FALSE)>> ELSE <<>>) \o <<b>>)
      /\ UNCHANGED <<serial, cons, rebooted, unread>>
  BY DEF Release, Bytes
<1>4. Decodes(Before(k, held, caps), b, Down(down, caps))
  BY <1>1, ReleaseDecodes
<1>5. b \in KbdBytes
  <2>1. Keyboard[k] \in Code
    BY <1>1, Tables
  <2> QED
    BY <2>1 DEF Byte, KbdBytes
<1> HIDE DEF down, b
<1>6. kbd' \in Seq(KbdBytes) /\ DecodeInv'
  BY <1>1, <1>2, <1>3, <1>4, <1>5, KeyQueued
<1>7. TypeInv'
  BY <1>1, <1>2, <1>3, <1>6 DEF TypeInv
<1>8. InOrder'
  BY <1>1, <1>3 DEF InOrder, Waiting
<1> QED
  BY <1>6, <1>7, <1>8 DEF ConsoleInv

\* serial_intr stores the character of the serial port.
LEMMA SerialByteKeeps ==
  ASSUME ConsoleInv, SerialByte
  PROVE  ConsoleInv'
<1>1. TypeInv /\ InOrder /\ DecodeInv
  BY DEF ConsoleInv
<1>2. PICK ch \in Char \cup {NO} : serial = <<ch>>
  BY <1>1 DEF TypeInv, SerialByte
<1>3. Head(serial) = ch
  BY <1>2
<1>4. Put(ch, ch) /\ serial' = <<>> /\ UNCHANGED <<held, caps, kbd, shift, pc, rebooted>>
  BY <1>3 DEF SerialByte
<1>5. cons' \in Ring /\ unread' \in Seq(Char) /\ InOrder'
  BY <1>1, <1>4, PutKeeps
<1>6. TypeInv'
  BY <1>1, <1>4, <1>5 DEF TypeInv
<1>7. DecodeInv'
  BY <1>1, <1>4 DEF DecodeInv
<1> QED
  BY <1>5, <1>6, <1>7 DEF ConsoleInv

\* What kbd_proc_data makes of the first byte of the keyboard.
LEMMA FirstByte ==
  ASSUME ConsoleInv, kbd # <<>>
  PROVE  /\ Head(kbd) \in KbdBytes
         /\ \E after \in Shift :
              /\ Decodes(shift, Head(kbd), after)
              /\ \E g \in [0 .. Len(Tail(kbd)) -> Shift] : Run(g, Tail(kbd), after, Down(held, caps))
<1>1. kbd \in Seq(KbdBytes) /\ DecodeInv
  BY DEF ConsoleInv, TypeInv
<1>2. PICK f \in [0 .. Len(kbd) -> Shift] : Run(f, kbd, shift, Down(held, caps))
  BY <1>1 DEF DecodeInv
<1>3. /\ Decodes(shift, Head(kbd), f[1]) /\ f[1] \in Shift
      /\ \E g \in [0 .. Len(Tail(kbd)) -> Shift] : Run(g, Tail(kbd), f[1], Down(held, caps))
  BY <1>1, <1>2, RunTail
<1>4. Head(kbd) \in KbdBytes
  BY <1>1
<1> QED
  BY <1>3, <1>4

\* kbd_intr takes a byte from the keyboard.
LEMMA KbdByteKeeps ==
  ASSUME ConsoleInv, KbdByte
  PROVE  ConsoleInv' /\ rebooted' = Head(kbd).reboot
<1>1. TypeInv /\ InOrder /\ kbd # <<>> /\ kbd \in Seq(KbdBytes)
  BY DEF ConsoleInv, TypeInv, KbdByte
<1>2. /\ Head(kbd) \in KbdBytes
      /\ \E after \in Shift :
           /\ Decodes(shift, Head(kbd), after)
           /\ \E g \in [0 .. Len(Tail(kbd)) -> Shift] : Run(g, Tail(kbd), after, Down(held, caps))
  BY <1>1, FirstByte
<1>3. PICK after \in Shift :
        /\ Decodes(shift, Head(kbd), after)
        /\ \E g \in [0 .. Len(Tail(kbd)) -> Shift] : Run(g, Tail(kbd), after, Down(held, caps))
  BY <1>2
<1> DEFINE new == kbd_proc_data(shift, Head(kbd))
<1>4. /\ kbd' = Tail(kbd) /\ shift' = new.shift /\ rebooted' = Reboots(new) /\ Put(new.c, Head(kbd).want)
      /\ UNCHANGED <<held, caps, serial, pc>>
  BY DEF KbdByte
<1>5. new.shift = after /\ new.c = Head(kbd).want /\ (Reboots(new) <=> Head(kbd).reboot)
  BY <1>3 DEF Decodes
<1>6. Reboots(new) \in BOOLEAN
  BY DEF Reboots
<1> HIDE DEF new
<1>7. Head(kbd).want \in Char \cup {NO} /\ Head(kbd).reboot \in BOOLEAN
  BY <1>2 DEF KbdBytes
<1>8. Put(Head(kbd).want, Head(kbd).want)
  BY <1>4, <1>5
<1>9. cons' \in Ring /\ unread' \in Seq(Char) /\ InOrder'
  BY <1>1, <1>7, <1>8, PutKeeps
<1>10. rebooted' = Head(kbd).reboot
  BY <1>4, <1>5, <1>6, <1>7
<1>11. Tail(kbd) \in Seq(KbdBytes)
  BY <1>1
<1>12. TypeInv'
  BY <1>1, <1>3, <1>4, <1>5, <1>7, <1>9, <1>10, <1>11 DEF TypeInv
<1>13. DecodeInv'
  BY <1>3, <1>4, <1>5 DEF DecodeInv
<1> QED
  BY <1>9, <1>10, <1>12, <1>13 DEF ConsoleInv

\* cons_getc takes a character from the buffer, if it has one.
LEMMA GrabKeeps ==
  ASSUME ConsoleInv, Grab
  PROVE  ConsoleInv'
<1>1. TypeInv /\ InOrder /\ DecodeInv
  BY DEF ConsoleInv
<1>2. cons \in Ring /\ unread \in Seq(Char) /\ Holds(cons, unread)
  BY <1>1, InOrderNow DEF TypeInv
<1>3. UNCHANGED <<held, caps, kbd, serial, shift, rebooted>>
  BY DEF Grab
<1>4. cons' \in Ring /\ unread' \in Seq(Char) /\ Holds(cons', unread')
  <2>1. CASE cons.rpos # cons.wpos
    <3>1. /\ cons' = [cons EXCEPT !.rpos = Wrap(cons.rpos + 1)]
          /\ unread' = IF unread = <<>> THEN unread ELSE Tail(unread)
      BY <2>1 DEF Grab
    <3>2. unread # <<>> /\ cons' \in Ring /\ Tail(unread) \in Seq(Char) /\ Holds(cons', Tail(unread))
      BY <1>2, <2>1, <3>1, RingTake
    <3>3. unread' = Tail(unread)
      BY <3>1, <3>2
    <3> QED
      BY <3>2, <3>3
  <2>2. CASE ~(cons.rpos # cons.wpos)
    <3>1. cons' = cons /\ unread' = unread
      BY <2>2 DEF Grab
    <3> QED
      BY <1>2, <3>1
  <2> QED
    BY <2>1, <2>2
<1>5. InOrder'
  BY <1>4, InOrderNext
<1>6. TypeInv'
  BY <1>1, <1>3, <1>4 DEF TypeInv
<1>7. DecodeInv'
  BY <1>1, <1>3 DEF DecodeInv
<1> QED
  BY <1>5, <1>6, <1>7 DEF ConsoleInv

\* The other steps leave the buffer and the keyboard alone.
LEMMA OthersKeep ==
  ASSUME ConsoleInv, UNCHANGED <<held, caps, kbd, shift, cons, rebooted, unread>>,
         serial' = serial \/ \E ch \in Char \cup {NO} : serial' = <<ch>>
  PROVE  ConsoleInv'
<1>1. TypeInv'
  BY DEF ConsoleInv, TypeInv
<1>2. DecodeInv'
  BY DEF ConsoleInv, DecodeInv
<1>3. InOrder'
  BY DEF ConsoleInv, InOrder, Waiting
<1> QED
  BY <1>1, <1>2, <1>3 DEF ConsoleInv

\* The machine starts with nothing typed.
LEMMA InitHolds ==
  ASSUME Init
  PROVE  ConsoleInv
<1>1. Slot # {} /\ 0 \in Slot
  BY SizeAssumption DEF Slot
<1>2. cons \in Ring /\ cons.rpos = 0 /\ cons.wpos = 0
  BY <1>1 DEF Init, Ring, Slot
<1>3. unread = <<>> /\ kbd = <<>> /\ serial = <<>> /\ held = {} /\ caps = FALSE /\ shift = {} /\ rebooted = FALSE
  BY DEF Init
<1>4. TypeInv
  <2>1. unread \in Seq(Char) /\ kbd \in Seq(KbdBytes)
    BY <1>3
  <2>2. shift \in Shift /\ held \in SUBSET Modifiers /\ caps \in BOOLEAN /\ rebooted \in BOOLEAN
    BY <1>3 DEF Shift
  <2> QED
    BY <1>2, <1>3, <2>1, <2>2 DEF TypeInv
<1>5. InOrder
  <2>1. Holds(cons, unread)
    BY <1>2, <1>3, SizeAssumption DEF Holds, Count
  <2> QED
    BY <1>4, <2>1, InOrderNow DEF TypeInv
<1>6. DecodeInv
  <2> DEFINE f == [j \in 0 .. 0 |-> {}]
  <2>1. {} \in Shift /\ Down(held, caps) = {} /\ Len(kbd) = 0
    BY <1>3 DEF Shift, Down
  <2>2. f \in [0 .. 0 -> Shift] /\ f[0] = {}
    BY <2>1
  <2> HIDE DEF f
  <2>3. Run(f, kbd, shift, Down(held, caps))
    BY <1>3, <2>1, <2>2 DEF Run
  <2> QED
    BY <2>1, <2>2, <2>3 DEF DecodeInv
<1> QED
  BY <1>4, <1>5, <1>6 DEF ConsoleInv

\* Every step keeps the invariant.
LEMMA StepKeeps ==
  ASSUME ConsoleInv, [Next]_vars
  PROVE  ConsoleInv'
<1>1. CASE UNCHANGED vars
  BY <1>1, OthersKeep DEF vars
<1>2. CASE SerialByte
  BY <1>2, SerialByteKeeps
<1>3. CASE SerialDone
  BY <1>3, OthersKeep DEF SerialDone
<1>4. CASE KbdByte
  BY <1>4, KbdByteKeeps
<1>5. CASE KbdDone
  BY <1>5, OthersKeep DEF KbdDone
<1>6. CASE Grab
  BY <1>6, GrabKeeps
<1>7. CASE \E k \in Key : Press(k) \/ Release(k)
  BY <1>7, PressKeeps, ReleaseKeeps
<1>8. CASE \E ch \in Serial : Receive(ch)
  <2>1. /\ \E ch \in Char \cup {NO} : serial' = <<ch>>
        /\ UNCHANGED <<held, caps, kbd, shift, cons, rebooted, unread>>
    BY <1>8, SerialAssumption DEF Receive
  <2> QED
    BY <2>1, OthersKeep
<1> QED
  BY <1>1, <1>2, <1>3, <1>4, <1>5, <1>6, <1>7, <1>8 DEF Next, Reset, cons_getc

-----------------------------------------------------------------------------
(* The theorems.                                                             *)

\* The inductive invariant: types, every waiting byte will be decoded by kbd_proc_data
\* as its key was meant, and the buffer holds what is unread.
THEOREM ConsoleInvariant == Spec => []ConsoleInv
<1>1. Init => ConsoleInv
  BY InitHolds
<1>2. ConsoleInv /\ [Next]_vars => ConsoleInv'
  BY StepKeeps
<1> QED
  BY <1>1, <1>2, PTL DEF Spec

\* InOrder for every buffer size, queue, set of keys and serial line: cons_getc returns
\* what was typed as it was meant and what the serial line sent, in order, and loses
\* input only when the whole buffer fills.
THEOREM InputInOrder == Spec => []InOrder
<1>1. ConsoleInv => InOrder
  BY DEF ConsoleInv
<1> QED
  BY <1>1, ConsoleInvariant, PTL

\* ModifiersTrack for the same constants: once every byte has been seen, the static shift
\* of kbd_proc_data says which modifiers are down.
THEOREM NoModifierSticks == Spec => []ModifiersTrack
<1>1. ConsoleInv => ModifiersTrack
  <2> SUFFICES ASSUME ConsoleInv, kbd = <<>> PROVE shift = Down(held, caps)
    BY DEF ModifiersTrack, Down
  <2>1. Len(kbd) = 0
    OBVIOUS
  <2>2. PICK f \in [0 .. Len(kbd) -> Shift] : Run(f, kbd, shift, Down(held, caps))
    BY DEF ConsoleInv, DecodeInv
  <2> QED
    BY <2>1, <2>2 DEF Run
<1> QED
  BY <1>1, ConsoleInvariant, PTL

\* RebootMeant for the same constants: kbd_proc_data resets the machine exactly when
\* Ctrl-Alt-Del was typed.
THEOREM RebootsWhenMeant == Spec => RebootMeant
<1> DEFINE Meant == Len(kbd') < Len(kbd) => rebooted' = Head(kbd).reboot
<1>1. ConsoleInv /\ [Next]_vars => [Meant]_vars
  <2> SUFFICES ASSUME ConsoleInv, Next, Len(kbd') < Len(kbd) PROVE rebooted' = Head(kbd).reboot
    OBVIOUS
  <2>1. Len(kbd) \in Nat /\ kbd \in Seq(KbdBytes)
    BY DEF ConsoleInv, TypeInv
  <2>2. kbd' # kbd
    BY <2>1
  <2>3. ASSUME NEW k \in Key, Press(k) \/ Release(k) PROVE FALSE
    <3>1. PICK more \in Seq(KbdBytes) : kbd' = kbd \o more
      <4>1. PICK up \in BOOLEAN, want \in Char \cup {NO}, reboot \in BOOLEAN : kbd' = kbd \o Bytes(k, up, want, reboot)
        <5>1. CASE Press(k)
          BY <5>1 DEF Press, Meaning, Char, NO, KEY_DEL
        <5>2. CASE Release(k)
          BY <5>2 DEF Release
        <5> QED
          BY <2>3, <5>1, <5>2
      <4>2. Keyboard[k] \in Code
        BY KeyAssumption, Tables
      <4>3. Byte(Keyboard[k], up, want, reboot) \in KbdBytes /\ Byte("E0", FALSE, NO, FALSE) \in KbdBytes
        BY <4>2 DEF Byte, KbdBytes, Code
      <4>4. \A b \in KbdBytes, e \in KbdBytes : <<e>> \o <<b>> \in Seq(KbdBytes) /\ <<>> \o <<b>> \in Seq(KbdBytes)
        OBVIOUS
      <4>5. Bytes(k, up, want, reboot) \in Seq(KbdBytes)
        <5>1. CASE k \in E0Keys
          BY <4>3, <4>4, <5>1 DEF Bytes
        <5>2. CASE k \notin E0Keys
          BY <4>3, <4>4, <5>2 DEF Bytes
        <5> QED
          BY <5>1, <5>2
      <4> QED
        BY <4>1, <4>5
    <3> QED
      BY <2>1, <3>1
  <2>4. KbdByte
    BY <2>2, <2>3 DEF Next, Reset, vars, cons_getc, SerialByte, SerialDone, KbdDone, Grab, Receive
  <2> QED
    BY <2>4, KbdByteKeeps
<1> QED
  BY <1>1, ConsoleInvariant, PTL DEF Spec, RebootMeant

-----------------------------------------------------------------------------
(* The display and the line editor, for every size of the screen and of the  *)
(* buffer and every set of characters.                                       *)

Screen == [buf : [Cell -> Glyph], pos : Cell]

\* The line does not begin above the window, and ends at the cursor.
LineInv ==
  mode = "readline" =>
    /\ Len(line) <= crt.pos
    /\ \A j \in 1 .. Len(line) : crt.buf[crt.pos - Len(line) + j - 1] = line[j]

EditInv == crt \in Screen /\ line \in Seq(Glyph) /\ Len(line) < BUFLEN /\ LineInv

\* A line leaves a row of the screen free.
LEMMA Window ==
  /\ CRT_COLS \in Nat \ {0} /\ CRT_SIZE \in Nat /\ CRT_COLS <= CRT_SIZE /\ Cell = 0 .. CRT_SIZE - 1
  /\ BUFLEN \in Nat \ {0} /\ BUFLEN - 1 <= CRT_SIZE - CRT_COLS
<1>1. /\ CRT_COLS \in Nat \ {0} /\ CRT_ROWS \in Nat \ {0}
      /\ BUFLEN \in Nat \ {0} /\ BUFLEN - 1 <= CRT_COLS * (CRT_ROWS - 1)
  BY ScreenAssumption, LineAssumption
<1>2. CRT_COLS * (CRT_ROWS - 1) = CRT_COLS * CRT_ROWS - CRT_COLS /\ CRT_COLS * CRT_ROWS \in Nat
      /\ CRT_COLS * (CRT_ROWS - 1) >= 0
  BY <1>1
<1> QED
  BY <1>1, <1>2 DEF CRT_SIZE, Cell

\* The characters that a record of a screen is made of.
LEMMA Parts ==
  ASSUME NEW s \in Screen
  PROVE  s.buf \in [Cell -> Glyph] /\ s.pos \in Cell /\ s.pos \in Nat /\ s.pos < CRT_SIZE
BY Window DEF Screen

\* A cursor up to a row past the end is brought back.
LEMMA ScrollScreen ==
  ASSUME NEW b \in [Cell -> Glyph], NEW p \in Nat, p < CRT_SIZE + CRT_COLS
  PROVE  Scroll([buf |-> b, pos |-> p]) \in Screen
<1> DEFINE new == [q \in Cell |-> IF q + CRT_COLS \in Cell THEN b[q + CRT_COLS] ELSE " "]
<1>1. new \in [Cell -> Glyph]
  BY GlyphAssumption
<1> HIDE DEF new
<1>2. CASE p < CRT_SIZE
  <2>1. p \in Cell
    BY <1>2, Window
  <2> QED
    BY <1>2, <2>1 DEF Scroll, Screen
<1>3. CASE ~(p < CRT_SIZE)
  <2>1. p - CRT_COLS \in Cell
    BY <1>3, Window
  <2>2. Scroll([buf |-> b, pos |-> p]) = [buf |-> new, pos |-> p - CRT_COLS]
    BY <1>3 DEF Scroll, new
  <2> QED
    BY <1>1, <2>1, <2>2 DEF Screen
<1> QED
  BY <1>2, <1>3

\* Inside the window nothing moves.
LEMMA ScrollStays ==
  ASSUME NEW s \in Screen
  PROVE  Scroll(s) = s
BY Parts DEF Scroll

\* Every character but the tab leaves a screen.
LEMMA PutCharScreen ==
  ASSUME NEW s \in Screen, NEW ch \in Glyph \cup {"\\b", "\\n", "\\r"}
  PROVE  PutChar(s, ch) \in Screen
<1> DEFINE p == s.pos
           b == s.buf
<1>1. p \in Nat /\ p < CRT_SIZE /\ b \in [Cell -> Glyph] /\ s = [buf |-> b, pos |-> p] /\ p \in Cell
  BY Parts DEF Screen
<1> HIDE DEF p, b
<1>2. CASE ch = "\\b"
  <2>1. PutChar(s, ch) = Scroll(Backspace(s))
    BY <1>2 DEF PutChar
  <2>2. CASE p > 0
    <3>1. Backspace(s) = [buf |-> [b EXCEPT ![p - 1] = " "], pos |-> p - 1]
      BY <1>1, <2>2 DEF Backspace
    <3>2. [b EXCEPT ![p - 1] = " "] \in [Cell -> Glyph]
      BY <1>1, GlyphAssumption
    <3>3. p - 1 \in Nat /\ p - 1 < CRT_SIZE + CRT_COLS
      BY <1>1, <2>2, Window
    <3> QED
      BY <2>1, <3>1, <3>2, <3>3, ScrollScreen
  <2>3. CASE ~(p > 0)
    BY <1>1, <2>1, <2>3, ScrollStays DEF Backspace
  <2> QED
    BY <2>2, <2>3
<1>3. CASE ch = "\\n"
  <2> DEFINE q == RowStart(p + CRT_COLS)
  <2>1. q \in Nat /\ q < CRT_SIZE + CRT_COLS
    <3>1. (p + CRT_COLS) % CRT_COLS \in 0 .. CRT_COLS - 1
      BY <1>1, Window
    <3> QED
      BY <1>1, <3>1, Window DEF RowStart
  <2>2. PutChar(s, ch) = Scroll([buf |-> b, pos |-> q])
    BY <1>1, <1>3 DEF PutChar
  <2> QED
    BY <1>1, <2>1, <2>2, ScrollScreen
<1>4. CASE ch = "\\r"
  <2> DEFINE q == RowStart(p)
  <2>1. q \in Nat /\ q < CRT_SIZE + CRT_COLS
    <3>1. p % CRT_COLS \in 0 .. CRT_COLS - 1 /\ p % CRT_COLS <= p
      BY <1>1, Window
    <3> QED
      BY <1>1, <3>1, Window DEF RowStart
  <2>2. PutChar(s, ch) = Scroll([buf |-> b, pos |-> q])
    BY <1>1, <1>4 DEF PutChar
  <2> QED
    BY <1>1, <2>1, <2>2, ScrollScreen
<1>5. CASE ch \notin {"\\b", "\\n", "\\r"}
  <2>1. PutChar(s, ch) = Scroll([buf |-> [b EXCEPT ![p] = ch], pos |-> p + 1])
    BY <1>1, <1>5 DEF PutChar
  <2>2. [b EXCEPT ![p] = ch] \in [Cell -> Glyph] /\ p + 1 \in Nat /\ p + 1 < CRT_SIZE + CRT_COLS
    BY <1>1, <1>5, Window
  <2> QED
    BY <2>1, <2>2, ScrollScreen
<1> QED
  BY <1>2, <1>3, <1>4, <1>5

\* And so does the tab.
LEMMA PutcScreen ==
  ASSUME NEW s \in Screen, NEW ch \in Glyph \cup Control
  PROVE  cga_putc(s, ch) \in Screen
<1> DEFINE Space(t) == PutChar(t, " ")
<1>1. ASSUME NEW t \in Screen PROVE Space(t) \in Screen
  BY PutCharScreen, GlyphAssumption
<1>2. CASE ch = "\\t"
  <2>1. cga_putc(s, ch) = Scroll(Space(Space(Space(Space(Space(s))))))
    BY <1>2 DEF cga_putc
  <2> HIDE DEF Space
  <2>2. Space(Space(Space(Space(Space(s))))) \in Screen
    BY <1>1
  <2> QED
    BY <2>1, <2>2, ScrollStays
<1>3. CASE ch # "\\t"
  BY <1>3, PutCharScreen DEF cga_putc, Control
<1> QED
  BY <1>2, <1>3

\* A character is shown behind the line, which scrolls with the window.
LEMMA InsertKeeps ==
  ASSUME EditInv, NEW ch, Insert(ch)
  PROVE  EditInv'
<1> DEFINE p == crt.pos
           b == crt.buf
           n == Len(line)
           new == [b EXCEPT ![p] = ch]
<1>1. /\ p \in Nat /\ p < CRT_SIZE /\ p \in Cell /\ b \in [Cell -> Glyph] /\ crt = [buf |-> b, pos |-> p]
      /\ crt \in Screen
  BY Parts DEF EditInv, Screen
<1>2. /\ mode = "readline" /\ mode' = "readline" /\ ch \in Glyph /\ n < BUFLEN - 1 /\ line' = Append(line, ch)
      /\ line \in Seq(Glyph) /\ n \in Nat /\ n <= p /\ \A j \in 1 .. n : b[p - n + j - 1] = line[j]
  BY DEF Insert, Fits, EditInv, LineInv
<1>3. crt' = Scroll([buf |-> new, pos |-> p + 1])
  <2>1. crt' = cga_putc(crt, ch) /\ ch \notin {"\\b", "\\n", "\\r", "\\t"}
    BY <1>2, GlyphAssumption DEF Insert, cputchar, Control
  <2>2. crt' = PutChar(crt, ch)
    BY <2>1 DEF cga_putc
  <2> QED
    BY ONLY <2>1, <2>2, ZenonT(30) DEF PutChar
<1>4. crt' \in Screen
  BY <1>1, <1>2, PutcScreen DEF Insert, cputchar
<1>5. line' \in Seq(Glyph) /\ Len(line') = n + 1 /\ Len(line') < BUFLEN
      /\ \A j \in 1 .. n + 1 : line'[j] = IF j = n + 1 THEN ch ELSE line[j]
  BY <1>2, Window
<1>6. new \in [Cell -> Glyph] /\ \A q \in Cell : new[q] = IF q = p THEN ch ELSE b[q]
  BY <1>1, <1>2
<1>7. \A j \in 1 .. n + 1 : new[p - n + j - 1] = line'[j] /\ p - n + j - 1 \in Cell
  <2> SUFFICES ASSUME NEW j \in 1 .. n + 1 PROVE new[p - n + j - 1] = line'[j] /\ p - n + j - 1 \in Cell
    OBVIOUS
  <2>1. p - n + j - 1 \in Cell
    BY <1>1, <1>2, Window
  <2>2. CASE j = n + 1
    BY <1>1, <1>2, <1>5, <1>6, <2>1, <2>2
  <2>3. CASE j # n + 1
    <3>1. j \in 1 .. n /\ p - n + j - 1 # p
      BY <1>1, <1>2, <2>3
    <3> QED
      BY <1>2, <1>5, <1>6, <2>1, <2>3, <3>1
  <2> QED
    BY <2>1, <2>2, <2>3
<1> HIDE DEF new, p, b, n
<1>8. n + 1 <= crt'.pos /\ \A j \in 1 .. n + 1 : crt'.buf[crt'.pos - (n + 1) + j - 1] = line'[j]
  <2>1. CASE p + 1 < CRT_SIZE
    <3>1. crt'.buf = new /\ crt'.pos = p + 1
      BY <1>3, <2>1 DEF Scroll
    <3>2. \A j \in 1 .. n + 1 : (p + 1) - (n + 1) + j - 1 = p - n + j - 1
      BY <1>1, <1>2
    <3>3. n + 1 <= p + 1
      BY <1>1, <1>2
    <3> QED
      BY ONLY <1>7, <3>1, <3>2, <3>3
  <2>2. CASE ~(p + 1 < CRT_SIZE)
    <3> DEFINE w == [q \in Cell |-> IF q + CRT_COLS \in Cell THEN new[q + CRT_COLS] ELSE " "]
    <3>1. crt'.buf = w /\ crt'.pos = p + 1 - CRT_COLS
      <4> DEFINE t == [buf |-> new, pos |-> p + 1]
      <4>1. t.pos = p + 1 /\ t.buf = new
        OBVIOUS
      <4> HIDE DEF t
      <4> DEFINE u == [q \in Cell |-> IF q + CRT_COLS \in Cell THEN t.buf[q + CRT_COLS] ELSE " "]
      <4>2. Scroll(t) = [buf |-> u, pos |-> t.pos - CRT_COLS]
        BY <2>2, <4>1 DEF Scroll
      <4>3. u = w
        BY <4>1, Zenon
      <4>4. crt' = Scroll(t)
        BY <1>3 DEF t
      <4> HIDE DEF u, w, t
      <4> QED
        BY <1>1, <4>1, <4>2, <4>3, <4>4, Window
    <3>2. p + 1 = CRT_SIZE /\ n + 1 <= p + 1 - CRT_COLS
      BY <1>1, <1>2, <2>2, Window
    <3>3. ASSUME NEW j \in 1 .. n + 1
          PROVE  LET q == (p + 1 - CRT_COLS) - (n + 1) + j - 1
                 IN  q \in Cell /\ q + CRT_COLS = p - n + j - 1
      BY <1>1, <1>2, <3>2, Window
    <3>4. ASSUME NEW q \in Cell, q + CRT_COLS \in Cell PROVE w[q] = new[q + CRT_COLS]
      BY <3>4
    <3> HIDE DEF w
    <3>5. \A j \in 1 .. n + 1 : w[(p + 1 - CRT_COLS) - (n + 1) + j - 1] = line'[j]
      BY ONLY <1>7, <3>3, <3>4
    <3> QED
      BY ONLY <3>1, <3>2, <3>5
  <2> QED
    BY <2>1, <2>2
<1> QED
  BY <1>4, <1>5, <1>8 DEF EditInv, LineInv

\* A character is taken off the screen and off the line.
LEMMA EraseKeeps ==
  ASSUME EditInv, NEW ch, Erase(ch)
  PROVE  EditInv'
<1> DEFINE p == crt.pos
           b == crt.buf
           n == Len(line)
           new == [b EXCEPT ![p - 1] = " "]
<1>1. /\ p \in Nat /\ p < CRT_SIZE /\ p \in Cell /\ b \in [Cell -> Glyph] /\ crt = [buf |-> b, pos |-> p]
      /\ crt \in Screen
  BY Parts DEF EditInv, Screen
<1>2. /\ mode = "readline" /\ mode' = "readline" /\ line # <<>> /\ line' = SubSeq(line, 1, n - 1)
      /\ line \in Seq(Glyph) /\ n \in Nat /\ n < BUFLEN /\ n <= p /\ \A j \in 1 .. n : b[p - n + j - 1] = line[j]
  BY DEF Erase, Erases, EditInv, LineInv
<1>3. n > 0
  BY <1>2
<1>4. line' \in Seq(Glyph) /\ Len(line') = n - 1 /\ \A j \in 1 .. n - 1 : line'[j] = line[j]
  <2>1. 1 \in Int /\ n - 1 \in Nat /\ (n - 1) - 1 + 1 = n - 1 /\ 1 .. n - 1 \subseteq 1 .. n
    BY <1>2, <1>3
  <2> DEFINE t == SubSeq(line, 1, n - 1)
  <2>2. t \in Seq(Glyph) /\ Len(t) = n - 1 /\ \A j \in 1 .. n - 1 : t[j] = line[j]
    BY <1>2, <2>1
  <2> HIDE DEF t
  <2> QED
    BY <1>2, <2>2 DEF t
<1>5. p - 1 \in Nat /\ p - 1 < CRT_SIZE /\ p > 0
  <2> HIDE DEF p, n
  <2> QED
    BY <1>1, <1>2, <1>3, Window
<1>6. crt' = [buf |-> new, pos |-> p - 1]
  <2>1. Backspace(crt) = [buf |-> new, pos |-> p - 1]
    BY <1>5 DEF Backspace
  <2>2. crt' = Scroll(Backspace(crt))
    <3>1. crt' = PutChar(crt, "\\b")
      BY DEF Erase, cputchar, cga_putc
    <3> QED
      BY ONLY <3>1, ZenonT(30) DEF PutChar
  <2> DEFINE t == [buf |-> new, pos |-> p - 1]
  <2>3. t.pos = p - 1
    OBVIOUS
  <2> HIDE DEF t
  <2>4. Scroll(t) = t
    BY <1>5, <2>3 DEF Scroll
  <2> QED
    BY <2>1, <2>2, <2>4 DEF t
<1>7. crt' \in Screen
  BY <1>1, PutcScreen DEF Erase, cputchar, Control
<1>8. \A j \in 1 .. n - 1 : new[(p - 1) - (n - 1) + j - 1] = line'[j]
  <2> SUFFICES ASSUME NEW j \in 1 .. n - 1 PROVE new[(p - 1) - (n - 1) + j - 1] = line'[j]
    OBVIOUS
  <2>1. (p - 1) - (n - 1) + j - 1 = p - n + j - 1 /\ p - n + j - 1 \in Cell /\ p - n + j - 1 # p - 1 /\ j \in 1 .. n
    BY <1>1, <1>2, <1>3, Window
  <2>2. new[p - n + j - 1] = b[p - n + j - 1]
    BY <1>1, <2>1
  <2> QED
    BY <1>2, <1>4, <2>1, <2>2
<1> HIDE DEF p, b, n, new
<1>9. crt'.pos = p - 1 /\ crt'.buf = new
  BY <1>6
<1>10. n - 1 <= p - 1 /\ n - 1 < BUFLEN
  BY <1>1, <1>2, <1>3, Window
<1> QED
  BY <1>2, <1>4, <1>7, <1>8, <1>9, <1>10 DEF EditInv, LineInv

LEMMA EditStep ==
  ASSUME EditInv, [EditNext]_editVars
  PROVE  EditInv'
<1>1. crt \in Screen /\ line \in Seq(Glyph) /\ Len(line) < BUFLEN
  BY DEF EditInv
<1>2. \A ch \in Glyph \cup Control : cga_putc(crt, ch) \in Screen
  BY <1>1, PutcScreen
<1>3. 0 < BUFLEN /\ Len(<<>>) = 0 /\ <<>> \in Seq(Glyph)
  BY Window
<1>4. CASE Start
  <2>1. Len(line') = 0 /\ line' \in Seq(Glyph) /\ crt' = crt
    BY <1>3, <1>4 DEF Start
  <2>2. 0 <= crt.pos
    BY <1>1, Parts
  <2> QED
    BY <1>1, <1>3, <2>1, <2>2 DEF EditInv, LineInv
<1>5. ASSUME NEW ch \in Glyph \cup Control, MonitorOutput(ch) PROVE EditInv'
  BY <1>1, <1>2, <1>5 DEF MonitorOutput, cputchar, EditInv, LineInv
<1>6. ASSUME NEW ch \in Glyph \cup Control, readline(ch) PROVE EditInv'
  <2>1. CASE Finish(ch)
    BY <1>1, <1>2, <2>1 DEF Finish, cputchar, EditInv, LineInv, Control
  <2> QED
    BY <1>6, <2>1, EraseKeeps, InsertKeeps DEF readline
<1>7. CASE RunLine
  BY <1>1, <1>7 DEF RunLine, EditInv, LineInv
<1>8. CASE Again
  BY <1>1, <1>3, <1>8 DEF Again, EditInv, LineInv
<1>9. CASE UNCHANGED editVars
  BY <1>9 DEF editVars, EditInv, LineInv
<1> QED
  BY <1>4, <1>5, <1>6, <1>7, <1>8, <1>9 DEF EditNext, Edits

\* The display and the line: ScreenShowsLine holds for every size of the screen and of
\* readline's buffer, as long as a full line leaves a row of the screen free.
THEOREM ScreenShowsTheLine == EditSpec => []ScreenShowsLine
<1>1. EditInit => EditInv
  <2>1. 0 < BUFLEN
    BY Window
  <2> QED
    BY <2>1 DEF EditInit, EditInv, LineInv, Screen
<1>2. EditInv /\ [EditNext]_editVars => EditInv'
  BY EditStep
<1>3. EditInv => ScreenShowsLine
  BY DEF EditInv, LineInv, Screen, ScreenShowsLine
<1> QED
  BY <1>1, <1>2, <1>3, PTL DEF EditSpec
=============================================================================
