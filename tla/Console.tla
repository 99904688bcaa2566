------------------------------ MODULE Console ------------------------------
(***************************************************************************)
(* Console input: the keyboard decoder and the ring buffer of              *)
(* kern/console.c.  Nothing but cons_getc reads the devices: trap_dispatch *)
(* routes neither their interrupts, and both may deliver more while the    *)
(* loops of cons_intr are emptying them.                                   *)
(*                                                                         *)
(* The two devices are external.  The keyboard sends one byte when a key   *)
(* goes down and one when it goes up, after an E0 byte for some keys.      *)
(***************************************************************************)
EXTENDS Integers, Sequences

CONSTANTS
  CONSBUFSIZE,  \* cells of cons.buf
  Key,          \* the keys that are used
  Serial,       \* the characters that the serial line delivers, 0 may be one
  MaxPending    \* bound: bytes that the keyboard controller holds

\* Keys by name, with the scan code they share with others, and those after an E0.
Keyboard == [letter |-> "letter", lshift |-> "lshift", rshift |-> "rshift",
             lctrl |-> "ctrl", rctrl |-> "ctrl", lalt |-> "alt", ralt |-> "alt",
             caps |-> "caps", point |-> "point", del |-> "point"]
E0Keys == {"rctrl", "ralt", "del"}

\* The modifier bit for a scan code, with or without E0, in shiftcode[].
Bit == [lshift |-> "SHIFT", rshift |-> "SHIFT", ctrl |-> "CTL", alt |-> "ALT"]
Modifier(k) == Keyboard[k] \in DOMAIN Bit

KEY_DEL == "KEY_DEL"
Char == {"a", "A", "^A", ".", KEY_DEL}
NO == "NO"

ASSUME SizeAssumption == CONSBUFSIZE \in Nat \ {0} /\ MaxPending \in Nat
ASSUME SerialAssumption == Serial \subseteq Char \cup {NO}
\* Two keys for one modifier share its bit: letting one go releases both.
ASSUME KeyAssumption ==
  /\ Key \subseteq DOMAIN Keyboard
  /\ \A j, k \in Key : Modifier(j) /\ Modifier(k) /\ Bit[Keyboard[j]] = Bit[Keyboard[k]] => j = k

VARIABLES
  held,     \* the modifiers whose key is down
  caps,     \* whether caps lock is on, as the typist counts
  kbd,      \* the bytes waiting in the keyboard controller
  serial,   \* the characters waiting in the serial port: at most one
  shift,    \* the static of kbd_proc_data
  cons,     \* the ring buffer
  pc,       \* where cons_getc is
  rebooted, \* Ctrl-Alt-Del has been obeyed
  unread    \* history: what was typed and sent and has not been read

vars == <<held, caps, kbd, serial, shift, cons, pc, rebooted, unread>>

Init ==
  /\ held = {} /\ caps = FALSE /\ kbd = <<>> /\ serial = <<>>
  /\ shift = {}
  /\ cons = [buf |-> [i \in 0 .. CONSBUFSIZE - 1 |-> NO], rpos |-> 0, wpos |-> 0]
  /\ pc = "serial" /\ rebooted = FALSE /\ unread = <<>>

-----------------------------------------------------------------------------
(* The devices.                                                              *)

\* What the typist means by pressing k with the modifiers in down held.
Meaning(k, down, locked) ==
  CASE k = "letter" -> IF "CTL" \in down THEN "^A"
                       ELSE IF ("SHIFT" \in down) # locked THEN "A" ELSE "a"
    [] k = "point"  -> IF "CTL" \in down THEN NO ELSE "."
    [] k = "del"    -> KEY_DEL
    [] OTHER        -> NO

\* The bytes for key k; want and reboot, history, say what the typist wants of each.
Byte(code, up, want, reboot) == [code |-> code, up |-> up, want |-> want, reboot |-> reboot]
Bytes(k, up, want, reboot) ==
  (IF k \in E0Keys THEN <<Byte("E0", FALSE, NO, FALSE)>> ELSE <<>>)
    \o <<Byte(Keyboard[k], up, want, reboot)>>

Press(k) ==
  LET down == IF Modifier(k) THEN held \cup {Bit[Keyboard[k]]} ELSE held
      locked == IF k = "caps" THEN ~caps ELSE caps
  IN  /\ held' = down /\ caps' = locked
      /\ kbd' = kbd \o Bytes(k, FALSE, Meaning(k, down, locked), k = "del" /\ {"CTL", "ALT"} \subseteq down)
      /\ Len(kbd') <= MaxPending
      /\ UNCHANGED <<serial, shift, cons, pc, rebooted, unread>>

Release(k) ==
  /\ Modifier(k) => Bit[Keyboard[k]] \in held
  /\ held' = IF Modifier(k) THEN held \ {Bit[Keyboard[k]]} ELSE held
  /\ kbd' = kbd \o Bytes(k, TRUE, NO, FALSE)
  /\ Len(kbd') <= MaxPending
  /\ UNCHANGED <<caps, serial, shift, cons, pc, rebooted, unread>>

\* The FIFO is off: a character that comes too early never came.
Receive(c) ==
  /\ serial = <<>> /\ serial' = <<c>>
  /\ UNCHANGED <<held, caps, kbd, shift, cons, pc, rebooted, unread>>

-----------------------------------------------------------------------------
(* kbd_proc_data: the new shift and the character for one byte.              *)

\* Indices of the tables: a scan code, and whether 0x80 was or'ed into it.
shiftcode(e0, code) ==
  IF code \in DOMAIN Bit /\ (e0 => code \in {"ctrl", "alt"}) THEN {Bit[code]} ELSE {}
togglecode(e0, code) == IF ~e0 /\ code = "caps" THEN {"CAPSLOCK"} ELSE {}

charcode(sh, e0, code) ==
  CASE code = "letter" /\ ~e0 -> IF "CTL" \in sh THEN "^A" ELSE IF "SHIFT" \in sh THEN "A" ELSE "a"
    [] code = "point" /\ ~e0  -> IF "CTL" \in sh THEN NO ELSE "."
    [] code = "point" /\ e0   -> KEY_DEL
    [] OTHER                  -> NO

CapsLocked(sh, c) ==
  IF "CAPSLOCK" \notin sh THEN c
  ELSE CASE c = "a" -> "A" [] c = "A" -> "a" [] OTHER -> c

Released_KeepE0(sh, code) == sh \ shiftcode("E0ESC" \in sh, code)
Released(sh, code) == sh \ (shiftcode("E0ESC" \in sh, code) \cup {"E0ESC"})

Pressed(sh, code) ==
  LET e0 == "E0ESC" \in sh
      on == (sh \ {"E0ESC"}) \cup shiftcode(e0, code)
      toggle == togglecode(e0, code)
  IN  (on \ toggle) \cup (toggle \ on)

kbd_proc_data(sh, byte) ==
  IF byte.code = "E0" THEN [shift |-> sh \cup {"E0ESC"}, c |-> NO]
  ELSE IF byte.up THEN [shift |-> Released(sh, byte.code), c |-> NO]
  ELSE LET new == Pressed(sh, byte.code)
       IN  [shift |-> new, c |-> CapsLocked(new, charcode(new, "E0ESC" \in sh, byte.code))]

Reboots_CtlOrAlt(new) == {"CTL", "ALT"} \cap new.shift # {} /\ new.c = KEY_DEL
Reboots(new) == {"CTL", "ALT"} \subseteq new.shift /\ new.c = KEY_DEL

-----------------------------------------------------------------------------
(* The ring buffer.                                                          *)

Wrap_Late(pos) == IF pos = CONSBUFSIZE + 1 THEN 0 ELSE pos
Wrap(pos) == IF pos = CONSBUFSIZE THEN 0 ELSE pos

\* The body of cons_intr's loop, for the character c where want was meant.  A buffer
\* that fills up is empty.
Put(c, want) ==
  /\ cons' = IF c = NO THEN cons
             ELSE [cons EXCEPT !.buf[cons.wpos] = c, !.wpos = Wrap(cons.wpos + 1)]
  /\ LET all == IF want = NO THEN unread ELSE Append(unread, want)
     IN  unread' = IF Len(all) = CONSBUFSIZE THEN <<>> ELSE all

\* cons_getc: serial_intr, kbd_intr, then the next character.
SerialByte ==
  /\ pc = "serial" /\ serial # <<>>
  /\ serial' = <<>>
  /\ Put(Head(serial), Head(serial))
  /\ UNCHANGED <<held, caps, kbd, shift, pc, rebooted>>

SerialDone ==
  /\ pc = "serial" /\ serial = <<>>
  /\ pc' = "kbd"
  /\ UNCHANGED <<held, caps, kbd, serial, shift, cons, rebooted, unread>>

KbdByte ==
  LET new == kbd_proc_data(shift, Head(kbd))
  IN  /\ pc = "kbd" /\ kbd # <<>>
      /\ kbd' = Tail(kbd)
      /\ shift' = new.shift
      /\ rebooted' = Reboots(new)
      /\ Put(new.c, Head(kbd).want)
      /\ UNCHANGED <<held, caps, serial, pc>>

KbdDone ==
  /\ pc = "kbd" /\ kbd = <<>>
  /\ pc' = "grab"
  /\ UNCHANGED <<held, caps, kbd, serial, shift, cons, rebooted, unread>>

Grab ==
  /\ pc = "grab" /\ pc' = "serial"
  /\ IF cons.rpos # cons.wpos
     THEN /\ cons' = [cons EXCEPT !.rpos = Wrap(cons.rpos + 1)]
          /\ unread' = IF unread = <<>> THEN unread ELSE Tail(unread)
     ELSE UNCHANGED <<cons, unread>>
  /\ UNCHANGED <<held, caps, kbd, serial, shift, rebooted>>

cons_getc == SerialByte \/ SerialDone \/ KbdByte \/ KbdDone \/ Grab

\* The machine has been reset.
Reset == rebooted /\ UNCHANGED vars

Next ==
  \/ ~rebooted /\ (cons_getc \/ (\E k \in Key : Press(k) \/ Release(k)) \/ \E c \in Serial : Receive(c))
  \/ Reset

Spec == Init /\ [][Next]_vars

-----------------------------------------------------------------------------
(* Properties.                                                               *)

\* The characters cons_getc would return one after the other.
Waiting ==
  LET n == (cons.wpos + CONSBUFSIZE - cons.rpos) % CONSBUFSIZE
  IN  [i \in 1 .. n |-> cons.buf[(cons.rpos + i - 1) % CONSBUFSIZE]]

\* What cons_getc returns is what was typed, decoded with the modifiers that were down
\* when it was typed and not when it is read, together with what the serial line sent,
\* in the order of arrival in the buffer.  Input is lost only a whole buffer at a time.
InOrder == Waiting = unread

\* When every byte has been seen, the decoder knows which modifiers are down and
\* whether caps lock is on: none sticks, and no E0 is left over for the next key.
ModifiersTrack ==
  kbd = <<>> => shift = held \cup (IF caps THEN {"CAPSLOCK"} ELSE {})

\* The machine is rebooted exactly when Ctrl-Alt-Del was typed.
RebootMeant == [][Len(kbd') < Len(kbd) => rebooted' = Head(kbd).reboot]_vars
=============================================================================
