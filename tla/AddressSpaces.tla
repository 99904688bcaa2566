--------------------------- MODULE AddressSpaces ---------------------------
(***************************************************************************)
(* What kern/pmap.c promises its callers, with no page tables, reference   *)
(* counts or TLB: every environment has a map from virtual addresses to    *)
(* frames of memory.  A frame that enters a map is zero-filled unless it   *)
(* was shared from another entry, a store reaches exactly the entries that *)
(* share the frame, and no other step changes what a mapped frame holds.   *)
(***************************************************************************)
EXTENDS Integers

CONSTANTS
  Env,      \* environments
  VA,       \* user virtual page addresses
  Frame,    \* frames of memory; 0 is not one of them
  Idx,      \* the words of a frame
  Word,     \* the contents of a word
  Zero      \* a cleared word

VARIABLES
  space,    \* space[e][va]: the frame mapped there and its PTE_W bit
  data      \* data[f]: the contents of f, cleared while f is not mapped

spaceVars == <<space, data>>

NoEntry == [pp |-> 0, w |-> FALSE]
Entry == [pp : Frame \cup {0}, w : BOOLEAN]
ZeroFrame == [i \in Idx |-> Zero]

Mapped(f) == \E e \in Env, va \in VA : space[e][va].pp = f

SpaceInit == /\ space = [e \in Env |-> [va \in VA |-> NoEntry]]
             /\ data = [f \in Frame |-> ZeroFrame]

\* Frames keep their contents while some entry maps them.
KeepData == data' = [f \in Frame |-> IF Mapped(f)' /\ Mapped(f) THEN data[f] ELSE ZeroFrame]

MapFresh(e, va, f) ==
  /\ ~Mapped(f)
  /\ space' = [space EXCEPT ![e][va] = [pp |-> f, w |-> TRUE]]
  /\ KeepData

\* Another mapping of a frame, never writable when the source entry is not.
Share(s, sv, e, dv, w) ==
  /\ space[s][sv].pp # 0
  /\ w => space[s][sv].w
  /\ space' = [space EXCEPT ![e][dv] = [pp |-> space[s][sv].pp, w |-> w]]
  /\ KeepData

Unmap(e, va) ==
  /\ space' = [space EXCEPT ![e][va] = NoEntry]
  /\ KeepData

Write(e, va, i, word) ==
  /\ space[e][va].w
  /\ data' = [data EXCEPT ![space[e][va].pp][i] = word]
  /\ UNCHANGED space

\* The first disjunct is all that goes on behind the maps.
SpaceNext ==
  \/ UNCHANGED spaceVars
  \/ \E e \in Env, va \in VA :
       \/ \E f \in Frame : MapFresh(e, va, f)
       \/ \E s \in Env, sv \in VA, w \in BOOLEAN : Share(s, sv, e, va, w)
       \/ Unmap(e, va)
       \/ \E i \in Idx, word \in Word : Write(e, va, i, word)

SpaceSpec == SpaceInit /\ [][SpaceNext]_spaceVars
=============================================================================
