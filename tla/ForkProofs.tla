----------------------------- MODULE ForkProofs -----------------------------
(***************************************************************************)
(* Copy-on-write fork keeps memory private, for every number of            *)
(* environments, frames, pages and values: as long as sys_page_alloc maps  *)
(* pages that nobody uses.  That faults are handled holds even after it    *)
(* has mapped one in use, so the control state has an invariant of its own.*)
(***************************************************************************)
EXTENDS Fork, TLAPS

Entry == [frame : 0 .. NFrames, w : BOOLEAN, cow : BOOLEAN]

LoopPc == {"read", "map1", "map2"}
ForkPc == LoopPc \cup {"xstack", "upcall", "status"}
Pc == {"free", "child", "user", "handler", "exofork"} \cup ForkPc
At == {"none", "check", "alloc", "copy", "map"}

\* The pages that a program, or its handler's stack, uses.
Own == 1 .. Stack + 1

\* The loop variable.
Addr == {0} \cup VA

\* Types of the mappings and of the control state, and of the rest.
ControlTypes ==
  /\ pt \in [Env -> [Page -> Entry]]
  /\ pc \in [Env -> Pc]
  /\ fault \in [Env -> [va : Page, at : At]]
  /\ child \in [Env -> Env \cup {NoEnv}]
  /\ addr \in [Env -> Addr]
  /\ upcall \in [Env -> BOOLEAN]
TypeInv ==
  /\ ControlTypes
  /\ data \in [Frame -> Value]
  /\ pte \in [Env -> SUBSET {"W", "COW"}]
  /\ view \in [Env -> [VA -> Value]]

\* Who is forking, whom, and which page: a child has one parent and does not run.
ChildInv ==
  /\ \A e \in Env : pc[e] \in ForkPc <=> child[e] # NoEnv
  /\ \A e \in Env : child[e] # NoEnv => pc[child[e]] = "child"
  /\ \A e, f \in Env : child[e] # NoEnv /\ child[e] = child[f] => e = f
  /\ \A e \in Env : pc[e] \in LoopPc <=> addr[e] # 0

\* A page fault is one of a running environment; fork itself faults on its stack only.
FaultInv == \A e \in Env :
  fault[e].at # "none" =>
    Running(e) /\ fault[e].va \in VA /\ (pc[e] # "user" => fault[e].va = Stack)

\* The exception stack is there before the upcall, and both before the first page becomes
\* copy-on-write.
UpcallInv ==
  /\ \A e \in Env : upcall[e] \/ pc[e] \in ForkPc \cup {"handler", "exofork"} => pt[e][XSTACK].frame # 0
  /\ \A e \in Env : pc[e] \in ForkPc \cup {"exofork"} => upcall[e]
  /\ \A e \in Env : pc[e] \in {"upcall", "status"} => pt[child[e]][XSTACK].frame # 0
  /\ \A e \in Env : pc[e] = "status" => upcall[child[e]]
  /\ FaultsHandled

\* An empty entry grants nothing, a free slot has no pages, and a child has none that
\* fork's loop has not come to.
EmptyInv ==
  /\ \A e \in Env, va \in Page : pt[e][va].frame = 0 => ~pt[e][va].w /\ ~pt[e][va].cow
  /\ \A e \in Env, va \in Page : pc[e] = "free" => pt[e][va].frame = 0
  /\ \A e \in Env, va \in VA :
       pc[e] \in LoopPc /\ (va > addr[e] \/ (va = addr[e] /\ pc[e] # "map2")) =>
         pt[child[e]][va].frame = 0

\* What duppage read still says whether the page has to become copy-on-write, and the
\* child has the parent's frame between the two system calls.
DupInv ==
  /\ \A e \in Env : pc[e] = "map1" /\ (pt[e][addr[e]].w \/ pt[e][addr[e]].cow) => pte[e] # {}
  /\ \A e \in Env : pc[e] = "map2" /\ addr[e] # Stack =>
       pt[child[e]][addr[e]].frame = pt[e][addr[e]].frame
  /\ \A e \in Env : pc[e] = "map2" => pt[child[e]][addr[e]].frame # 0

\* The page that pgfault copies is copy-on-write, and nobody else has the frame of the copy.
CopyInv ==
  /\ \A e \in Env : fault[e].at \in {"alloc", "copy", "map"} => pt[e][fault[e].va].cow
  /\ \A e \in Env : fault[e].at \in {"copy", "map"} =>
       /\ pt[e][PFTEMP].frame # 0
       /\ \A f \in Env, vb \in Page :
            pt[f][vb].frame = pt[e][PFTEMP].frame => f = e /\ vb = PFTEMP

\* The copy is what the faulting environment should see.
CopiedInv == \A e \in Env : fault[e].at = "map" => data[pt[e][PFTEMP].frame] = view[e][fault[e].va]

\* A page that can be written is mapped there only, but for duppage between its two
\* system calls and for what pgfault has left at PFTEMP.
PrivateInv == \A e, f \in Env, va \in Own, vb \in Page :
  pt[e][va].w /\ pt[e][va].frame = pt[f][vb].frame /\ <<e, va>> # <<f, vb>> =>
    \/ child[e] = f /\ va = vb /\ addr[e] = va /\ pc[e] = "map2"
    \/ f = e /\ vb = PFTEMP

\* What holds whatever sys_page_alloc maps, and what holds while no page in use was mapped.
ControlInv == ControlTypes /\ ChildInv /\ FaultInv /\ UpcallInv
MapInv == TypeInv /\ EmptyInv /\ DupInv /\ CopyInv /\ PrivateInv
ForkInv == MapInv /\ CopiedInv /\ ForkCopies
Inv == ControlInv /\ (~stray => ForkInv)

-----------------------------------------------------------------------------
(* How the state changes, entry by entry.                                    *)

\* One entry of one environment is replaced.
LEMMA EntryUpdate ==
  ASSUME pt \in [Env -> [Page -> Entry]], NEW e \in Env, NEW va \in Page, NEW n \in Entry
  PROVE  LET p == [pt EXCEPT ![e][va] = n]
         IN  /\ p \in [Env -> [Page -> Entry]]
             /\ \A f \in Env, vb \in Page : p[f][vb] = IF f = e /\ vb = va THEN n ELSE pt[f][vb]
<1> DEFINE g == [pt[e] EXCEPT ![va] = n]
<1>1. g \in [Page -> Entry] /\ \A vb \in Page : g[vb] = IF vb = va THEN n ELSE pt[e][vb]
  OBVIOUS
<1>2. [pt EXCEPT ![e][va] = n] = [pt EXCEPT ![e] = g]
  OBVIOUS
<1> HIDE DEF g
<1> QED
  BY <1>1, <1>2

\* Remap keeps the contents of the frames that are mapped.
LEMMA RemapData ==
  ASSUME NEW p \in [Env -> [Page -> Entry]], NEW d \in [Frame -> Value], Remap(p, d)
  PROVE  /\ pt' = p /\ data' \in [Frame -> Value]
         /\ \A f \in Env, vb \in Page :
              p[f][vb].frame # 0 => p[f][vb].frame \in Frame /\ data'[p[f][vb].frame] = d[p[f][vb].frame]
<1>1. pt' = p /\ data' = [f \in Frame |-> IF f \in Used(p) THEN d[f] ELSE 0]
  BY DEF Remap
<1>2. data' \in [Frame -> Value]
  BY <1>1, ValueAssumption
<1>3. ASSUME NEW f \in Env, NEW vb \in Page, p[f][vb].frame # 0
      PROVE  p[f][vb].frame \in Frame /\ data'[p[f][vb].frame] = d[p[f][vb].frame]
  <2>1. p[f][vb].frame \in 0 .. NFrames
    BY DEF Entry
  <2>2. p[f][vb].frame \in Frame /\ p[f][vb].frame \in Used(p)
    BY <1>3, <2>1, SizeAssumption DEF Frame, Used
  <2> QED
    BY <1>1, <2>2
<1> QED
  BY <1>1, <1>2, <1>3

\* sys_page_map: one entry gets the frame of another; contents stay.
LEMMA MapEffect ==
  ASSUME TypeInv, NEW s \in Env, NEW sv \in Page, NEW e \in Env, NEW va \in Page,
         NEW w \in BOOLEAN, NEW cow \in BOOLEAN, sys_page_map(s, sv, e, va, w, cow)
  PROVE  LET n == [frame |-> pt[s][sv].frame, w |-> w, cow |-> cow]
         IN  /\ pt[s][sv].frame # 0 /\ n \in Entry /\ n.frame = pt[s][sv].frame /\ n.w = w /\ n.cow = cow
             /\ pt' \in [Env -> [Page -> Entry]] /\ data' \in [Frame -> Value]
             /\ \A f \in Env, vb \in Page : pt'[f][vb] = IF f = e /\ vb = va THEN n ELSE pt[f][vb]
             /\ \A f \in Env, vb \in Page :
                  pt'[f][vb].frame # 0 => data'[pt'[f][vb].frame] = data[pt'[f][vb].frame]
<1> DEFINE n == [frame |-> pt[s][sv].frame, w |-> w, cow |-> cow]
           p == [pt EXCEPT ![e][va] = n]
<1>1. pt[s][sv].frame # 0 /\ Remap(p, data)
  BY DEF sys_page_map
<1>2. n \in Entry /\ n.frame = pt[s][sv].frame /\ n.w = w /\ n.cow = cow
  BY DEF TypeInv, ControlTypes, Entry
<1> HIDE DEF n
<1>3. /\ p \in [Env -> [Page -> Entry]]
      /\ \A f \in Env, vb \in Page : p[f][vb] = IF f = e /\ vb = va THEN n ELSE pt[f][vb]
  BY <1>2, EntryUpdate DEF TypeInv, ControlTypes
<1>4. data \in [Frame -> Value]
  BY DEF TypeInv
<1> HIDE DEF p
<1>5. /\ pt' = p /\ data' \in [Frame -> Value]
      /\ \A f \in Env, vb \in Page :
           p[f][vb].frame # 0 => p[f][vb].frame \in Frame /\ data'[p[f][vb].frame] = data[p[f][vb].frame]
  BY <1>1, <1>3, <1>4, RemapData
<1>6. \A f \in Env, vb \in Page : pt'[f][vb] = IF f = e /\ vb = va THEN n ELSE pt[f][vb]
  BY <1>3, <1>5
<1>7. pt' \in [Env -> [Page -> Entry]] /\ data' \in [Frame -> Value]
  BY <1>3, <1>5
<1>8. \A f \in Env, vb \in Page :
        pt'[f][vb].frame # 0 => data'[pt'[f][vb].frame] = data[pt'[f][vb].frame]
  BY <1>5
<1> QED
  BY <1>1, <1>2, <1>6, <1>7, <1>8 DEF n

\* sys_page_alloc: one entry gets a frame; nobody else has it unless the page was stray.
LEMMA AllocEffect ==
  ASSUME TypeInv, NEW e \in Env, NEW va \in Page, sys_page_alloc(e, va), ~stray'
  PROVE  ~stray /\ \E n \in Entry :
           /\ n.frame # 0 /\ n.w = TRUE /\ n.cow = FALSE
           /\ \A f \in Env, vb \in Page : f # e \/ vb # va => pt[f][vb].frame # n.frame
           /\ pt' \in [Env -> [Page -> Entry]] /\ data' \in [Frame -> Value]
           /\ \A f \in Env, vb \in Page : pt'[f][vb] = IF f = e /\ vb = va THEN n ELSE pt[f][vb]
           /\ \A f \in Env, vb \in Page :
                pt[f][vb].frame # 0 /\ (f # e \/ vb # va) => data'[pt[f][vb].frame] = data[pt[f][vb].frame]
<1>1. PICK x \in Frame :
        /\ Remap([pt EXCEPT ![e][va] = [frame |-> x, w |-> TRUE, cow |-> FALSE]], [data EXCEPT ![x] = 0])
        /\ stray' = (stray \/ InUse(x, e, va))
  BY DEF sys_page_alloc
<1> DEFINE n == [frame |-> x, w |-> TRUE, cow |-> FALSE]
           p == [pt EXCEPT ![e][va] = n]
           d == [data EXCEPT ![x] = 0]
<1>2. Remap(p, d) /\ ~stray /\ ~InUse(x, e, va)
  BY <1>1
<1>3. x # 0 /\ \A f \in Env, vb \in Page : f # e \/ vb # va => pt[f][vb].frame # x
  BY <1>2, SizeAssumption DEF InUse, Frame
<1>4. n \in Entry /\ n.frame = x /\ n.w = TRUE /\ n.cow = FALSE
  BY SizeAssumption DEF Entry, Frame
<1> HIDE DEF n
<1>5. /\ p \in [Env -> [Page -> Entry]]
      /\ \A f \in Env, vb \in Page : p[f][vb] = IF f = e /\ vb = va THEN n ELSE pt[f][vb]
  BY <1>4, EntryUpdate DEF TypeInv, ControlTypes
<1>6. d \in [Frame -> Value] /\ \A f \in Frame : f # x => d[f] = data[f]
  BY ValueAssumption DEF TypeInv
<1> HIDE DEF p, d
<1>7. /\ pt' = p /\ data' \in [Frame -> Value]
      /\ \A f \in Env, vb \in Page :
           p[f][vb].frame # 0 => p[f][vb].frame \in Frame /\ data'[p[f][vb].frame] = d[p[f][vb].frame]
  BY <1>2, <1>5, <1>6, RemapData
<1>8. ASSUME NEW f \in Env, NEW vb \in Page, pt[f][vb].frame # 0, f # e \/ vb # va
      PROVE  data'[pt[f][vb].frame] = data[pt[f][vb].frame]
  <2>1. p[f][vb] = pt[f][vb]
    BY <1>5, <1>8
  <2>2. pt[f][vb].frame \in Frame /\ data'[pt[f][vb].frame] = d[pt[f][vb].frame]
    BY <1>7, <1>8, <2>1
  <2> QED
    BY <1>3, <1>6, <1>8, <2>2
<1>9. \A f \in Env, vb \in Page : pt'[f][vb] = IF f = e /\ vb = va THEN n ELSE pt[f][vb]
  BY <1>5, <1>7
<1>10. pt' \in [Env -> [Page -> Entry]] /\ data' \in [Frame -> Value]
  BY <1>5, <1>7
<1>11. /\ n.frame # 0 /\ n.w = TRUE /\ n.cow = FALSE
       /\ \A f \in Env, vb \in Page : f # e \/ vb # va => pt[f][vb].frame # n.frame
  BY <1>3, <1>4
<1> QED
  BY <1>2, <1>4, <1>8, <1>9, <1>10, <1>11

\* env_free: all entries of one environment go.
LEMMA DieEffect ==
  ASSUME TypeInv, NEW e \in Env, Remap([pt EXCEPT ![e] = Empty], data)
  PROVE  /\ pt' \in [Env -> [Page -> Entry]] /\ data' \in [Frame -> Value]
         /\ \A vb \in Page : pt'[e][vb].frame = 0 /\ pt'[e][vb].w = FALSE /\ pt'[e][vb].cow = FALSE
         /\ \A f \in Env \ {e}, vb \in Page : pt'[f][vb] = pt[f][vb]
         /\ \A f \in Env \ {e}, vb \in Page :
              pt[f][vb].frame # 0 => data'[pt[f][vb].frame] = data[pt[f][vb].frame]
<1> DEFINE p == [pt EXCEPT ![e] = Empty]
<1>1. None \in Entry /\ None.frame = 0 /\ None.w = FALSE /\ None.cow = FALSE
  BY SizeAssumption DEF None, Entry
<1>2. Empty \in [Page -> Entry] /\ \A vb \in Page : Empty[vb] = None
  BY <1>1 DEF Empty
<1>3. pt \in [Env -> [Page -> Entry]] /\ data \in [Frame -> Value]
  BY DEF TypeInv, ControlTypes
<1>4. /\ p \in [Env -> [Page -> Entry]] /\ p[e] = Empty
      /\ \A f \in Env \ {e} : p[f] = pt[f]
  BY <1>2, <1>3
<1> HIDE DEF p
<1>5. /\ pt' = p /\ data' \in [Frame -> Value]
      /\ \A f \in Env, vb \in Page :
           p[f][vb].frame # 0 => p[f][vb].frame \in Frame /\ data'[p[f][vb].frame] = data[p[f][vb].frame]
  BY <1>3, <1>4, RemapData DEF p
<1>6. \A f \in Env \ {e}, vb \in Page :
        pt[f][vb].frame # 0 => data'[pt[f][vb].frame] = data[pt[f][vb].frame]
  BY <1>4, <1>5
<1> QED
  BY <1>1, <1>2, <1>4, <1>5, <1>6

\* Which pages and environments the control state speaks of.
LEMMA Ranges ==
  ASSUME ControlTypes, ChildInv, FaultInv
  PROVE  /\ PFTEMP \in Page /\ PFTEMP \notin VA /\ VA \subseteq Page /\ Stack \in VA
         /\ VA \subseteq Own /\ Own \subseteq Page /\ PFTEMP \notin Own
         /\ XSTACK \in Page /\ XSTACK \notin VA /\ XSTACK # PFTEMP
         /\ \A f \in Env : pc[f] \in LoopPc => addr[f] \in VA
         /\ \A f \in Env : pc[f] \in ForkPc => child[f] \in Env /\ child[f] # f
         /\ \A f \in Env : fault[f].at # "none" => fault[f].va \in VA
<1>1. PFTEMP \in Page /\ PFTEMP \notin VA /\ VA \subseteq Page /\ Stack \in VA
  BY SizeAssumption DEF PFTEMP, Page, VA
<1>2. /\ VA \subseteq Own /\ Own \subseteq Page /\ PFTEMP \notin Own
      /\ XSTACK \in Page /\ XSTACK \notin VA /\ XSTACK # PFTEMP
  BY SizeAssumption DEF PFTEMP, XSTACK, Page, Own, VA
<1>3. \A f \in Env : pc[f] \in LoopPc => addr[f] \in VA
  BY DEF ControlTypes, ChildInv, Addr
<1>4. \A f \in Env : pc[f] \in ForkPc => child[f] \in Env /\ child[f] # f
  BY DEF ControlTypes, ChildInv, ForkPc, LoopPc
<1>5. \A f \in Env : fault[f].at # "none" => fault[f].va \in VA
  BY DEF FaultInv
<1> QED
  BY <1>1, <1>2, <1>3, <1>4, <1>5

\* The loop of fork goes on to the next page, or leaves.
LEMMA LoopEffect ==
  ASSUME ControlTypes, NEW e \in Env, addr[e] \in VA, Advance(e), pc' = [pc EXCEPT ![e] = Onward(e)]
  PROVE  /\ pc' \in [Env -> Pc] /\ addr' \in [Env -> Addr]
         /\ \A f \in Env \ {e} : pc'[f] = pc[f] /\ addr'[f] = addr[f]
         /\ pc'[e] \in {"read", "xstack"} /\ (pc'[e] = "read" <=> addr'[e] # 0)
         /\ \A vb \in VA : addr'[e] # 0 /\ (vb > addr'[e] \/ vb = addr'[e]) => vb > addr[e]
         /\ \A vb \in VA : addr'[e] = 0 \/ vb < addr'[e] => vb = addr[e] \/ vb < addr[e]
<1>1. addr' = [addr EXCEPT ![e] = IF addr[e] = Stack THEN 0 ELSE addr[e] + 1]
  BY DEF Advance
<1>2. addr'[e] = IF addr[e] = Stack THEN 0 ELSE addr[e] + 1
  BY <1>1 DEF ControlTypes
<1>3. addr'[e] \in Addr /\ (addr'[e] = 0 <=> addr[e] = Stack)
  BY <1>2, SizeAssumption DEF VA, Addr
<1>4. addr' \in [Env -> Addr]
  BY <1>1, <1>2, <1>3 DEF ControlTypes
<1>5. Onward(e) \in {"read", "xstack"} /\ (Onward(e) = "read" <=> addr[e] # Stack)
  BY DEF Onward
<1>6. pc' \in [Env -> Pc] /\ pc'[e] = Onward(e)
  BY <1>5 DEF ControlTypes, Pc, ForkPc, LoopPc
<1>7. \A f \in Env \ {e} : pc'[f] = pc[f] /\ addr'[f] = addr[f]
  BY <1>1 DEF ControlTypes
<1>8. \A vb \in VA : addr'[e] # 0 /\ (vb > addr'[e] \/ vb = addr'[e]) => vb > addr[e]
  BY <1>2, SizeAssumption DEF VA
<1>9. \A vb \in VA : addr'[e] = 0 \/ vb < addr'[e] => vb = addr[e] \/ vb < addr[e]
  BY <1>2, SizeAssumption DEF VA
<1> QED
  BY <1>3, <1>4, <1>5, <1>6, <1>7, <1>8, <1>9

\* The same, with what duppage read.
LEMMA AdvanceEffect ==
  ASSUME TypeInv, NEW e \in Env, addr[e] \in VA, Advance(e), pc' = [pc EXCEPT ![e] = Onward(e)]
  PROVE  /\ pc' \in [Env -> Pc] /\ addr' \in [Env -> Addr] /\ pte' \in [Env -> SUBSET {"W", "COW"}]
         /\ \A f \in Env \ {e} : pc'[f] = pc[f] /\ addr'[f] = addr[f] /\ pte'[f] = pte[f]
         /\ pc'[e] \in {"read", "xstack"} /\ (pc'[e] = "read" <=> addr'[e] # 0)
         /\ \A vb \in VA : addr'[e] # 0 /\ (vb > addr'[e] \/ vb = addr'[e]) => vb > addr[e]
         /\ \A vb \in VA : addr'[e] = 0 \/ vb < addr'[e] => vb = addr[e] \/ vb < addr[e]
<1>1. pte' \in [Env -> SUBSET {"W", "COW"}] /\ \A f \in Env \ {e} : pte'[f] = pte[f]
  BY DEF Advance, TypeInv
<1> QED
  BY <1>1, LoopEffect DEF TypeInv

\* duppage is done with a page: the child should see from now on what it sees now.
LEMMA SnapshotEffect ==
  ASSUME TypeInv, NEW e \in Env, child[e] \in Env, addr[e] \in VA, Snapshot(e),
         data'[pt'[child[e]][addr[e]].frame] \in Value,
         addr[e] # Stack => view[e][addr[e]] = data'[pt'[child[e]][addr[e]].frame]
  PROVE  /\ view' \in [Env -> [VA -> Value]]
         /\ \A f \in Env, vb \in VA :
              view'[f][vb] = IF f = child[e] /\ vb = addr[e] THEN data'[pt'[child[e]][addr[e]].frame]
                             ELSE view[f][vb]
<1> DEFINE c == child[e]
           va == addr[e]
           x == data'[pt'[child[e]][addr[e]].frame]
           g == [view[c] EXCEPT ![va] = x]
<1>1. view \in [Env -> [VA -> Value]]
  BY DEF TypeInv
<1>2. view' = [view EXCEPT ![c][va] = x]
  BY DEF Snapshot
<1>3. view' = [view EXCEPT ![c] = g]
  BY <1>2
<1>4. c \in Env /\ va \in VA /\ x \in Value
  OBVIOUS
<1> HIDE DEF c, va, x
<1>5. g \in [VA -> Value] /\ \A vb \in VA : g[vb] = IF vb = va THEN x ELSE view[c][vb]
  BY <1>1, <1>4
<1> HIDE DEF g
<1>6. view' \in [Env -> [VA -> Value]] /\ \A f \in Env, vb \in VA : view'[f][vb] = IF f = c /\ vb = va THEN x ELSE view[f][vb]
  BY <1>1, <1>3, <1>4, <1>5
<1> QED
  BY <1>6 DEF c, va, x

-----------------------------------------------------------------------------
(* The control state: every step keeps it, whatever sys_page_alloc maps.     *)

\* sys_page_map and sys_page_alloc give one entry a page.
LEMMA MapControl ==
  ASSUME ControlTypes, NEW s \in Env, NEW sv \in Page, NEW e \in Env, NEW va \in Page,
         NEW w \in BOOLEAN, NEW cow \in BOOLEAN, sys_page_map(s, sv, e, va, w, cow)
  PROVE  /\ pt' \in [Env -> [Page -> Entry]]
         /\ \A f \in Env, vb \in Page : f # e \/ vb # va => pt'[f][vb] = pt[f][vb]
         /\ pt'[e][va].cow = cow
         /\ \A f \in Env, vb \in Page : pt[f][vb].frame # 0 => pt'[f][vb].frame # 0
<1> DEFINE n == [frame |-> pt[s][sv].frame, w |-> w, cow |-> cow]
<1>1. pt' = [pt EXCEPT ![e][va] = n] /\ pt[s][sv].frame # 0
  BY DEF sys_page_map, Remap
<1>2. n \in Entry /\ n.frame # 0 /\ n.cow = cow
  BY <1>1 DEF ControlTypes, Entry
<1> HIDE DEF n
<1>3. /\ [pt EXCEPT ![e][va] = n] \in [Env -> [Page -> Entry]]
      /\ \A f \in Env, vb \in Page : [pt EXCEPT ![e][va] = n][f][vb] = IF f = e /\ vb = va THEN n ELSE pt[f][vb]
  BY <1>2, EntryUpdate DEF ControlTypes
<1> QED
  BY <1>1, <1>2, <1>3

LEMMA AllocControl ==
  ASSUME ControlTypes, NEW e \in Env, NEW va \in Page, sys_page_alloc(e, va)
  PROVE  /\ pt' \in [Env -> [Page -> Entry]]
         /\ \A f \in Env, vb \in Page : f # e \/ vb # va => pt'[f][vb] = pt[f][vb]
         /\ pt'[e][va].frame # 0
         /\ \A f \in Env, vb \in Page : pt[f][vb].frame # 0 => pt'[f][vb].frame # 0
<1>1. PICK x \in Frame : pt' = [pt EXCEPT ![e][va] = [frame |-> x, w |-> TRUE, cow |-> FALSE]]
  BY DEF sys_page_alloc, Remap
<1> DEFINE n == [frame |-> x, w |-> TRUE, cow |-> FALSE]
<1>2. n \in Entry /\ n.frame # 0
  BY SizeAssumption DEF Entry, Frame
<1>3. pt' = [pt EXCEPT ![e][va] = n]
  BY <1>1
<1> HIDE DEF n
<1>4. /\ [pt EXCEPT ![e][va] = n] \in [Env -> [Page -> Entry]]
      /\ \A f \in Env, vb \in Page : [pt EXCEPT ![e][va] = n][f][vb] = IF f = e /\ vb = va THEN n ELSE pt[f][vb]
  BY <1>2, EntryUpdate DEF ControlTypes
<1> QED
  BY <1>2, <1>3, <1>4

\* pgfault and stores, but for the two calls that map a page.
LEMMA FaultControl ==
  ASSUME ControlInv, NEW e \in Env, NEW x \in [va : Page, at : At], fault' = [fault EXCEPT ![e] = x],
         x.at # "none" => Running(e) /\ x.va \in VA /\ (pc[e] # "user" => x.va = Stack),
         UNCHANGED <<pt, pc, child, addr, upcall>>
  PROVE  ControlInv'
<1>1. ControlTypes' /\ ChildInv' /\ UpcallInv'
  BY DEF ControlInv, ControlTypes, ChildInv, UpcallInv, FaultsHandled, Served, Running
<1>2. FaultInv'
  BY DEF ControlInv, ControlTypes, FaultInv, Running
<1> QED
  BY <1>1, <1>2 DEF ControlInv

\* A step that changes entries of one environment, none of them its exception stack, and
\* makes no page copy-on-write unless its upcall is set.
LEMMA PagesControl ==
  ASSUME ControlInv, pt' \in [Env -> [Page -> Entry]], NEW e \in Env,
         \A f \in Env, vb \in Page : f # e => pt'[f][vb] = pt[f][vb],
         \A f \in Env, vb \in Page : pt[f][vb].frame # 0 => pt'[f][vb].frame # 0,
         \A vb \in VA : pt'[e][vb].cow => pt[e][vb].cow \/ upcall[e] \/ ~Running(e),
         UNCHANGED <<pc, child, addr, upcall>>
  PROVE  ChildInv' /\ UpcallInv'
<1>1. ChildInv' /\ XSTACK \in Page /\ VA \subseteq Page /\ \A f \in Env : pc[f] \in ForkPc => child[f] \in Env
  BY Ranges DEF ControlInv, ChildInv
<1>2. \A f \in Env : pt[f][XSTACK].frame # 0 => pt'[f][XSTACK].frame # 0
  BY <1>1
<1>3. FaultsHandled'
  <2> SUFFICES ASSUME NEW f \in Env, Running(f), NEW vb \in VA, pt'[f][vb].cow
               PROVE  upcall[f] /\ pt'[f][XSTACK].frame # 0
    BY DEF FaultsHandled, Running, Served
  <2>1. upcall[f]
    BY <1>1 DEF ControlInv, UpcallInv, FaultsHandled, Served
  <2>2. pt[f][XSTACK].frame # 0
    BY <2>1 DEF ControlInv, UpcallInv
  <2> QED
    BY <1>2, <2>1, <2>2
<1>4. /\ \A f \in Env : upcall[f] \/ pc[f] \in ForkPc \cup {"handler", "exofork"} => pt'[f][XSTACK].frame # 0
      /\ \A f \in Env : pc[f] \in {"upcall", "status"} => pt'[child[f]][XSTACK].frame # 0
  BY <1>1, <1>2 DEF ControlInv, UpcallInv, ForkPc
<1> QED
  BY <1>1, <1>3, <1>4 DEF ControlInv, UpcallInv

\* pgfault's two calls that map a page.
LEMMA PgfaultMapsControl ==
  ASSUME ControlInv, NEW e \in Env, PgfaultAlloc(e) \/ PgfaultMap(e)
  PROVE  ControlInv'
<1>1. /\ PFTEMP \in Page /\ PFTEMP \notin VA /\ VA \subseteq Page /\ fault[e].at # "none" /\ fault[e].va \in VA
      /\ ControlTypes /\ UNCHANGED <<pc, child, addr, upcall>>
  BY Ranges DEF ControlInv, PgfaultAlloc, PgfaultMap, FaultStep, forkVars
<1>2. /\ pt' \in [Env -> [Page -> Entry]]
      /\ \A f \in Env, vb \in Page : f # e => pt'[f][vb] = pt[f][vb]
      /\ \A f \in Env, vb \in Page : pt[f][vb].frame # 0 => pt'[f][vb].frame # 0
      /\ \A vb \in VA : pt'[e][vb].cow => pt[e][vb].cow
  <2>1. CASE PgfaultAlloc(e)
    <3>1. sys_page_alloc(e, PFTEMP)
      BY <2>1 DEF PgfaultAlloc
    <3> QED
      BY <1>1, <3>1, AllocControl
  <2>2. CASE PgfaultMap(e)
    <3> DEFINE v == fault[e].va
    <3>1. sys_page_map(e, PFTEMP, e, v, TRUE, FALSE) /\ v \in Page /\ v \in VA
      BY <1>1, <2>2 DEF PgfaultMap
    <3> HIDE DEF v
    <3>2. /\ pt' \in [Env -> [Page -> Entry]]
          /\ \A f \in Env, vb \in Page : f # e \/ vb # v => pt'[f][vb] = pt[f][vb]
          /\ pt'[e][v].cow = FALSE
          /\ \A f \in Env, vb \in Page : pt[f][vb].frame # 0 => pt'[f][vb].frame # 0
      BY <1>1, <3>1, MapControl
    <3> QED
      BY <1>1, <3>2
  <2> QED
    BY <2>1, <2>2
<1>3. ChildInv' /\ UpcallInv'
  BY <1>1, <1>2, PagesControl
<1>4. /\ fault' \in [Env -> [va : Page, at : At]] /\ \A f \in Env \ {e} : fault'[f] = fault[f]
      /\ fault'[e].at # "none" => fault'[e].va = fault[e].va
  <2>1. NoFault \in [va : Page, at : At] /\ NoFault.at = "none"
    BY <1>1 DEF NoFault, At, PFTEMP
  <2>2. CASE PgfaultAlloc(e)
    <3>1. fault' = [fault EXCEPT ![e] = [@ EXCEPT !.at = "copy"]]
      BY <2>2 DEF PgfaultAlloc, FaultStep
    <3> QED
      BY <1>1, <3>1 DEF ControlTypes, At
  <2>3. CASE PgfaultMap(e)
    <3>1. fault' = [fault EXCEPT ![e] = NoFault]
      BY <2>3 DEF PgfaultMap, FaultStep
    <3> QED
      BY <1>1, <2>1, <3>1 DEF ControlTypes
  <2> QED
    BY <2>2, <2>3
<1>5. FaultInv'
  BY <1>1, <1>4 DEF ControlInv, FaultInv, Running
<1> QED
  BY <1>1, <1>2, <1>3, <1>4, <1>5 DEF ControlInv, ControlTypes

\* The program gives up write access to a page.
LEMMA ProtectControl ==
  ASSUME ControlInv, NEW e \in Env, NEW va \in VA, Protect(e, va)
  PROVE  ControlInv'
<1>1. /\ VA \subseteq Page /\ va \in Page /\ ControlTypes /\ sys_page_map(e, va, e, va, FALSE, FALSE)
      /\ UNCHANGED <<pc, fault, child, addr, upcall>>
  BY Ranges DEF ControlInv, Protect, forkVars
<1>2. /\ pt' \in [Env -> [Page -> Entry]]
      /\ \A f \in Env, vb \in Page : f # e \/ vb # va => pt'[f][vb] = pt[f][vb]
      /\ pt'[e][va].cow = FALSE
      /\ \A f \in Env, vb \in Page : pt[f][vb].frame # 0 => pt'[f][vb].frame # 0
  BY <1>1, MapControl
<1>3. \A vb \in VA : pt'[e][vb].cow => pt[e][vb].cow
  BY <1>1, <1>2
<1>4. ChildInv' /\ UpcallInv'
  BY <1>1, <1>2, <1>3, PagesControl
<1>5. FaultInv'
  BY <1>1 DEF ControlInv, FaultInv, Running
<1> QED
  BY <1>1, <1>2, <1>4, <1>5 DEF ControlInv, ControlTypes

\* An environment goes; the child it was making stays as it is.
LEMMA DieControl ==
  ASSUME ControlInv, NEW e \in Env, Running(e), Dies(e)
  PROVE  ControlInv'
<1>1. /\ ControlTypes /\ ChildInv /\ FaultInv /\ UpcallInv /\ XSTACK \in Page /\ VA \subseteq Page
      /\ PFTEMP \in Page /\ \A f \in Env : pc[f] \in ForkPc => child[f] \in Env /\ child[f] # f
  BY Ranges DEF ControlInv
<1>2. /\ pt' = [pt EXCEPT ![e] = Empty]
      /\ pc' = [pc EXCEPT ![e] = "free"] /\ fault' = [fault EXCEPT ![e] = NoFault]
      /\ child' = [child EXCEPT ![e] = NoEnv] /\ addr' = [addr EXCEPT ![e] = 0]
      /\ upcall' = [upcall EXCEPT ![e] = FALSE]
  BY DEF Dies, Remap
<1>3. Empty \in [Page -> Entry] /\ \A vb \in Page : Empty[vb].cow = FALSE
  BY SizeAssumption DEF Empty, None, Entry
<1>4. NoFault \in [va : Page, at : At] /\ NoFault.at = "none" /\ 0 \in Addr
  BY <1>1 DEF NoFault, At, PFTEMP, Addr
<1>5. /\ ControlTypes' /\ \A vb \in Page : pt'[e][vb].cow = FALSE
      /\ pc'[e] = "free" /\ fault'[e].at = "none" /\ child'[e] = NoEnv /\ addr'[e] = 0 /\ upcall'[e] = FALSE
  BY <1>1, <1>2, <1>3, <1>4 DEF ControlTypes, Pc
<1>6. \A f \in Env : f # e =>
        /\ pt'[f] = pt[f] /\ pc'[f] = pc[f] /\ fault'[f] = fault[f] /\ child'[f] = child[f]
        /\ addr'[f] = addr[f] /\ upcall'[f] = upcall[f]
  BY <1>1, <1>2 DEF ControlTypes
<1>7. e # NoEnv /\ \A f \in Env : child[f] # e
  BY <1>1, EnvAssumption DEF ChildInv, Running
<1>8. ChildInv'
  <2>1. ASSUME NEW f \in Env PROVE (pc'[f] \in ForkPc <=> child'[f] # NoEnv) /\ (pc'[f] \in LoopPc <=> addr'[f] # 0)
    BY <1>1, <1>5, <1>6 DEF ChildInv, ForkPc, LoopPc
  <2>2. ASSUME NEW f \in Env, child'[f] # NoEnv PROVE pc'[child'[f]] = "child"
    <3>1. f # e /\ child'[f] = child[f] /\ child[f] \in Env /\ child[f] # e
      BY <1>1, <1>5, <1>6, <1>7, <2>2 DEF ControlTypes
    <3> QED
      BY <1>1, <1>6, <2>2, <3>1 DEF ChildInv
  <2>3. ASSUME NEW f \in Env, NEW g \in Env, child'[f] # NoEnv, child'[f] = child'[g] PROVE f = g
    <3>1. f # e /\ g # e
      BY <1>5, <2>3
    <3> QED
      BY <1>1, <1>6, <2>3, <3>1 DEF ChildInv
  <2> QED
    BY <2>1, <2>2, <2>3 DEF ChildInv
<1>9. FaultInv'
  BY <1>1, <1>5, <1>6 DEF FaultInv, Running
<1>10. UpcallInv'
  <2>1. FaultsHandled'
    BY <1>1, <1>5, <1>6 DEF UpcallInv, FaultsHandled, Served, Running
  <2>2. ASSUME NEW f \in Env, f # e
        PROVE  /\ upcall'[f] \/ pc'[f] \in ForkPc \cup {"handler", "exofork"} => pt'[f][XSTACK].frame # 0
               /\ pc'[f] \in ForkPc \cup {"exofork"} => upcall'[f]
               /\ pc'[f] \in {"upcall", "status"} => pt'[child'[f]][XSTACK].frame # 0
               /\ pc'[f] = "status" => upcall'[child'[f]]
    <3>1. pc[f] \in {"upcall", "status"} => child[f] \in Env /\ child[f] # e
      BY <1>1, <1>7 DEF ForkPc
    <3> QED
      BY <1>1, <1>6, <2>2, <3>1 DEF UpcallInv
  <2>3. ASSUME NEW f \in Env, f = e
        PROVE  pc'[f] \notin ForkPc \cup {"handler", "exofork", "upcall", "status"} /\ upcall'[f] = FALSE
    BY <1>5, <2>3 DEF ForkPc, LoopPc
  <2> QED
    BY <2>1, <2>2, <2>3 DEF UpcallInv
<1> QED
  BY <1>5, <1>8, <1>9, <1>10 DEF ControlInv

\* set_pgfault_handler, and the upcall that fork sets for the child.
LEMMA HandlerControl ==
  ASSUME ControlInv, NEW e \in Env,
         SetHandlerAgain(e) \/ SetHandlerUpcall(e) \/ ForkUpcall(e)
  PROVE  ControlInv'
<1>1. /\ ControlTypes /\ ChildInv /\ FaultInv /\ UpcallInv
      /\ \A f \in Env : pc[f] \in ForkPc => child[f] \in Env /\ child[f] # f
  BY Ranges DEF ControlInv
<1>2. UNCHANGED <<pt, fault, child, addr>> /\ fault[e].at = "none"
  BY DEF SetHandlerAgain, SetHandlerUpcall, ForkUpcall, Goto, InMain, forkVars
<1>3. PICK to \in {"exofork", "status"}, c \in Env :
        /\ pc' = [pc EXCEPT ![e] = to] /\ upcall' = [upcall EXCEPT ![c] = TRUE]
        /\ \/ pc[e] \in {"user", "handler"} /\ to = "exofork" /\ c = e /\ pt[e][XSTACK].frame # 0
           \/ pc[e] = "upcall" /\ to = "status" /\ c = child[e] /\ pt[c][XSTACK].frame # 0
  <2>1. CASE SetHandlerAgain(e)
    <3>1. pc[e] = "user" /\ pc' = [pc EXCEPT ![e] = "exofork"] /\ upcall' = upcall /\ upcall[e]
      BY <2>1 DEF SetHandlerAgain, Goto
    <3>2. upcall = [upcall EXCEPT ![e] = TRUE] /\ pt[e][XSTACK].frame # 0
      BY <1>1, <3>1 DEF ControlTypes, UpcallInv
    <3> QED
      BY <3>1, <3>2
  <2>2. CASE SetHandlerUpcall(e)
    BY <1>1, <2>2 DEF SetHandlerUpcall, Goto, UpcallInv
  <2>3. CASE ForkUpcall(e)
    BY <1>1, <2>3 DEF ForkUpcall, Goto, UpcallInv, ForkPc
  <2> QED
    BY <2>1, <2>2, <2>3
<1>4. /\ pc' \in [Env -> Pc] /\ \A f \in Env : pc'[f] = IF f = e THEN to ELSE pc[f]
      /\ upcall' \in [Env -> BOOLEAN] /\ \A f \in Env : upcall'[f] = IF f = c THEN TRUE ELSE upcall[f]
  BY <1>1, <1>3 DEF ControlTypes, Pc, ForkPc
<1>5. ControlTypes' /\ ChildInv' /\ FaultInv'
  <2>1. ControlTypes'
    BY <1>1, <1>2, <1>4 DEF ControlTypes
  <2>2. ChildInv'
    BY <1>1, <1>2, <1>3, <1>4 DEF ChildInv, ForkPc, LoopPc
  <2>3. FaultInv'
    BY <1>1, <1>2, <1>3, <1>4 DEF FaultInv, Running
  <2> QED
    BY <2>1, <2>2, <2>3
<1>6. FaultsHandled'
  <2> SUFFICES ASSUME NEW f \in Env, Running(f)', NEW vb \in VA, pt[f][vb].cow
               PROVE  upcall'[f] /\ pt[f][XSTACK].frame # 0
    BY <1>2 DEF FaultsHandled, Served
  <2>1. Running(f)
    BY <1>3, <1>4 DEF Running
  <2> QED
    BY <1>1, <1>4, <2>1 DEF UpcallInv, FaultsHandled, Served
<1>7. UpcallInv'
  BY <1>1, <1>2, <1>3, <1>4, <1>6 DEF UpcallInv, ForkPc, LoopPc
<1> QED
  BY <1>5, <1>7 DEF ControlInv

\* The exception stacks: an environment's own, and the child's.
LEMMA XStackControl ==
  ASSUME ControlInv, NEW e \in Env, SetHandlerXStack(e) \/ ForkXStack(e)
  PROVE  ControlInv'
<1>1. /\ ControlTypes /\ ChildInv /\ FaultInv /\ UpcallInv /\ XSTACK \in Page /\ XSTACK \notin VA /\ VA \subseteq Page
      /\ \A f \in Env : pc[f] \in ForkPc => child[f] \in Env /\ child[f] # f
  BY Ranges DEF ControlInv
<1>2. UNCHANGED <<fault, child, addr, upcall>> /\ fault[e].at = "none"
  BY DEF SetHandlerXStack, ForkXStack, Goto, InMain, forkVars
<1>3. PICK to \in {"handler", "upcall"}, c \in Env :
        /\ pc' = [pc EXCEPT ![e] = to] /\ sys_page_alloc(c, XSTACK)
        /\ \/ pc[e] = "user" /\ to = "handler" /\ c = e
           \/ pc[e] = "xstack" /\ to = "upcall" /\ c = child[e]
  BY <1>1 DEF SetHandlerXStack, ForkXStack, Goto, ForkPc
<1>4. pc' \in [Env -> Pc] /\ \A f \in Env : pc'[f] = IF f = e THEN to ELSE pc[f]
  BY <1>1, <1>3 DEF ControlTypes, Pc, ForkPc
<1>5. /\ pt' \in [Env -> [Page -> Entry]]
      /\ \A f \in Env, vb \in Page : f # c \/ vb # XSTACK => pt'[f][vb] = pt[f][vb]
      /\ pt'[c][XSTACK].frame # 0
      /\ \A f \in Env, vb \in Page : pt[f][vb].frame # 0 => pt'[f][vb].frame # 0
  BY <1>1, <1>3, AllocControl
<1>6. ControlTypes' /\ ChildInv' /\ FaultInv'
  BY <1>1, <1>2, <1>3, <1>4, <1>5 DEF ControlTypes, ChildInv, FaultInv, Running, ForkPc, LoopPc
<1>7. FaultsHandled'
  <2> SUFFICES ASSUME NEW f \in Env, Running(f)', NEW vb \in VA, pt'[f][vb].cow
               PROVE  upcall[f] /\ pt'[f][XSTACK].frame # 0
    BY <1>2 DEF FaultsHandled, Served
  <2>1. Running(f) /\ pt[f][vb].cow
    BY <1>1, <1>3, <1>4, <1>5 DEF Running
  <2> QED
    BY <1>1, <1>5, <2>1 DEF UpcallInv, FaultsHandled, Served
<1>8. UpcallInv'
  <2>1. \A f \in Env : upcall[f] \/ pc'[f] \in ForkPc \cup {"handler", "exofork"} => pt'[f][XSTACK].frame # 0
    BY <1>1, <1>3, <1>4, <1>5 DEF UpcallInv, ForkPc, LoopPc
  <2>2. \A f \in Env : pc'[f] \in ForkPc \cup {"exofork"} => upcall[f]
    BY <1>1, <1>3, <1>4 DEF UpcallInv, ForkPc, LoopPc
  <2>3. \A f \in Env : pc'[f] \in {"upcall", "status"} => pt'[child[f]][XSTACK].frame # 0
    BY <1>1, <1>3, <1>4, <1>5 DEF UpcallInv, ForkPc
  <2>4. \A f \in Env : pc'[f] = "status" => upcall[child[f]]
    BY <1>1, <1>3, <1>4 DEF UpcallInv
  <2> QED
    BY <1>2, <1>7, <2>1, <2>2, <2>3, <2>4 DEF UpcallInv
<1> QED
  BY <1>6, <1>8 DEF ControlInv

\* sys_exofork and sys_env_set_status: a child begins, and runs.
LEMMA ChildControl ==
  ASSUME ControlInv, NEW e \in Env, (\E c \in Env : ForkExofork(e, c)) \/ ForkStatus(e)
  PROVE  ControlInv'
<1>1. /\ ControlTypes /\ ChildInv /\ FaultInv /\ UpcallInv
      /\ \A f \in Env : pc[f] \in ForkPc => child[f] \in Env /\ child[f] # f
  BY Ranges DEF ControlInv
<1>2. CASE ForkStatus(e)
  <2>1. /\ pc[e] = "status" /\ child[e] \in Env /\ addr[e] = 0
        /\ pc[child[e]] = "child" /\ child[e] # e /\ child[child[e]] = NoEnv
    BY <1>1, <1>2, EnvAssumption DEF ForkStatus, ControlTypes, ChildInv, ForkPc, LoopPc
  <2>2. /\ pc' = [pc EXCEPT ![e] = "user", ![child[e]] = "user"]
        /\ child' = [child EXCEPT ![e] = NoEnv] /\ fault[e].at = "none"
        /\ UNCHANGED <<pt, fault, addr, upcall>>
    BY <1>2 DEF ForkStatus, InMain
  <2>3. /\ pc' \in [Env -> Pc] /\ child' \in [Env -> Env \cup {NoEnv}]
        /\ \A f \in Env : pc'[f] = IF f = e \/ f = child[e] THEN "user" ELSE pc[f]
        /\ \A f \in Env : child'[f] = IF f = e THEN NoEnv ELSE child[f]
    BY <1>1, <2>1, <2>2 DEF ControlTypes, Pc
  <2>4. ControlTypes' /\ ChildInv'
    <3>1. ControlTypes'
      BY <1>1, <2>2, <2>3 DEF ControlTypes
    <3>2. ChildInv'
      BY <1>1, <2>1, <2>2, <2>3 DEF ChildInv, ForkPc, LoopPc
    <3> QED
      BY <3>1, <3>2
  <2>5. FaultInv'
    BY <1>1, <2>1, <2>2, <2>3 DEF FaultInv, Running
  <2>6. FaultsHandled'
    BY <1>1, <2>1, <2>2, <2>3 DEF UpcallInv, FaultsHandled, Served, Running, ForkPc
  <2>7. UpcallInv'
    BY <1>1, <2>1, <2>2, <2>3, <2>6 DEF UpcallInv, ForkPc, LoopPc
  <2> QED
    BY <2>4, <2>5, <2>7 DEF ControlInv
<1>3. ASSUME NEW c \in Env, ForkExofork(e, c) PROVE ControlInv'
  <2>1. /\ pc[e] = "exofork" /\ fault[e].at = "none" /\ pc[c] = "free" /\ c # e /\ c # NoEnv /\ 1 \in Addr /\ 1 # 0
    BY <1>3, SizeAssumption, EnvAssumption DEF ForkExofork, InMain, Addr, VA
  <2>2. /\ pc' = [pc EXCEPT ![e] = "read", ![c] = "child"]
        /\ child' = [child EXCEPT ![e] = c] /\ addr' = [addr EXCEPT ![e] = 1]
        /\ UNCHANGED <<pt, fault, upcall>>
    BY <1>3 DEF ForkExofork
  <2>3. /\ pc' \in [Env -> Pc] /\ child' \in [Env -> Env \cup {NoEnv}] /\ addr' \in [Env -> Addr]
        /\ \A f \in Env : pc'[f] = IF f = e THEN "read" ELSE IF f = c THEN "child" ELSE pc[f]
        /\ \A f \in Env : child'[f] = IF f = e THEN c ELSE child[f]
        /\ \A f \in Env : addr'[f] = IF f = e THEN 1 ELSE addr[f]
    BY <1>1, <2>1, <2>2 DEF ControlTypes, Pc, ForkPc, LoopPc
  <2>4. child[e] = NoEnv /\ child[c] = NoEnv /\ \A f \in Env : child[f] # c
    BY <1>1, <2>1 DEF ChildInv, ForkPc, LoopPc
  <2>5. ControlTypes' /\ ChildInv'
    <3>1. ControlTypes'
      BY <1>1, <2>2, <2>3 DEF ControlTypes
    <3>2. ChildInv'
      BY <1>1, <2>1, <2>2, <2>3, <2>4 DEF ChildInv, ForkPc, LoopPc
    <3> QED
      BY <3>1, <3>2
  <2>6. FaultInv'
    BY <1>1, <2>1, <2>2, <2>3 DEF FaultInv, Running
  <2>7. FaultsHandled'
    BY <1>1, <2>1, <2>2, <2>3 DEF UpcallInv, FaultsHandled, Served, Running
  <2>8. UpcallInv'
    BY <1>1, <2>1, <2>2, <2>3, <2>7 DEF UpcallInv, ForkPc, LoopPc
  <2> QED
    BY <2>5, <2>6, <2>8 DEF ControlInv
<1> QED
  BY <1>2, <1>3

\* duppage: the entries it makes copy-on-write are the child's, who does not run, and
\* then those of the parent, whose upcall is set.
LEMMA DupControl ==
  ASSUME ControlInv, NEW e \in Env, DupRead(e) \/ DupMapFirst(e) \/ DupMapSecond(e)
  PROVE  ControlInv'
<1>1. /\ ControlTypes /\ ChildInv /\ FaultInv /\ UpcallInv /\ VA \subseteq Page /\ XSTACK \in Page
      /\ \A f \in Env : pc[f] \in ForkPc => child[f] \in Env /\ child[f] # f
      /\ \A f \in Env : pc[f] \in LoopPc => addr[f] \in VA
  BY Ranges DEF ControlInv
<1>2. /\ pc[e] \in LoopPc /\ fault[e].at = "none" /\ addr[e] \in VA /\ addr[e] \in Page /\ upcall[e]
      /\ child[e] \in Env /\ child[e] # e /\ pc[child[e]] = "child" /\ UNCHANGED <<fault, child, upcall>>
  BY <1>1, EnvAssumption DEF DupRead, DupMapFirst, DupMapSecond, Goto, InMain, LoopPc, ForkPc, UpcallInv, ChildInv
<1>3. \/ /\ pc' = [pc EXCEPT ![e] = Onward(e)] /\ Advance(e)
      \/ /\ \E to \in {"map1", "map2"} : pc' = [pc EXCEPT ![e] = to]
         /\ UNCHANGED addr
  BY DEF DupRead, DupMapFirst, DupMapSecond, Goto
<1>4. /\ pc' \in [Env -> Pc] /\ addr' \in [Env -> Addr]
      /\ \A f \in Env \ {e} : pc'[f] = pc[f] /\ addr'[f] = addr[f]
      /\ pc'[e] \in LoopPc \cup {"xstack"} /\ (pc'[e] \in LoopPc <=> addr'[e] # 0)
  <2>1. CASE pc' = [pc EXCEPT ![e] = Onward(e)] /\ Advance(e)
    BY <1>1, <1>2, <2>1, LoopEffect DEF LoopPc
  <2>2. CASE (\E to \in {"map1", "map2"} : pc' = [pc EXCEPT ![e] = to]) /\ UNCHANGED addr
    BY <1>1, <1>2, <2>2 DEF ControlTypes, ChildInv, Pc, ForkPc, LoopPc
  <2> QED
    BY <1>3, <2>1, <2>2
<1>5. /\ pt' \in [Env -> [Page -> Entry]]
      /\ \A f \in Env, vb \in Page : f # e /\ f # child[e] => pt'[f][vb] = pt[f][vb]
      /\ \A f \in Env, vb \in Page : pt[f][vb].frame # 0 => pt'[f][vb].frame # 0
  <2>1. CASE DupRead(e)
    BY <1>1, <2>1 DEF DupRead, ControlTypes
  <2>2. ASSUME NEW x \in Env, x = e \/ x = child[e],
               sys_page_map(e, addr[e], x, addr[e], FALSE, TRUE) \/ sys_page_map(e, addr[e], x, addr[e], FALSE, FALSE)
        PROVE  /\ pt' \in [Env -> [Page -> Entry]]
               /\ \A f \in Env, vb \in Page : f # e /\ f # child[e] => pt'[f][vb] = pt[f][vb]
               /\ \A f \in Env, vb \in Page : pt[f][vb].frame # 0 => pt'[f][vb].frame # 0
    <3> DEFINE va == addr[e]
    <3>1. /\ va \in Page /\ ControlTypes
          /\ sys_page_map(e, va, x, va, FALSE, TRUE) \/ sys_page_map(e, va, x, va, FALSE, FALSE)
      BY <1>1, <1>2, <2>2
    <3> HIDE DEF va
    <3>2. /\ pt' \in [Env -> [Page -> Entry]]
          /\ \A f \in Env, vb \in Page : f # x \/ vb # va => pt'[f][vb] = pt[f][vb]
          /\ \A f \in Env, vb \in Page : pt[f][vb].frame # 0 => pt'[f][vb].frame # 0
      <4>1. CASE sys_page_map(e, va, x, va, FALSE, TRUE)
        BY <3>1, <4>1, MapControl
      <4>2. CASE sys_page_map(e, va, x, va, FALSE, FALSE)
        <5>1. ControlTypes /\ va \in Page
          BY <3>1
        <5>2. /\ pt' \in [Env -> [Page -> Entry]]
              /\ \A f \in Env, vb \in Page : f # x \/ vb # va => pt'[f][vb] = pt[f][vb]
              /\ pt'[x][va].cow = FALSE
              /\ \A f \in Env, vb \in Page : pt[f][vb].frame # 0 => pt'[f][vb].frame # 0
          BY <4>2, <5>1, MapControl
        <5> QED
          BY <5>2
      <4> QED
        BY <3>1, <4>1, <4>2
    <3> QED
      BY <2>2, <3>2
  <2>3. CASE DupMapFirst(e)
    <3>1. sys_page_map(e, addr[e], child[e], addr[e], FALSE, Copied(e))
      BY <2>3 DEF DupMapFirst, Target
    <3>2. Copied(e) = TRUE \/ Copied(e) = FALSE
      BY DEF Copied
    <3> QED
      BY <1>2, <2>2, <3>1, <3>2
  <2>4. CASE DupMapSecond(e)
    <3>1. Target(e, 2) = e
      BY DEF Target
    <3>2. sys_page_map(e, addr[e], e, addr[e], FALSE, TRUE)
      BY <2>4, <3>1 DEF DupMapSecond
    <3> QED
      BY <1>2, <2>2, <3>2
  <2> QED
    BY <2>1, <2>3, <2>4
<1>6. ControlTypes' /\ ChildInv' /\ FaultInv'
  <2>1. ControlTypes'
    BY <1>1, <1>2, <1>4, <1>5 DEF ControlTypes
  <2>2. ASSUME NEW f \in Env PROVE (pc'[f] \in ForkPc <=> child[f] # NoEnv) /\ (pc'[f] \in LoopPc <=> addr'[f] # 0)
    <3>1. CASE f = e
      BY <1>2, <1>4, <3>1, EnvAssumption DEF ForkPc, LoopPc
    <3>2. CASE f # e
      BY <1>1, <1>4, <3>2 DEF ChildInv
    <3> QED
      BY <3>1, <3>2
  <2>3. ASSUME NEW f \in Env, child[f] # NoEnv PROVE pc'[child[f]] = "child"
    <3>1. child[f] \in Env /\ pc[child[f]] = "child" /\ child[f] # e
      BY <1>1, <1>2, <2>3 DEF ChildInv, ControlTypes, LoopPc
    <3> QED
      BY <1>4, <3>1
  <2>4. ChildInv'
    BY <1>1, <1>2, <2>2, <2>3 DEF ChildInv
  <2>5. FaultInv'
    BY <1>1, <1>2, <1>4 DEF FaultInv, Running
  <2> QED
    BY <2>1, <2>4, <2>5
<1>7. \A f \in Env : pt[f][XSTACK].frame # 0 => pt'[f][XSTACK].frame # 0
  BY <1>1, <1>5
<1>8. FaultsHandled'
  <2> SUFFICES ASSUME NEW f \in Env, Running(f)', NEW vb \in VA, pt'[f][vb].cow
               PROVE  upcall[f] /\ pt'[f][XSTACK].frame # 0
    BY <1>2 DEF FaultsHandled, Served
  <2>1. f # child[e]
    BY <1>2, <1>4 DEF Running
  <2>2. upcall[f]
    BY <1>1, <1>2, <1>4, <1>5, <2>1 DEF UpcallInv, FaultsHandled, Served, Running
  <2> QED
    BY <1>1, <1>7, <2>2 DEF UpcallInv
<1>9. UpcallInv'
  <2>1. \A f \in Env : upcall[f] \/ pc'[f] \in ForkPc \cup {"handler", "exofork"} => pt'[f][XSTACK].frame # 0
    BY <1>1, <1>2, <1>4, <1>7 DEF UpcallInv, ForkPc, LoopPc
  <2>2. \A f \in Env : pc'[f] \in ForkPc \cup {"exofork"} => upcall[f]
    BY <1>1, <1>2, <1>4 DEF UpcallInv
  <2>3. \A f \in Env : pc'[f] \in {"upcall", "status"} =>
          pt'[child[f]][XSTACK].frame # 0 /\ (pc'[f] = "status" => upcall[child[f]])
    BY <1>1, <1>2, <1>4, <1>7 DEF UpcallInv, ForkPc, LoopPc
  <2> QED
    BY <1>2, <1>8, <2>1, <2>2, <2>3 DEF UpcallInv
<1> QED
  BY <1>6, <1>9 DEF ControlInv

\* Every step keeps the control state.
LEMMA ControlNext == ControlInv /\ [Next \/ Done]_vars => ControlInv'
<1> SUFFICES ASSUME ControlInv, [Next \/ Done]_vars PROVE ControlInv'
  OBVIOUS
<1>1. CASE Next
  <2>1. PICK e \in Env :
          \/ pgfault(e) \/ fork(e) \/ Exit(e)
          \/ \E va \in VA : Protect(e, va) \/ \E v \in Value : Write(e, va, v)
    BY <1>1 DEF Next
  <2>2. CASE pgfault(e)
    <3>1. fault[e].at # "none" => Running(e) /\ fault[e].va \in VA /\ (pc[e] # "user" => fault[e].va = Stack)
      BY DEF ControlInv, FaultInv
    <3>2. ASSUME NEW to \in At \ {"none"}, fault' = [fault EXCEPT ![e] = [@ EXCEPT !.at = to]],
                 fault[e].at # "none", UNCHANGED <<pt, pc, child, addr, upcall>>
          PROVE  ControlInv'
      <4> DEFINE x == [fault[e] EXCEPT !.at = to]
      <4>1. x \in [va : Page, at : At] /\ x.va = fault[e].va /\ x.at = to
        BY DEF ControlInv, ControlTypes
      <4>2. fault' = [fault EXCEPT ![e] = x]
        BY <3>2
      <4> HIDE DEF x
      <4> QED
        BY <3>1, <3>2, <4>1, <4>2, FaultControl
    <3>3. CASE PgfaultCheck(e)
      <4>1. CASE Dies(e)
        BY <3>1, <3>3, <4>1, DieControl DEF PgfaultCheck
      <4>2. CASE ~Dies(e)
        BY <3>2, <3>3, <4>2 DEF PgfaultCheck, FaultStep, forkVars, At
      <4> QED
        BY <4>1, <4>2
    <3>4. CASE PgfaultCopy(e)
      BY <3>2, <3>4 DEF PgfaultCopy, FaultStep, forkVars, At
    <3> QED
      BY <2>2, <3>3, <3>4, PgfaultMapsControl DEF pgfault
  <2>3. CASE fork(e)
    BY <2>3, HandlerControl, XStackControl, ChildControl, DupControl DEF fork, set_pgfault_handler
  <2>4. CASE Exit(e)
    BY <2>4, DieControl DEF Exit
  <2>5. CASE \E va \in VA : Protect(e, va) \/ \E v \in Value : Write(e, va, v)
    <3>1. PICK va \in VA : Protect(e, va) \/ \E v \in Value : Write(e, va, v)
      BY <2>5
    <3>2. CASE \E v \in Value : Write(e, va, v)
      <4>1. /\ Running(e) /\ (pc[e] # "user" => va = Stack) /\ UNCHANGED <<pt, pc, child, addr, upcall>>
            /\ fault' = fault \/ fault' = [fault EXCEPT ![e] = [va |-> va, at |-> "check"]]
        BY <3>2 DEF Write, InMain, forkVars
      <4>2. CASE fault' = fault
        BY <4>1, <4>2 DEF ControlInv, ControlTypes, ChildInv, FaultInv, UpcallInv, FaultsHandled, Served, Running
      <4>3. CASE fault' = [fault EXCEPT ![e] = [va |-> va, at |-> "check"]]
        <5> DEFINE x == [va |-> va, at |-> "check"]
        <5>1. x \in [va : Page, at : At] /\ x.va = va
          BY Ranges DEF ControlInv, At
        <5>2. fault' = [fault EXCEPT ![e] = x]
          BY <4>3
        <5> HIDE DEF x
        <5> QED
          BY <4>1, <5>1, <5>2, FaultControl
      <4> QED
        BY <4>1, <4>2, <4>3
    <3> QED
      BY <3>1, <3>2, ProtectControl
  <2> QED
    BY <2>1, <2>2, <2>3, <2>4, <2>5
<1>2. CASE Done \/ UNCHANGED vars
  BY <1>2 DEF Done, vars, ControlInv, ControlTypes, ChildInv, FaultInv, UpcallInv, FaultsHandled, Served, Running
<1> QED
  BY <1>1, <1>2

-----------------------------------------------------------------------------
(* The mappings and the contents: every step keeps what fork promises, as    *)
(* long as sys_page_alloc maps no page in use.                               *)

\* set_pgfault_handler.
LEMMA HandlerStep ==
  ASSUME ControlInv, ForkInv, NEW e \in Env, SetHandlerAgain(e) \/ SetHandlerUpcall(e)
  PROVE  ForkInv'
<1>1. /\ TypeInv /\ ChildInv /\ FaultInv /\ UpcallInv /\ EmptyInv /\ DupInv /\ CopyInv
      /\ PrivateInv /\ CopiedInv /\ ForkCopies
  BY DEF ControlInv, ForkInv, MapInv
<1>2. /\ PFTEMP \in Page /\ PFTEMP \notin VA /\ VA \subseteq Page /\ Stack \in VA
      /\ VA \subseteq Own /\ Own \subseteq Page /\ PFTEMP \notin Own
      /\ \A f \in Env : pc[f] \in LoopPc => addr[f] \in VA
      /\ \A f \in Env : pc[f] \in ForkPc => child[f] \in Env /\ child[f] # f
      /\ \A f \in Env : fault[f].at # "none" => fault[f].va \in VA
  BY <1>1, Ranges DEF TypeInv
<1>3. pc[e] \in {"user", "handler"} /\ pc' = [pc EXCEPT ![e] = "exofork"]
  BY DEF SetHandlerAgain, SetHandlerUpcall, Goto
<1>4. upcall' \in [Env -> BOOLEAN] /\ UNCHANGED <<pt, data, fault, child, addr, pte, view>>
  BY <1>1 DEF SetHandlerAgain, SetHandlerUpcall, forkVars, TypeInv, ControlTypes
<1>5. pc' \in [Env -> Pc] /\ \A f \in Env : pc'[f] = IF f = e THEN "exofork" ELSE pc[f]
  BY <1>1, <1>3, <1>4 DEF TypeInv, ControlTypes, Pc
<1>6. TypeInv'
  BY <1>1, <1>2, <1>3, <1>4, <1>5 DEF TypeInv, ControlTypes, Pc, ForkPc, LoopPc
<1>7. EmptyInv'
  BY <1>1, <1>2, <1>3, <1>4, <1>5 DEF EmptyInv, ChildInv, Pc, ForkPc, LoopPc
<1>8. DupInv'
  BY <1>1, <1>2, <1>3, <1>4, <1>5 DEF DupInv, ChildInv, Pc, ForkPc, LoopPc
<1>9. CopyInv'
  BY <1>1, <1>2, <1>3, <1>4, <1>5 DEF CopyInv, Pc, ForkPc, LoopPc
<1>10. PrivateInv'
  BY <1>1, <1>2, <1>3, <1>4, <1>5 DEF PrivateInv, ChildInv, Pc, ForkPc, LoopPc
<1>11. CopiedInv'
  BY <1>1, <1>2, <1>3, <1>4, <1>5 DEF CopiedInv, Pc, ForkPc, LoopPc
<1>12. ForkCopies'
  BY <1>1, <1>2, <1>3, <1>4, <1>5 DEF ForkCopies, Complete, Running, ChildInv, Pc, ForkPc, LoopPc
<1> QED
  BY <1>6, <1>7, <1>8, <1>9, <1>10, <1>11, <1>12 DEF ForkInv, MapInv

\* An exception stack is allocated for x, in the fork or the set_pgfault_handler of e.
LEMMA XStackAlloc ==
  ASSUME ControlInv, ForkInv, NEW e \in Env, NEW x \in Env, NEW to \in {"handler", "upcall"},
         pc' = [pc EXCEPT ![e] = to], sys_page_alloc(x, XSTACK), pc[x] # "free", ~stray',
         (pc[e] = "user" /\ to = "handler") \/ (pc[e] = "xstack" /\ to = "upcall"),
         UNCHANGED <<fault, child, addr, pte, upcall, view>>
  PROVE  ForkInv'
<1>1. /\ TypeInv /\ ChildInv /\ FaultInv /\ UpcallInv /\ EmptyInv /\ DupInv /\ CopyInv
      /\ PrivateInv /\ CopiedInv /\ ForkCopies
  BY DEF ControlInv, ForkInv, MapInv
<1>2. /\ PFTEMP \in Page /\ PFTEMP \notin VA /\ VA \subseteq Page /\ Stack \in VA
      /\ VA \subseteq Own /\ Own \subseteq Page /\ PFTEMP \notin Own
      /\ XSTACK \in Page /\ XSTACK \notin VA /\ XSTACK # PFTEMP
      /\ \A f \in Env : pc[f] \in LoopPc => addr[f] \in VA
      /\ \A f \in Env : pc[f] \in ForkPc => child[f] \in Env /\ child[f] # f
      /\ \A f \in Env : fault[f].at # "none" => fault[f].va \in VA
  BY <1>1, Ranges DEF TypeInv
<1>3. sys_page_alloc(x, XSTACK)
  OBVIOUS
<1>4. pc' \in [Env -> Pc] /\ \A f \in Env : pc'[f] = IF f = e THEN to ELSE pc[f]
  BY <1>1 DEF TypeInv, ControlTypes, Pc, ForkPc
<1>5. PICK n \in Entry :
        /\ n.frame # 0 /\ n.w = TRUE /\ n.cow = FALSE
        /\ \A f \in Env, vb \in Page : f # x \/ vb # XSTACK => pt[f][vb].frame # n.frame
        /\ pt' \in [Env -> [Page -> Entry]] /\ data' \in [Frame -> Value]
        /\ \A f \in Env, vb \in Page : pt'[f][vb] = IF f = x /\ vb = XSTACK THEN n ELSE pt[f][vb]
        /\ \A f \in Env, vb \in Page :
             pt[f][vb].frame # 0 /\ (f # x \/ vb # XSTACK) => data'[pt[f][vb].frame] = data[pt[f][vb].frame]
  <2>1. TypeInv /\ XSTACK \in Page /\ sys_page_alloc(x, XSTACK)
    BY <1>1, <1>2, <1>3
  <2> QED
    BY <2>1, AllocEffect
<1>6. /\ \A f \in Env, vb \in Page : vb # XSTACK => pt'[f][vb] = pt[f][vb]
      /\ \A f \in Env, vb \in Page :
           vb # XSTACK /\ pt[f][vb].frame # 0 => data'[pt[f][vb].frame] = data[pt[f][vb].frame]
      /\ \A f \in Env : pc'[f] \in LoopPc \/ pc[f] \in LoopPc => f # e /\ pc'[f] = pc[f]
  BY <1>3, <1>4, <1>5 DEF LoopPc
<1>7. TypeInv'
  BY <1>1, <1>4, <1>5 DEF TypeInv, ControlTypes
<1>8. EmptyInv'
  <2>1. \A f \in Env, vb \in Page : pt'[f][vb].frame = 0 => ~pt'[f][vb].w /\ ~pt'[f][vb].cow
    BY <1>1, <1>5 DEF EmptyInv
  <2>2. ASSUME NEW f \in Env, NEW vb \in Page, pc'[f] = "free" PROVE pt'[f][vb].frame = 0
    <3>1. pc[f] = "free" /\ f # x
      BY <1>3, <1>4, <2>2
    <3> QED
      BY <1>1, <1>5, <3>1 DEF EmptyInv
  <2>3. \A f \in Env, vb \in VA :
          pc'[f] \in LoopPc /\ (vb > addr[f] \/ (vb = addr[f] /\ pc'[f] # "map2")) => pt'[child[f]][vb].frame = 0
    BY <1>1, <1>2, <1>6 DEF EmptyInv, ForkPc
  <2> QED
    BY <1>4, <2>1, <2>2, <2>3 DEF EmptyInv
<1>9. DupInv'
  BY <1>1, <1>2, <1>4, <1>6 DEF DupInv, ForkPc, LoopPc
<1>10. CopyInv'
  <2> SUFFICES ASSUME NEW f \in Env, fault[f].at \in {"alloc", "copy", "map"}
               PROVE  /\ pt'[f][fault[f].va].cow
                      /\ fault[f].at \in {"copy", "map"} =>
                           /\ pt'[f][PFTEMP].frame # 0
                           /\ \A g \in Env, vb \in Page :
                                pt'[g][vb].frame = pt'[f][PFTEMP].frame => g = f /\ vb = PFTEMP
    BY <1>4 DEF CopyInv
  <2>1. pt'[f][fault[f].va] = pt[f][fault[f].va] /\ pt'[f][PFTEMP] = pt[f][PFTEMP] /\ pt[f][PFTEMP].frame # n.frame
    BY <1>2, <1>5, <1>6
  <2> QED
    BY <1>1, <1>5, <2>1 DEF CopyInv
<1>11. PrivateInv'
  <2> SUFFICES ASSUME NEW f \in Env, NEW g \in Env, NEW vf \in Own, NEW vg \in Page,
                      pt'[f][vf].w, pt'[f][vf].frame = pt'[g][vg].frame, <<f, vf>> # <<g, vg>>
               PROVE  \/ child[f] = g /\ vf = vg /\ addr[f] = vf /\ pc'[f] = "map2"
                      \/ g = f /\ vg = PFTEMP
    BY <1>4 DEF PrivateInv
  <2>1. pt'[f][vf] = pt[f][vf] /\ pt'[g][vg] = pt[g][vg]
    BY <1>2, <1>5
  <2>2. (child[f] = g /\ vf = vg /\ addr[f] = vf /\ pc[f] = "map2") \/ (g = f /\ vg = PFTEMP)
    BY <1>1, <2>1 DEF PrivateInv
  <2> QED
    BY <1>6, <2>2 DEF LoopPc
<1>12. CopiedInv'
  BY <1>1, <1>2, <1>4, <1>6 DEF CopiedInv, CopyInv
<1>13. ForkCopies'
  <2> SUFFICES ASSUME NEW f \in Env, NEW vb \in VA, Complete(f, vb)'
               PROVE  data'[pt'[f][vb].frame] = view[f][vb]
    BY <1>4 DEF ForkCopies
  <2>1. pt'[f][vb] = pt[f][vb] /\ pt[f][vb].frame # 0 /\ data'[pt[f][vb].frame] = data[pt[f][vb].frame]
    BY <1>2, <1>6 DEF Complete
  <2>2. Complete(f, vb)
    BY <1>3, <1>4, <2>1 DEF Complete, Running
  <2> QED
    BY <1>1, <2>1, <2>2 DEF ForkCopies
<1> QED
  BY <1>7, <1>8, <1>9, <1>10, <1>11, <1>12, <1>13 DEF ForkInv, MapInv

\* The exception stack of set_pgfault_handler, and the child's.
LEMMA XStackStep ==
  ASSUME ControlInv, ForkInv, NEW e \in Env, SetHandlerXStack(e) \/ ForkXStack(e), ~stray'
  PROVE  ForkInv'
<1>1. UNCHANGED <<fault, child, addr, pte, upcall, view>>
  BY DEF SetHandlerXStack, ForkXStack, forkVars
<1>2. CASE SetHandlerXStack(e)
  <2>1. pc[e] = "user" /\ pc' = [pc EXCEPT ![e] = "handler"] /\ sys_page_alloc(e, XSTACK)
    BY <1>2 DEF SetHandlerXStack, Goto
  <2> QED
    BY <1>1, <2>1, XStackAlloc
<1>3. CASE ForkXStack(e)
  <2> DEFINE c == child[e]
  <2>1. pc[e] = "xstack" /\ pc' = [pc EXCEPT ![e] = "upcall"] /\ sys_page_alloc(c, XSTACK)
    BY <1>3 DEF ForkXStack, Goto
  <2>2. c \in Env /\ pc[c] = "child"
    BY <2>1, Ranges, EnvAssumption DEF ControlInv, ChildInv, ForkPc
  <2> HIDE DEF c
  <2> QED
    BY <1>1, <2>1, <2>2, XStackAlloc
<1> QED
  BY <1>2, <1>3

\* sys_env_set_pgfault_upcall for the child.
LEMMA UpcallStep ==
  ASSUME ControlInv, ForkInv, NEW e \in Env, ForkUpcall(e)
  PROVE  ForkInv'
<1>1. /\ TypeInv /\ ChildInv /\ FaultInv /\ UpcallInv /\ EmptyInv /\ DupInv /\ CopyInv
      /\ PrivateInv /\ CopiedInv /\ ForkCopies
  BY DEF ControlInv, ForkInv, MapInv
<1>2. /\ PFTEMP \in Page /\ PFTEMP \notin VA /\ VA \subseteq Page /\ Stack \in VA
      /\ VA \subseteq Own /\ Own \subseteq Page /\ PFTEMP \notin Own
      /\ \A f \in Env : pc[f] \in LoopPc => addr[f] \in VA
      /\ \A f \in Env : pc[f] \in ForkPc => child[f] \in Env /\ child[f] # f
      /\ \A f \in Env : fault[f].at # "none" => fault[f].va \in VA
  BY <1>1, Ranges DEF TypeInv
<1>3. pc[e] = "upcall" /\ fault[e].at = "none" /\ pc' = [pc EXCEPT ![e] = "status"]
  BY DEF ForkUpcall, Goto, InMain
<1>4. upcall' \in [Env -> BOOLEAN] /\ UNCHANGED <<pt, data, fault, child, addr, pte, view>>
  BY <1>1 DEF ForkUpcall, forkVars, TypeInv, ControlTypes
<1>5. child[e] \in Env
  BY <1>1, <1>3 DEF TypeInv, ControlTypes, ChildInv, ForkPc
<1>6. pc' \in [Env -> Pc] /\ \A f \in Env : pc'[f] = IF f = e THEN "status" ELSE pc[f]
  BY <1>1, <1>3, <1>4 DEF TypeInv, ControlTypes, Pc, ForkPc
<1>7. TypeInv'
  BY <1>1, <1>2, <1>3, <1>4, <1>5, <1>6 DEF TypeInv, ControlTypes, Pc, ForkPc, LoopPc
<1>8. EmptyInv'
  BY <1>1, <1>2, <1>3, <1>4, <1>5, <1>6 DEF EmptyInv, ChildInv, Pc, ForkPc, LoopPc
<1>9. DupInv'
  BY <1>1, <1>2, <1>3, <1>4, <1>5, <1>6 DEF DupInv, ChildInv, Pc, ForkPc, LoopPc
<1>10. CopyInv'
  BY <1>1, <1>2, <1>3, <1>4, <1>5, <1>6 DEF CopyInv, Pc, ForkPc, LoopPc
<1>11. PrivateInv'
  BY <1>1, <1>2, <1>3, <1>4, <1>5, <1>6 DEF PrivateInv, ChildInv, Pc, ForkPc, LoopPc
<1>12. CopiedInv'
  BY <1>1, <1>2, <1>3, <1>4, <1>5, <1>6 DEF CopiedInv, Pc, ForkPc, LoopPc
<1>13. ForkCopies'
  BY <1>1, <1>2, <1>3, <1>4, <1>5, <1>6 DEF ForkCopies, Complete, Running, ChildInv, Pc, ForkPc, LoopPc
<1> QED
  BY <1>7, <1>8, <1>9, <1>10, <1>11, <1>12, <1>13 DEF ForkInv, MapInv

\* sys_env_set_status: the child runs.
LEMMA StatusStep ==
  ASSUME ControlInv, ForkInv, NEW e \in Env, ForkStatus(e)
  PROVE  ForkInv'
<1>1. /\ TypeInv /\ ChildInv /\ FaultInv /\ UpcallInv /\ EmptyInv /\ DupInv /\ CopyInv
      /\ PrivateInv /\ CopiedInv /\ ForkCopies
  BY DEF ControlInv, ForkInv, MapInv
<1>2. /\ PFTEMP \in Page /\ PFTEMP \notin VA /\ VA \subseteq Page /\ Stack \in VA
      /\ VA \subseteq Own /\ Own \subseteq Page /\ PFTEMP \notin Own
      /\ \A f \in Env : pc[f] \in LoopPc => addr[f] \in VA
      /\ \A f \in Env : pc[f] \in ForkPc => child[f] \in Env /\ child[f] # f
      /\ \A f \in Env : fault[f].at # "none" => fault[f].va \in VA
  BY <1>1, Ranges DEF TypeInv
<1>3. /\ pc[e] = "status" /\ fault[e].at = "none" /\ child[e] \in Env /\ addr[e] = 0
      /\ pc[child[e]] = "child" /\ child[e] # e /\ child[child[e]] = NoEnv
  BY <1>1, SizeAssumption DEF ForkStatus, InMain, TypeInv, ControlTypes, ChildInv, ForkPc, LoopPc
<1>4. /\ pc' = [pc EXCEPT ![e] = "user", ![child[e]] = "user"]
      /\ child' = [child EXCEPT ![e] = NoEnv]
      /\ UNCHANGED <<pt, data, fault, addr, pte, upcall, view>>
  BY DEF ForkStatus
<1>5. /\ pc' \in [Env -> Pc] /\ child' \in [Env -> Env \cup {NoEnv}]
      /\ \A f \in Env : pc'[f] = IF f = e \/ f = child[e] THEN "user" ELSE pc[f]
      /\ \A f \in Env : child'[f] = IF f = e THEN NoEnv ELSE child[f]
  BY <1>1, <1>3, <1>4 DEF TypeInv, ControlTypes, Pc
<1>6. TypeInv'
  BY <1>1, <1>2, <1>3, <1>4, <1>5 DEF TypeInv, ControlTypes, Pc, ForkPc, LoopPc
<1>7. EmptyInv'
  BY <1>1, <1>2, <1>3, <1>4, <1>5 DEF EmptyInv, ChildInv, Pc, ForkPc, LoopPc
<1>8. DupInv'
  BY <1>1, <1>2, <1>3, <1>4, <1>5 DEF DupInv, ChildInv, Pc, ForkPc, LoopPc
<1>9. CopyInv'
  BY <1>1, <1>2, <1>3, <1>4, <1>5 DEF CopyInv, Pc, ForkPc, LoopPc
<1>10. PrivateInv'
  BY <1>1, <1>2, <1>3, <1>4, <1>5 DEF PrivateInv, ChildInv, Pc, ForkPc, LoopPc
<1>11. CopiedInv'
  BY <1>1, <1>2, <1>3, <1>4, <1>5 DEF CopiedInv, Pc, ForkPc, LoopPc
<1>12. ForkCopies'
  BY <1>1, <1>2, <1>3, <1>4, <1>5 DEF ForkCopies, Complete, Running, ChildInv, Pc, ForkPc, LoopPc
<1> QED
  BY <1>6, <1>7, <1>8, <1>9, <1>10, <1>11, <1>12 DEF ForkInv, MapInv

\* sys_exofork: a free slot becomes the child.
LEMMA ExoforkStep ==
  ASSUME ControlInv, ForkInv, NEW e \in Env, NEW c \in Env, ForkExofork(e, c)
  PROVE  ForkInv'
<1>1. /\ TypeInv /\ ChildInv /\ FaultInv /\ UpcallInv /\ EmptyInv /\ DupInv /\ CopyInv
      /\ PrivateInv /\ CopiedInv /\ ForkCopies
  BY DEF ControlInv, ForkInv, MapInv
<1>2. /\ PFTEMP \in Page /\ PFTEMP \notin VA /\ VA \subseteq Page /\ Stack \in VA
      /\ VA \subseteq Own /\ Own \subseteq Page /\ PFTEMP \notin Own
      /\ \A f \in Env : pc[f] \in LoopPc => addr[f] \in VA
      /\ \A f \in Env : pc[f] \in ForkPc => child[f] \in Env /\ child[f] # f
      /\ \A f \in Env : fault[f].at # "none" => fault[f].va \in VA
  BY <1>1, Ranges DEF TypeInv
<1>3. pc[e] = "exofork" /\ fault[e].at = "none" /\ pc[c] = "free" /\ c # e
  BY DEF ForkExofork, InMain
<1>4. c # NoEnv /\ 1 \in VA /\ 1 \in Addr /\ 1 # 0 /\ \A va \in VA : ~(va < 1)
  BY SizeAssumption, EnvAssumption DEF VA, Addr
<1>5. child[e] = NoEnv /\ child[c] = NoEnv /\ \A f \in Env : child[f] # c
  BY <1>1, <1>3, <1>4 DEF ChildInv, ForkPc, LoopPc
<1>6. /\ pc' = [pc EXCEPT ![e] = "read", ![c] = "child"]
      /\ child' = [child EXCEPT ![e] = c] /\ addr' = [addr EXCEPT ![e] = 1]
      /\ UNCHANGED <<pt, data, fault, pte, upcall, view>>
  BY DEF ForkExofork
<1>7. /\ pc' \in [Env -> Pc] /\ \A f \in Env : pc'[f] = IF f = e THEN "read" ELSE IF f = c THEN "child" ELSE pc[f]
  BY <1>1, <1>3, <1>6 DEF TypeInv, ControlTypes, Pc, ForkPc, LoopPc
<1>8. /\ child' \in [Env -> Env \cup {NoEnv}] /\ addr' \in [Env -> Addr]
      /\ \A f \in Env : child'[f] = IF f = e THEN c ELSE child[f]
      /\ \A f \in Env : addr'[f] = IF f = e THEN 1 ELSE addr[f]
  BY <1>1, <1>2, <1>4, <1>6 DEF TypeInv, ControlTypes
<1>9. TypeInv'
  BY <1>1, <1>2, <1>3, <1>4, <1>5, <1>6, <1>7, <1>8 DEF TypeInv, ControlTypes, Pc, ForkPc, LoopPc
<1>10. EmptyInv'
  BY <1>1, <1>2, <1>3, <1>4, <1>5, <1>6, <1>7, <1>8 DEF EmptyInv, ChildInv, Pc, ForkPc, LoopPc
<1>11. DupInv'
  BY <1>1, <1>2, <1>3, <1>4, <1>5, <1>6, <1>7, <1>8 DEF DupInv, ChildInv, Pc, ForkPc, LoopPc
<1>12. CopyInv'
  BY <1>1, <1>2, <1>3, <1>4, <1>5, <1>6, <1>7, <1>8 DEF CopyInv, Pc, ForkPc, LoopPc
<1>13. PrivateInv'
  BY <1>1, <1>2, <1>3, <1>4, <1>5, <1>6, <1>7, <1>8 DEF PrivateInv, ChildInv, Pc, ForkPc, LoopPc
<1>14. CopiedInv'
  BY <1>1, <1>2, <1>3, <1>4, <1>5, <1>6, <1>7, <1>8 DEF CopiedInv, Pc, ForkPc, LoopPc
<1>15. ForkCopies'
  BY <1>1, <1>2, <1>3, <1>4, <1>5, <1>6, <1>7, <1>8 DEF ForkCopies, Complete, Running, ChildInv, Pc, ForkPc, LoopPc
<1> QED
  BY <1>9, <1>10, <1>11, <1>12, <1>13, <1>14, <1>15 DEF ForkInv, MapInv

\* pgfault finds a copy-on-write page.
LEMMA CheckStep ==
  ASSUME ControlInv, ForkInv, NEW e \in Env, PgfaultCheck(e), Served(e) /\ pt[e][fault[e].va].cow
  PROVE  ForkInv'
<1>1. /\ TypeInv /\ ChildInv /\ FaultInv /\ UpcallInv /\ EmptyInv /\ DupInv /\ CopyInv
      /\ PrivateInv /\ CopiedInv /\ ForkCopies
  BY DEF ControlInv, ForkInv, MapInv
<1>2. /\ PFTEMP \in Page /\ PFTEMP \notin VA /\ VA \subseteq Page /\ Stack \in VA
      /\ VA \subseteq Own /\ Own \subseteq Page /\ PFTEMP \notin Own
      /\ \A f \in Env : pc[f] \in LoopPc => addr[f] \in VA
      /\ \A f \in Env : pc[f] \in ForkPc => child[f] \in Env /\ child[f] # f
      /\ \A f \in Env : fault[f].at # "none" => fault[f].va \in VA
  BY <1>1, Ranges DEF TypeInv
<1>3. fault[e].at = "check" /\ FaultStep(e, "check", "alloc") /\ UNCHANGED <<pt, data, pc, child, addr, pte, upcall, view>>
  BY DEF PgfaultCheck, forkVars
<1>4. /\ fault' \in [Env -> [va : Page, at : At]]
      /\ \A f \in Env : fault'[f].va = fault[f].va /\ fault'[f].at = IF f = e THEN "alloc" ELSE fault[f].at
  BY <1>1, <1>3 DEF FaultStep, TypeInv, ControlTypes, At
<1>5. TypeInv'
  BY <1>1, <1>2, <1>3, <1>4 DEF TypeInv, ControlTypes, Running, ForkPc, LoopPc
<1>6. EmptyInv'
  BY <1>1, <1>2, <1>3, <1>4 DEF EmptyInv, ChildInv, Running, ForkPc, LoopPc
<1>7. DupInv'
  BY <1>1, <1>2, <1>3, <1>4 DEF DupInv, ChildInv, Running, ForkPc, LoopPc
<1>8. CopyInv'
  BY <1>1, <1>2, <1>3, <1>4 DEF CopyInv, Running, ForkPc, LoopPc
<1>9. PrivateInv'
  BY <1>1, <1>2, <1>3, <1>4 DEF PrivateInv, ChildInv, Running, ForkPc, LoopPc
<1>10. CopiedInv'
  BY <1>1, <1>2, <1>3, <1>4 DEF CopiedInv, Running, ForkPc, LoopPc
<1>11. ForkCopies'
  BY <1>1, <1>2, <1>3, <1>4 DEF ForkCopies, Complete, Running, ChildInv, Running, ForkPc, LoopPc
<1> QED
  BY <1>5, <1>6, <1>7, <1>8, <1>9, <1>10, <1>11 DEF ForkInv, MapInv

\* pgfault allocates the page for the copy.
LEMMA AllocStep ==
  ASSUME ControlInv, ForkInv, NEW e \in Env, PgfaultAlloc(e), ~stray'
  PROVE  ForkInv'
<1>1. /\ TypeInv /\ ChildInv /\ FaultInv /\ UpcallInv /\ EmptyInv /\ DupInv /\ CopyInv
      /\ PrivateInv /\ CopiedInv /\ ForkCopies
  BY DEF ControlInv, ForkInv, MapInv
<1>2. /\ PFTEMP \in Page /\ PFTEMP \notin VA /\ VA \subseteq Page /\ Stack \in VA
      /\ VA \subseteq Own /\ Own \subseteq Page /\ PFTEMP \notin Own
      /\ \A f \in Env : pc[f] \in LoopPc => addr[f] \in VA
      /\ \A f \in Env : pc[f] \in ForkPc => child[f] \in Env /\ child[f] # f
      /\ \A f \in Env : fault[f].at # "none" => fault[f].va \in VA
  BY <1>1, Ranges DEF TypeInv
<1>3. /\ fault[e].at = "alloc" /\ FaultStep(e, "alloc", "copy") /\ sys_page_alloc(e, PFTEMP)
      /\ UNCHANGED <<pc, child, addr, pte, upcall, view>>
  BY DEF PgfaultAlloc, FaultStep, forkVars
<1>4. /\ fault' \in [Env -> [va : Page, at : At]]
      /\ \A f \in Env : fault'[f].va = fault[f].va /\ fault'[f].at = IF f = e THEN "copy" ELSE fault[f].at
  BY <1>1, <1>3 DEF FaultStep, TypeInv, ControlTypes, At
<1>5. PICK n \in Entry :
        /\ n.frame # 0 /\ n.w = TRUE /\ n.cow = FALSE
        /\ \A f \in Env, vb \in Page : f # e \/ vb # PFTEMP => pt[f][vb].frame # n.frame
        /\ pt' \in [Env -> [Page -> Entry]] /\ data' \in [Frame -> Value]
        /\ \A f \in Env, vb \in Page : pt'[f][vb] = IF f = e /\ vb = PFTEMP THEN n ELSE pt[f][vb]
        /\ \A f \in Env, vb \in Page :
             pt[f][vb].frame # 0 /\ (f # e \/ vb # PFTEMP) => data'[pt[f][vb].frame] = data[pt[f][vb].frame]
  <2>1. TypeInv /\ PFTEMP \in Page /\ sys_page_alloc(e, PFTEMP)
    BY <1>1, <1>2, <1>3
  <2> QED
    BY <2>1, AllocEffect
<1>6. /\ \A f \in Env, vb \in VA : pt'[f][vb] = pt[f][vb]
      /\ \A f \in Env, vb \in VA : pt[f][vb].frame # 0 => data'[pt[f][vb].frame] = data[pt[f][vb].frame]
      /\ pt'[e][PFTEMP] = n /\ \A f \in Env \ {e}, vb \in Page : pt'[f][vb] = pt[f][vb]
  BY <1>2, <1>5
<1>7. pc[e] # "free"
  BY <1>1, <1>3 DEF FaultInv, Running
<1>8. TypeInv'
  BY <1>1, <1>2, <1>3, <1>4, <1>5, <1>6, <1>7 DEF TypeInv, ControlTypes, Running, ForkPc, LoopPc
<1>9. EmptyInv'
  <2>1. \A f \in Env, vb \in Page : pt'[f][vb].frame = 0 => ~pt'[f][vb].w /\ ~pt'[f][vb].cow
    BY <1>1, <1>5 DEF EmptyInv
  <2>2. \A f \in Env, vb \in Page : pc[f] = "free" => pt'[f][vb].frame = 0
    BY <1>1, <1>6, <1>7 DEF EmptyInv
  <2>3. \A f \in Env, vb \in VA :
          pc[f] \in LoopPc /\ (vb > addr[f] \/ (vb = addr[f] /\ pc[f] # "map2")) => pt'[child[f]][vb].frame = 0
    BY <1>1, <1>2, <1>6 DEF EmptyInv, ForkPc
  <2> QED
    BY <1>3, <2>1, <2>2, <2>3 DEF EmptyInv
<1>10. DupInv'
  BY <1>1, <1>2, <1>3, <1>6 DEF DupInv, ForkPc, LoopPc
<1>11. CopyInv'
  <2>1. ASSUME NEW f \in Env, fault'[f].at \in {"alloc", "copy", "map"} PROVE pt'[f][fault'[f].va].cow
    BY <1>1, <1>2, <1>3, <1>4, <1>6, <2>1 DEF CopyInv
  <2>2. ASSUME NEW f \in Env, fault'[f].at \in {"copy", "map"}
        PROVE  /\ pt'[f][PFTEMP].frame # 0
               /\ \A g \in Env, vb \in Page :
                    pt'[g][vb].frame = pt'[f][PFTEMP].frame => g = f /\ vb = PFTEMP
    <3>1. CASE f = e
      BY <1>5, <1>6, <3>1
    <3>2. CASE f # e
      <4>1. fault[f].at \in {"copy", "map"} /\ pt'[f][PFTEMP] = pt[f][PFTEMP]
        BY <1>2, <1>4, <1>6, <2>2, <3>2
      <4>2. /\ pt[f][PFTEMP].frame # 0
            /\ \A g \in Env, vb \in Page :
                 pt[g][vb].frame = pt[f][PFTEMP].frame => g = f /\ vb = PFTEMP
        BY <1>1, <4>1 DEF CopyInv
      <4>3. n.frame # pt[f][PFTEMP].frame
        BY <1>2, <1>5, <3>2
      <4> QED
        BY <1>5, <4>1, <4>2, <4>3
    <3> QED
      BY <3>1, <3>2
  <2> QED
    BY <2>1, <2>2 DEF CopyInv
<1>12. PrivateInv'
  <2> SUFFICES ASSUME NEW f \in Env, NEW g \in Env, NEW vf \in Own, NEW vg \in Page,
                      pt'[f][vf].w, pt'[f][vf].frame = pt'[g][vg].frame, <<f, vf>> # <<g, vg>>
               PROVE  \/ child[f] = g /\ vf = vg /\ addr[f] = vf /\ pc[f] = "map2"
                      \/ g = f /\ vg = PFTEMP
    BY <1>3 DEF PrivateInv
  <2>1. pt'[f][vf] = pt[f][vf] /\ pt[f][vf].frame # n.frame
    BY <1>2, <1>5
  <2>2. pt'[g][vg] = pt[g][vg]
    BY <1>5, <2>1
  <2> QED
    BY <1>1, <2>1, <2>2 DEF PrivateInv
<1>13. CopiedInv'
  <2> SUFFICES ASSUME NEW f \in Env, fault'[f].at = "map"
               PROVE  data'[pt'[f][PFTEMP].frame] = view'[f][fault'[f].va]
    BY DEF CopiedInv
  <2>1. f # e /\ fault[f].at = "map" /\ fault'[f].va = fault[f].va
    BY <1>4
  <2>2. pt'[f][PFTEMP] = pt[f][PFTEMP] /\ pt[f][PFTEMP].frame # 0
    BY <1>1, <1>2, <1>6, <2>1 DEF CopyInv
  <2>3. data'[pt[f][PFTEMP].frame] = data[pt[f][PFTEMP].frame]
    BY <1>2, <1>5, <2>1, <2>2
  <2> QED
    BY <1>1, <1>3, <2>1, <2>2, <2>3 DEF CopiedInv
<1>14. ForkCopies'
  BY <1>1, <1>2, <1>3, <1>6 DEF ForkCopies, Complete, Running
<1> QED
  BY <1>8, <1>9, <1>10, <1>11, <1>12, <1>13, <1>14 DEF ForkInv, MapInv

\* pgfault copies the page: nobody else sees where to.
LEMMA CopyStep ==
  ASSUME ControlInv, ForkInv, NEW e \in Env, PgfaultCopy(e)
  PROVE  ForkInv'
<1> DEFINE v == fault[e].va
           t == pt[e][PFTEMP].frame
           s == pt[e][v].frame
<1>1. /\ TypeInv /\ ChildInv /\ FaultInv /\ UpcallInv /\ EmptyInv /\ DupInv /\ CopyInv
      /\ PrivateInv /\ CopiedInv /\ ForkCopies
  BY DEF ControlInv, ForkInv, MapInv
<1>2. /\ PFTEMP \in Page /\ PFTEMP \notin VA /\ VA \subseteq Page /\ Stack \in VA
      /\ VA \subseteq Own /\ Own \subseteq Page /\ PFTEMP \notin Own
      /\ \A f \in Env : pc[f] \in LoopPc => addr[f] \in VA
      /\ \A f \in Env : pc[f] \in ForkPc => child[f] \in Env /\ child[f] # f
      /\ \A f \in Env : fault[f].at # "none" => fault[f].va \in VA
  BY <1>1, Ranges DEF TypeInv
<1>3. /\ fault[e].at = "copy" /\ FaultStep(e, "copy", "map") /\ UNCHANGED <<pt, pc, child, addr, pte, upcall, view>>
      /\ data' = [data EXCEPT ![t] = data[s]]
  BY DEF PgfaultCopy, FaultStep, forkVars
<1>4. /\ fault' \in [Env -> [va : Page, at : At]]
      /\ \A f \in Env : fault'[f].va = fault[f].va /\ fault'[f].at = IF f = e THEN "map" ELSE fault[f].at
  BY <1>1, <1>3 DEF FaultStep, TypeInv, ControlTypes, At
<1>5. /\ v \in VA /\ Running(e) /\ pt[e][v].cow /\ pt[e][v] \in Entry /\ pt[e][PFTEMP] \in Entry /\ t # 0
      /\ \A f \in Env, vb \in Page : pt[f][vb].frame = t => f = e /\ vb = PFTEMP
  BY <1>1, <1>2, <1>3 DEF FaultInv, CopyInv, TypeInv, ControlTypes
<1>6. s # 0
  BY <1>1, <1>2, <1>5 DEF EmptyInv
<1>7. t \in Frame /\ s \in Frame
  BY <1>5, <1>6, SizeAssumption DEF Entry, Frame
<1>8. /\ data' \in [Frame -> Value] /\ data'[t] = data[s] /\ \A x \in Frame \ {t} : data'[x] = data[x]
  BY <1>1, <1>3, <1>7 DEF TypeInv, ControlTypes
<1>9. data[s] = view[e][v]
  BY <1>1, <1>5, <1>6 DEF ForkCopies, Complete
<1>10. \A f \in Env, vb \in Page :
         pt[f][vb].frame # 0 /\ (f # e \/ vb # PFTEMP) => data'[pt[f][vb].frame] = data[pt[f][vb].frame]
  <2> SUFFICES ASSUME NEW f \in Env, NEW vb \in Page, pt[f][vb].frame # 0, f # e \/ vb # PFTEMP
               PROVE  data'[pt[f][vb].frame] = data[pt[f][vb].frame]
    OBVIOUS
  <2>1. pt[f][vb] \in Entry
    BY <1>1 DEF TypeInv, ControlTypes
  <2>2. pt[f][vb].frame \in Frame \ {t}
    BY <1>5, <2>1, SizeAssumption DEF Entry, Frame
  <2> QED
    BY <1>8, <2>2
<1> HIDE DEF t, s, v
<1>11. TypeInv'
  BY <1>1, <1>2, <1>3, <1>4, <1>5, <1>6, <1>7, <1>8, <1>9, <1>10 DEF TypeInv, ControlTypes, Running, ForkPc, LoopPc
<1>12. EmptyInv'
  BY <1>1, <1>2, <1>3, <1>4, <1>5, <1>6, <1>7, <1>8, <1>9, <1>10 DEF EmptyInv, ChildInv, Running, ForkPc, LoopPc
<1>13. DupInv'
  BY <1>1, <1>2, <1>3, <1>4, <1>5, <1>6, <1>7, <1>8, <1>9, <1>10 DEF DupInv, ChildInv, Running, ForkPc, LoopPc
<1>14. CopyInv'
  BY <1>1, <1>2, <1>3, <1>4, <1>5, <1>6, <1>7, <1>8, <1>9, <1>10 DEF CopyInv, Running, ForkPc, LoopPc
<1>15. PrivateInv'
  BY <1>1, <1>2, <1>3, <1>4, <1>5, <1>6, <1>7, <1>8, <1>9, <1>10 DEF PrivateInv, ChildInv, Running, ForkPc, LoopPc
<1>16. CopiedInv'
  <2> SUFFICES ASSUME NEW f \in Env, fault'[f].at = "map"
               PROVE  data'[pt[f][PFTEMP].frame] = view[f][fault[f].va]
    BY <1>3, <1>4 DEF CopiedInv
  <2>1. CASE f = e
    BY <1>8, <1>9, <2>1 DEF t, v
  <2>2. CASE f # e
    BY <1>1, <1>2, <1>4, <1>10, <2>2 DEF CopiedInv, CopyInv
  <2> QED
    BY <2>1, <2>2
<1>17. ForkCopies'
  <2> SUFFICES ASSUME NEW f \in Env, NEW vb \in VA, Complete(f, vb)
               PROVE  data'[pt[f][vb].frame] = view[f][vb]
    BY <1>3 DEF ForkCopies, Complete, Running
  <2>1. pt[f][vb].frame # 0
    BY DEF Complete
  <2> QED
    BY <1>1, <1>2, <1>10, <2>1 DEF ForkCopies
<1> QED
  BY <1>11, <1>12, <1>13, <1>14, <1>15, <1>16, <1>17 DEF ForkInv, MapInv

\* pgfault puts the copy, which only this environment has, in place of the page.
LEMMA MapStep ==
  ASSUME ControlInv, ForkInv, NEW e \in Env, PgfaultMap(e)
  PROVE  ForkInv'
<1> DEFINE v == fault[e].va
           t == pt[e][PFTEMP].frame
           n == [frame |-> t, w |-> TRUE, cow |-> FALSE]
<1>1. /\ TypeInv /\ ChildInv /\ FaultInv /\ UpcallInv /\ EmptyInv /\ DupInv /\ CopyInv
      /\ PrivateInv /\ CopiedInv /\ ForkCopies
  BY DEF ControlInv, ForkInv, MapInv
<1>2. /\ PFTEMP \in Page /\ PFTEMP \notin VA /\ VA \subseteq Page /\ Stack \in VA
      /\ VA \subseteq Own /\ Own \subseteq Page /\ PFTEMP \notin Own
      /\ \A f \in Env : pc[f] \in LoopPc => addr[f] \in VA
      /\ \A f \in Env : pc[f] \in ForkPc => child[f] \in Env /\ child[f] # f
      /\ \A f \in Env : fault[f].at # "none" => fault[f].va \in VA
  BY <1>1, Ranges DEF TypeInv
<1>3. /\ fault[e].at = "map" /\ FaultStep(e, "map", "none") /\ UNCHANGED <<pc, child, addr, pte, upcall, view>>
      /\ sys_page_map(e, PFTEMP, e, v, TRUE, FALSE)
  BY DEF PgfaultMap, FaultStep, forkVars
<1>4. /\ fault' \in [Env -> [va : Page, at : At]] /\ fault'[e].at = "none"
      /\ \A f \in Env \ {e} : fault'[f] = fault[f]
  BY <1>1, <1>2, <1>3 DEF FaultStep, TypeInv, ControlTypes, At, NoFault, Page, PFTEMP
<1>5. /\ v \in VA /\ v \in Page /\ v # PFTEMP /\ Running(e) /\ pt[e][v].cow /\ t # 0 /\ (pc[e] # "user" => v = Stack)
      /\ \A f \in Env, vb \in Page : pt[f][vb].frame = t => f = e /\ vb = PFTEMP
  BY <1>1, <1>2, <1>3 DEF FaultInv, CopyInv
<1>6. /\ t # 0 /\ n \in Entry /\ n.frame = t /\ n.w = TRUE /\ n.cow = FALSE
      /\ pt' \in [Env -> [Page -> Entry]] /\ data' \in [Frame -> Value]
      /\ \A f \in Env, vb \in Page : pt'[f][vb] = IF f = e /\ vb = v THEN n ELSE pt[f][vb]
      /\ \A f \in Env, vb \in Page :
           pt'[f][vb].frame # 0 => data'[pt'[f][vb].frame] = data[pt'[f][vb].frame]
  <2>1. TypeInv /\ PFTEMP \in Page /\ v \in Page /\ sys_page_map(e, PFTEMP, e, v, TRUE, FALSE)
    BY <1>1, <1>2, <1>3, <1>5
  <2> HIDE DEF v
  <2> QED
    BY <2>1, MapEffect
<1> HIDE DEF t, v, n
<1>7. /\ pt'[e][v] = n /\ \A f \in Env \ {e}, vb \in Page : pt'[f][vb] = pt[f][vb]
      /\ \A vb \in Page \ {v} : pt'[e][vb] = pt[e][vb]
  BY <1>5, <1>6
<1>8. (\A f \in Env : child[f] # e) /\ pc[e] # "free"
  BY <1>1, <1>5, EnvAssumption DEF ChildInv, Running
<1>9. TypeInv'
  BY <1>1, <1>2, <1>3, <1>4, <1>5, <1>6, <1>7, <1>8 DEF TypeInv, ControlTypes, Running, ForkPc, LoopPc
<1>10. EmptyInv'
  <2>1. \A f \in Env, vb \in Page : pt'[f][vb].frame = 0 => ~pt'[f][vb].w /\ ~pt'[f][vb].cow
    BY <1>1, <1>6 DEF EmptyInv
  <2>2. \A f \in Env, vb \in Page : pc[f] = "free" => pt'[f][vb].frame = 0
    BY <1>1, <1>7, <1>8 DEF EmptyInv
  <2>3. \A f \in Env, vb \in VA :
          pc[f] \in LoopPc /\ (vb > addr[f] \/ (vb = addr[f] /\ pc[f] # "map2")) => pt'[child[f]][vb].frame = 0
    BY <1>1, <1>2, <1>7, <1>8 DEF EmptyInv, ForkPc
  <2> QED
    BY <1>3, <2>1, <2>2, <2>3 DEF EmptyInv
<1>11. DupInv'
  <2>1. ASSUME NEW f \in Env, pc[f] = "map1", pt'[f][addr[f]].w \/ pt'[f][addr[f]].cow PROVE pte[f] # {}
    <3>1. addr[f] \in Page
      BY <1>2, <2>1 DEF LoopPc
    <3>2. CASE f = e /\ addr[f] = v
      BY <1>1, <1>5, <2>1, <3>2 DEF DupInv
    <3>3. CASE ~(f = e /\ addr[f] = v)
      <4>1. pt'[f][addr[f]] = pt[f][addr[f]]
        BY <1>6, <3>1, <3>3
      <4> QED
        BY <1>1, <2>1, <4>1 DEF DupInv
    <3> QED
      BY <3>2, <3>3
  <2>2. ASSUME NEW f \in Env, pc[f] = "map2", addr[f] # Stack
        PROVE  pt'[child[f]][addr[f]].frame = pt'[f][addr[f]].frame
    <3>1. addr[f] \in Page /\ child[f] \in Env /\ child[f] # e /\ (f = e => addr[f] # v)
      BY <1>2, <1>5, <1>8, <2>2 DEF LoopPc, ForkPc
    <3>2. pt'[f][addr[f]] = pt[f][addr[f]] /\ pt'[child[f]][addr[f]] = pt[child[f]][addr[f]]
      BY <1>7, <3>1
    <3> QED
      BY <1>1, <2>2, <3>2 DEF DupInv
  <2>3. ASSUME NEW f \in Env, pc[f] = "map2" PROVE pt'[child[f]][addr[f]].frame # 0
    <3>1. addr[f] \in Page /\ child[f] \in Env /\ child[f] # e
      BY <1>2, <1>8, <2>3 DEF LoopPc, ForkPc
    <3> QED
      BY <1>1, <1>7, <2>3, <3>1 DEF DupInv
  <2> QED
    BY <1>3, <2>1, <2>2, <2>3 DEF DupInv
<1>12. CopyInv'
  <2> SUFFICES ASSUME NEW f \in Env, fault'[f].at \in {"alloc", "copy", "map"}
               PROVE  /\ pt'[f][fault'[f].va].cow
                      /\ fault'[f].at \in {"copy", "map"} =>
                           /\ pt'[f][PFTEMP].frame # 0
                           /\ \A g \in Env, vb \in Page :
                                pt'[g][vb].frame = pt'[f][PFTEMP].frame => g = f /\ vb = PFTEMP
    BY DEF CopyInv
  <2>1. f # e /\ fault'[f] = fault[f]
    BY <1>4
  <2>2. pt'[f][PFTEMP] = pt[f][PFTEMP] /\ pt'[f][fault'[f].va] = pt[f][fault[f].va]
    BY <1>2, <1>7, <2>1
  <2>3. pt'[f][fault'[f].va].cow
    BY <1>1, <2>1, <2>2 DEF CopyInv
  <2>4. ASSUME fault[f].at \in {"copy", "map"}
        PROVE  /\ pt[f][PFTEMP].frame # 0
               /\ \A g \in Env, vb \in Page : pt'[g][vb].frame = pt[f][PFTEMP].frame => g = f /\ vb = PFTEMP
    <3>1. /\ pt[f][PFTEMP].frame # 0
          /\ \A g \in Env, vb \in Page : pt[g][vb].frame = pt[f][PFTEMP].frame => g = f /\ vb = PFTEMP
      BY <1>1, <2>4 DEF CopyInv
    <3>2. pt[f][PFTEMP].frame # t
      BY <1>2, <1>5, <2>1
    <3> QED
      BY <1>6, <3>1, <3>2
  <2> QED
    BY <2>1, <2>2, <2>3, <2>4
<1>13. PrivateInv'
  <2> SUFFICES ASSUME NEW f \in Env, NEW g \in Env, NEW vf \in Own, NEW vg \in Page,
                      pt'[f][vf].w, pt'[f][vf].frame = pt'[g][vg].frame, <<f, vf>> # <<g, vg>>
               PROVE  \/ child[f] = g /\ vf = vg /\ addr[f] = vf /\ pc[f] = "map2"
                      \/ g = f /\ vg = PFTEMP
    BY <1>3 DEF PrivateInv
  <2>1. ASSUME NEW h \in Env, NEW vh \in Page, pt'[h][vh].frame = t
        PROVE  h = e /\ (vh = v \/ vh = PFTEMP)
    BY <1>2, <1>5, <1>6, <2>1
  <2>2. CASE pt'[f][vf].frame = t
    <3>1. f = e /\ vf = v /\ g = e /\ (vg = v \/ vg = PFTEMP)
      BY <1>2, <2>1, <2>2
    <3> QED
      BY <3>1
  <2>3. CASE pt'[f][vf].frame # t
    <3>1. ~(f = e /\ vf = v) /\ ~(g = e /\ vg = v)
      BY <1>6, <1>7, <2>3
    <3>2. pt'[f][vf] = pt[f][vf] /\ pt'[g][vg] = pt[g][vg]
      BY <1>2, <1>6, <3>1
    <3> QED
      BY <1>1, <3>2 DEF PrivateInv
  <2> QED
    BY <2>2, <2>3
<1>14. CopiedInv'
  <2> SUFFICES ASSUME NEW f \in Env, fault'[f].at = "map"
               PROVE  data'[pt'[f][PFTEMP].frame] = view[f][fault'[f].va]
    BY <1>3 DEF CopiedInv
  <2>1. f # e /\ fault'[f] = fault[f]
    BY <1>4
  <2>2. pt'[f][PFTEMP] = pt[f][PFTEMP] /\ pt[f][PFTEMP].frame # 0
    BY <1>1, <1>2, <1>7, <2>1 DEF CopyInv
  <2>3. data'[pt[f][PFTEMP].frame] = data[pt[f][PFTEMP].frame]
    BY <1>2, <1>6, <2>2
  <2> QED
    BY <1>1, <2>1, <2>2, <2>3 DEF CopiedInv
<1>15. ForkCopies'
  <2> SUFFICES ASSUME NEW f \in Env, NEW vb \in VA, Complete(f, vb)'
               PROVE  data'[pt'[f][vb].frame] = view[f][vb]
    BY <1>3 DEF ForkCopies
  <2>1. pt'[f][vb].frame # 0 /\ data'[pt'[f][vb].frame] = data[pt'[f][vb].frame]
    BY <1>2, <1>6 DEF Complete
  <2>2. CASE f = e /\ vb = v
    BY <1>1, <1>3, <1>6, <1>7, <2>1, <2>2 DEF CopiedInv, t, v
  <2>3. CASE ~(f = e /\ vb = v)
    <3>1. pt'[f][vb] = pt[f][vb]
      BY <1>2, <1>6, <2>3
    <3>2. Complete(f, vb)
      BY <1>3, <3>1 DEF Complete, Running
    <3> QED
      BY <1>1, <2>1, <3>1, <3>2 DEF ForkCopies
  <2> QED
    BY <2>2, <2>3
<1> QED
  BY <1>9, <1>10, <1>11, <1>12, <1>13, <1>14, <1>15 DEF ForkInv, MapInv

\* The program gives up write access to a page: every frame stays where it is.
LEMMA ProtectStep ==
  ASSUME ControlInv, ForkInv, NEW e \in Env, NEW va \in VA, Protect(e, va)
  PROVE  ForkInv'
<1> DEFINE n == [frame |-> pt[e][va].frame, w |-> FALSE, cow |-> FALSE]
<1>1. /\ TypeInv /\ ChildInv /\ FaultInv /\ UpcallInv /\ EmptyInv /\ DupInv /\ CopyInv
      /\ PrivateInv /\ CopiedInv /\ ForkCopies
  BY DEF ControlInv, ForkInv, MapInv
<1>2. /\ PFTEMP \in Page /\ PFTEMP \notin VA /\ VA \subseteq Page /\ Stack \in VA
      /\ VA \subseteq Own /\ Own \subseteq Page /\ PFTEMP \notin Own
      /\ \A f \in Env : pc[f] \in LoopPc => addr[f] \in VA
      /\ \A f \in Env : pc[f] \in ForkPc => child[f] \in Env /\ child[f] # f
      /\ \A f \in Env : fault[f].at # "none" => fault[f].va \in VA
  BY <1>1, Ranges DEF TypeInv
<1>3. /\ pc[e] = "user" /\ fault[e].at = "none" /\ UNCHANGED <<pc, fault, child, addr, pte, upcall, view>>
      /\ sys_page_map(e, va, e, va, FALSE, FALSE)
  BY DEF Protect, InMain, forkVars
<1>4. /\ pt[e][va].frame # 0 /\ n \in Entry /\ n.frame = pt[e][va].frame /\ n.w = FALSE /\ n.cow = FALSE
      /\ pt' \in [Env -> [Page -> Entry]] /\ data' \in [Frame -> Value]
      /\ \A f \in Env, vb \in Page : pt'[f][vb] = IF f = e /\ vb = va THEN n ELSE pt[f][vb]
      /\ \A f \in Env, vb \in Page :
           pt'[f][vb].frame # 0 => data'[pt'[f][vb].frame] = data[pt'[f][vb].frame]
  <2>1. TypeInv /\ va \in Page /\ sys_page_map(e, va, e, va, FALSE, FALSE)
    BY <1>1, <1>2, <1>3
  <2> QED
    BY <2>1, MapEffect
<1> HIDE DEF n
<1>5. /\ \A f \in Env, vb \in Page : pt'[f][vb].frame = pt[f][vb].frame
      /\ \A f \in Env, vb \in Page : (pt'[f][vb].w => pt[f][vb].w) /\ (pt'[f][vb].cow => pt[f][vb].cow)
      /\ \A f \in Env \ {e}, vb \in Page : pt'[f][vb] = pt[f][vb]
      /\ \A f \in Env, vb \in Page : pt[f][vb].frame # 0 => data'[pt[f][vb].frame] = data[pt[f][vb].frame]
  BY <1>4
<1>6. TypeInv'
  BY <1>1, <1>3, <1>4 DEF TypeInv, ControlTypes
<1>7. EmptyInv'
  BY <1>1, <1>2, <1>3, <1>5 DEF EmptyInv, ForkPc
<1>8. DupInv'
  BY <1>1, <1>2, <1>3, <1>5 DEF DupInv, ForkPc, LoopPc
<1>9. CopyInv'
  BY <1>1, <1>2, <1>3, <1>5 DEF CopyInv
<1>10. PrivateInv'
  BY <1>1, <1>2, <1>3, <1>5 DEF PrivateInv
<1>11. CopiedInv'
  BY <1>1, <1>2, <1>3, <1>5 DEF CopiedInv, CopyInv
<1>12. ForkCopies'
  BY <1>1, <1>2, <1>3, <1>5 DEF ForkCopies, Complete, Running
<1> QED
  BY <1>6, <1>7, <1>8, <1>9, <1>10, <1>11, <1>12 DEF ForkInv, MapInv

\* A store to a page without PTE_W: the kernel calls the handler.
LEMMA TrapStep ==
  ASSUME ControlInv, ForkInv, NEW e \in Env, NEW va \in VA, NEW v \in Value, Write(e, va, v), ~pt[e][va].w
  PROVE  ForkInv'
<1>1. /\ TypeInv /\ ChildInv /\ FaultInv /\ UpcallInv /\ EmptyInv /\ DupInv /\ CopyInv
      /\ PrivateInv /\ CopiedInv /\ ForkCopies
  BY DEF ControlInv, ForkInv, MapInv
<1>2. /\ PFTEMP \in Page /\ PFTEMP \notin VA /\ VA \subseteq Page /\ Stack \in VA
      /\ VA \subseteq Own /\ Own \subseteq Page /\ PFTEMP \notin Own
      /\ \A f \in Env : pc[f] \in LoopPc => addr[f] \in VA
      /\ \A f \in Env : pc[f] \in ForkPc => child[f] \in Env /\ child[f] # f
      /\ \A f \in Env : fault[f].at # "none" => fault[f].va \in VA
  BY <1>1, Ranges DEF TypeInv
<1>3. /\ Running(e) /\ fault[e].at = "none" /\ (pc[e] = "user" \/ va = Stack)
      /\ fault' = [fault EXCEPT ![e] = [va |-> va, at |-> "check"]]
      /\ UNCHANGED <<pt, data, pc, child, addr, pte, upcall, view>>
  BY DEF Write, InMain, forkVars
<1>4. /\ fault' \in [Env -> [va : Page, at : At]] /\ fault'[e].va = va /\ fault'[e].at = "check"
      /\ \A f \in Env \ {e} : fault'[f] = fault[f]
  BY <1>1, <1>2, <1>3 DEF TypeInv, ControlTypes, At
<1>5. TypeInv'
  BY <1>1, <1>2, <1>3, <1>4 DEF TypeInv, ControlTypes, Running, ForkPc, LoopPc
<1>6. EmptyInv'
  BY <1>1, <1>2, <1>3, <1>4 DEF EmptyInv, ChildInv, Running, ForkPc, LoopPc
<1>7. DupInv'
  BY <1>1, <1>2, <1>3, <1>4 DEF DupInv, ChildInv, Running, ForkPc, LoopPc
<1>8. CopyInv'
  BY <1>1, <1>2, <1>3, <1>4 DEF CopyInv, Running, ForkPc, LoopPc
<1>9. PrivateInv'
  BY <1>1, <1>2, <1>3, <1>4 DEF PrivateInv, ChildInv, Running, ForkPc, LoopPc
<1>10. CopiedInv'
  BY <1>1, <1>2, <1>3, <1>4 DEF CopiedInv, Running, ForkPc, LoopPc
<1>11. ForkCopies'
  BY <1>1, <1>2, <1>3, <1>4 DEF ForkCopies, Complete, Running, ChildInv, Running, ForkPc, LoopPc
<1> QED
  BY <1>5, <1>6, <1>7, <1>8, <1>9, <1>10, <1>11 DEF ForkInv, MapInv

\* A store to a page with PTE_W: nobody else who should see the page has its frame.
LEMMA StoreStep ==
  ASSUME ControlInv, ForkInv, NEW e \in Env, NEW va \in VA, NEW v \in Value, Write(e, va, v), pt[e][va].w
  PROVE  ForkInv'
<1> DEFINE x == pt[e][va].frame
<1>1. /\ TypeInv /\ ChildInv /\ FaultInv /\ UpcallInv /\ EmptyInv /\ DupInv /\ CopyInv
      /\ PrivateInv /\ CopiedInv /\ ForkCopies
  BY DEF ControlInv, ForkInv, MapInv
<1>2. /\ PFTEMP \in Page /\ PFTEMP \notin VA /\ VA \subseteq Page /\ Stack \in VA
      /\ VA \subseteq Own /\ Own \subseteq Page /\ PFTEMP \notin Own
      /\ \A f \in Env : pc[f] \in LoopPc => addr[f] \in VA
      /\ \A f \in Env : pc[f] \in ForkPc => child[f] \in Env /\ child[f] # f
      /\ \A f \in Env : fault[f].at # "none" => fault[f].va \in VA
  BY <1>1, Ranges DEF TypeInv
<1>3. /\ Running(e) /\ fault[e].at = "none" /\ (pc[e] = "user" \/ va = Stack)
      /\ data' = [data EXCEPT ![x] = v] /\ view' = [view EXCEPT ![e][va] = v]
      /\ UNCHANGED <<pt, fault, pc, child, addr, pte, upcall>>
  BY DEF Write, InMain, forkVars
<1>4. x # 0 /\ pt[e][va] \in Entry
  BY <1>1, <1>2 DEF EmptyInv, TypeInv, ControlTypes
<1>5. x \in Frame
  BY <1>4, SizeAssumption DEF Entry, Frame
<1>6. data' \in [Frame -> Value] /\ data'[x] = v /\ \A y \in Frame \ {x} : data'[y] = data[y]
  BY <1>1, <1>3, <1>5 DEF TypeInv, ControlTypes
<1>7. /\ view' \in [Env -> [VA -> Value]]
      /\ \A f \in Env, vb \in VA : view'[f][vb] = IF f = e /\ vb = va THEN v ELSE view[f][vb]
  <2>1. view \in [Env -> [VA -> Value]]
    BY <1>1 DEF TypeInv, ControlTypes
  <2> DEFINE g == [view[e] EXCEPT ![va] = v]
  <2>2. g \in [VA -> Value] /\ \A vb \in VA : g[vb] = IF vb = va THEN v ELSE view[e][vb]
    BY <2>1
  <2>3. view' = [view EXCEPT ![e] = g]
    BY <1>3
  <2> HIDE DEF g
  <2> QED
    BY <2>1, <2>2, <2>3
<1>8. \A f \in Env, vb \in Page :
        pt[f][vb].frame # 0 /\ pt[f][vb].frame # x => data'[pt[f][vb].frame] = data[pt[f][vb].frame]
  <2> SUFFICES ASSUME NEW f \in Env, NEW vb \in Page, pt[f][vb].frame # 0, pt[f][vb].frame # x
               PROVE  data'[pt[f][vb].frame] = data[pt[f][vb].frame]
    OBVIOUS
  <2>1. pt[f][vb] \in Entry
    BY <1>1 DEF TypeInv, ControlTypes
  <2>2. pt[f][vb].frame \in Frame \ {x}
    BY <2>1, SizeAssumption DEF Entry, Frame
  <2> QED
    BY <1>6, <2>2
<1>9. TypeInv'
  BY <1>1, <1>3, <1>6, <1>7 DEF TypeInv, ControlTypes
<1>10. EmptyInv'
  BY <1>1, <1>2, <1>3, <1>4, <1>5, <1>6, <1>7, <1>8 DEF EmptyInv, ChildInv, Running, ForkPc, LoopPc
<1>11. DupInv'
  BY <1>1, <1>2, <1>3, <1>4, <1>5, <1>6, <1>7, <1>8 DEF DupInv, ChildInv, Running, ForkPc, LoopPc
<1>12. CopyInv'
  BY <1>1, <1>2, <1>3, <1>4, <1>5, <1>6, <1>7, <1>8 DEF CopyInv, Running, ForkPc, LoopPc
<1>13. PrivateInv'
  BY <1>1, <1>2, <1>3, <1>4, <1>5, <1>6, <1>7, <1>8 DEF PrivateInv, ChildInv, Running, ForkPc, LoopPc
<1>14. CopiedInv'
  <2> SUFFICES ASSUME NEW f \in Env, fault[f].at = "map"
               PROVE  data'[pt[f][PFTEMP].frame] = view'[f][fault[f].va]
    BY <1>3 DEF CopiedInv
  <2>1. f # e /\ fault[f].va \in VA /\ view'[f][fault[f].va] = view[f][fault[f].va]
    BY <1>2, <1>3, <1>7
  <2>2. pt[f][PFTEMP].frame # 0 /\ pt[f][PFTEMP].frame # x
    BY <1>1, <1>2, <2>1 DEF CopyInv
  <2> QED
    BY <1>1, <1>2, <1>8, <2>1, <2>2 DEF CopiedInv
<1>15. ForkCopies'
  <2> SUFFICES ASSUME NEW f \in Env, NEW vb \in VA, Complete(f, vb)
               PROVE  data'[pt[f][vb].frame] = view'[f][vb]
    BY <1>3 DEF ForkCopies, Complete, Running
  <2>1. CASE f = e /\ vb = va
    BY <1>6, <1>7, <2>1
  <2>2. CASE ~(f = e /\ vb = va)
    <3>1. pt[f][vb].frame # 0 /\ view'[f][vb] = view[f][vb] /\ data[pt[f][vb].frame] = view[f][vb]
      BY <1>1, <1>7, <2>2 DEF ForkCopies, Complete
    <3>2. pt[f][vb].frame # x
      <4> SUFFICES ASSUME pt[f][vb].frame = x PROVE FALSE
        OBVIOUS
      <4>1. child[e] = f /\ va = vb /\ addr[e] = va /\ pc[e] = "map2"
        BY <1>1, <1>2, <2>2 DEF PrivateInv
      <4>2. f # NoEnv /\ pc[f] = "child" /\ \A p \in Env : child[p] = f => p = e
        BY <1>1, <4>1, EnvAssumption DEF ChildInv
      <4>3. addr[e] # 0 /\ ~(va < va)
        BY <1>1, <4>1 DEF ChildInv, LoopPc, VA
      <4> QED
        BY <4>1, <4>2, <4>3 DEF Complete, Running
    <3> QED
      BY <1>2, <1>8, <3>1, <3>2
  <2> QED
    BY <2>1, <2>2
<1> QED
  BY <1>9, <1>10, <1>11, <1>12, <1>13, <1>14, <1>15 DEF ForkInv, MapInv

\* An environment that runs goes, and its pages with it; the child it was making stays as it is.
LEMMA DieStep ==
  ASSUME ControlInv, ForkInv, NEW e \in Env, Running(e), Dies(e)
  PROVE  ForkInv'
<1>1. /\ TypeInv /\ ChildInv /\ FaultInv /\ UpcallInv /\ EmptyInv /\ DupInv /\ CopyInv
      /\ PrivateInv /\ CopiedInv /\ ForkCopies
  BY DEF ControlInv, ForkInv, MapInv
<1>2. /\ PFTEMP \in Page /\ PFTEMP \notin VA /\ VA \subseteq Page /\ Stack \in VA
      /\ VA \subseteq Own /\ Own \subseteq Page /\ PFTEMP \notin Own
      /\ \A f \in Env : pc[f] \in LoopPc => addr[f] \in VA
      /\ \A f \in Env : pc[f] \in ForkPc => child[f] \in Env /\ child[f] # f
      /\ \A f \in Env : fault[f].at # "none" => fault[f].va \in VA
  BY <1>1, Ranges DEF TypeInv
<1>3. /\ Remap([pt EXCEPT ![e] = Empty], data)
      /\ pc' = [pc EXCEPT ![e] = "free"] /\ fault' = [fault EXCEPT ![e] = NoFault]
      /\ child' = [child EXCEPT ![e] = NoEnv] /\ addr' = [addr EXCEPT ![e] = 0]
      /\ pte' = [pte EXCEPT ![e] = {}] /\ upcall' = [upcall EXCEPT ![e] = FALSE]
      /\ view' = [view EXCEPT ![e] = [va \in VA |-> 0]]
  BY DEF Dies
<1>4. /\ pt' \in [Env -> [Page -> Entry]] /\ data' \in [Frame -> Value]
      /\ \A vb \in Page : pt'[e][vb].frame = 0 /\ pt'[e][vb].w = FALSE /\ pt'[e][vb].cow = FALSE
      /\ \A f \in Env \ {e}, vb \in Page : pt'[f][vb] = pt[f][vb]
      /\ \A f \in Env \ {e}, vb \in Page :
           pt[f][vb].frame # 0 => data'[pt[f][vb].frame] = data[pt[f][vb].frame]
  BY <1>1, <1>3, DieEffect
<1>5. /\ pc' \in [Env -> Pc] /\ fault' \in [Env -> [va : Page, at : At]]
      /\ fault'[e].at = "none" /\ \A f \in Env : f # e => fault'[f] = fault[f]
      /\ \A f \in Env : pc'[f] = IF f = e THEN "free" ELSE pc[f]
  BY <1>1, <1>2, <1>3 DEF TypeInv, ControlTypes, Pc, At, NoFault, PFTEMP
<1>6. /\ child' \in [Env -> Env \cup {NoEnv}] /\ addr' \in [Env -> Addr]
      /\ \A f \in Env : child'[f] = IF f = e THEN NoEnv ELSE child[f]
      /\ \A f \in Env : addr'[f] = IF f = e THEN 0 ELSE addr[f]
  BY <1>1, <1>2, <1>3 DEF TypeInv, ControlTypes, PFTEMP, Addr
<1>7. /\ pte' \in [Env -> SUBSET {"W", "COW"}] /\ upcall' \in [Env -> BOOLEAN]
      /\ \A f \in Env : f # e => pte'[f] = pte[f] /\ upcall'[f] = upcall[f]
  BY <1>1, <1>3 DEF TypeInv, ControlTypes
<1>8. view' \in [Env -> [VA -> Value]] /\ \A f \in Env \ {e} : view'[f] = view[f]
  BY <1>1, <1>3, ValueAssumption DEF TypeInv, ControlTypes
<1>9. e # NoEnv /\ \A f \in Env : child[f] # e
  BY <1>1, EnvAssumption DEF ChildInv, Running
<1>10. \A f \in Env : f # e =>
         /\ pc'[f] = pc[f] /\ fault'[f] = fault[f] /\ child'[f] = child[f] /\ addr'[f] = addr[f]
         /\ pte'[f] = pte[f] /\ upcall'[f] = upcall[f] /\ view'[f] = view[f]
  BY <1>5, <1>6, <1>7, <1>8
<1>11. \A f \in Env, vb \in Page : f # e =>
         /\ pt'[f][vb] = pt[f][vb]
         /\ pt[f][vb].frame # 0 => data'[pt[f][vb].frame] = data[pt[f][vb].frame]
  BY <1>4
<1>12. TypeInv'
  BY <1>4, <1>5, <1>6, <1>7, <1>8 DEF TypeInv, ControlTypes
<1>13. EmptyInv'
  <2>1. ASSUME NEW f \in Env, NEW vb \in Page, pt'[f][vb].frame = 0 PROVE ~pt'[f][vb].w /\ ~pt'[f][vb].cow
    BY <1>1, <1>4, <1>11, <2>1 DEF EmptyInv
  <2>2. ASSUME NEW f \in Env, NEW vb \in Page, pc'[f] = "free" PROVE pt'[f][vb].frame = 0
    BY <1>1, <1>4, <1>10, <1>11, <2>2 DEF EmptyInv
  <2>3. ASSUME NEW f \in Env, NEW vb \in VA, pc'[f] \in LoopPc,
               vb > addr'[f] \/ (vb = addr'[f] /\ pc'[f] # "map2")
        PROVE  pt'[child'[f]][vb].frame = 0
    <3>1. f # e
      BY <1>5, <2>3 DEF LoopPc
    <3>2. child'[f] = child[f] /\ child[f] \in Env /\ child[f] # e
      BY <1>2, <1>9, <1>10, <2>3, <3>1 DEF ForkPc
    <3>3. pt[child[f]][vb].frame = 0
      BY <1>1, <1>10, <2>3, <3>1 DEF EmptyInv
    <3> QED
      BY <1>2, <1>11, <3>2, <3>3
  <2> QED
    BY <2>1, <2>2, <2>3 DEF EmptyInv
<1>14. DupInv'
  <2> SUFFICES ASSUME NEW f \in Env, pc'[f] \in {"map1", "map2"}
               PROVE  /\ pc'[f] = "map1" /\ (pt'[f][addr'[f]].w \/ pt'[f][addr'[f]].cow) => pte'[f] # {}
                      /\ pc'[f] = "map2" /\ addr'[f] # Stack =>
                           pt'[child'[f]][addr'[f]].frame = pt'[f][addr'[f]].frame
                      /\ pc'[f] = "map2" => pt'[child'[f]][addr'[f]].frame # 0
    BY DEF DupInv
  <2>1. f # e
    BY <1>5
  <2>2. /\ pc'[f] = pc[f] /\ addr'[f] = addr[f] /\ child'[f] = child[f] /\ pte'[f] = pte[f]
        /\ addr[f] \in Page /\ child[f] \in Env /\ child[f] # e
    BY <1>2, <1>9, <1>10, <2>1 DEF ForkPc, LoopPc
  <2>3. pt'[f][addr'[f]] = pt[f][addr[f]] /\ pt'[child'[f]][addr'[f]] = pt[child[f]][addr[f]]
    BY <1>11, <2>1, <2>2
  <2> QED
    BY <1>1, <2>2, <2>3 DEF DupInv
<1>15. CopyInv'
  <2> SUFFICES ASSUME NEW f \in Env, fault'[f].at \in {"alloc", "copy", "map"}
               PROVE  /\ pt'[f][fault'[f].va].cow
                      /\ fault'[f].at \in {"copy", "map"} =>
                           /\ pt'[f][PFTEMP].frame # 0
                           /\ \A g \in Env, vb \in Page :
                                pt'[g][vb].frame = pt'[f][PFTEMP].frame => g = f /\ vb = PFTEMP
    BY DEF CopyInv
  <2>1. f # e
    BY <1>5
  <2>2. fault'[f] = fault[f] /\ fault[f].va \in Page
    BY <1>2, <1>10, <2>1
  <2>3. pt'[f][fault'[f].va] = pt[f][fault[f].va] /\ pt'[f][PFTEMP] = pt[f][PFTEMP]
    BY <1>2, <1>11, <2>1, <2>2
  <2>4. pt'[f][fault'[f].va].cow
    BY <1>1, <2>2, <2>3 DEF CopyInv
  <2>5. ASSUME fault[f].at \in {"copy", "map"}
        PROVE  /\ pt'[f][PFTEMP].frame # 0
               /\ \A g \in Env, vb \in Page :
                    pt'[g][vb].frame = pt'[f][PFTEMP].frame => g = f /\ vb = PFTEMP
    <3>1. /\ pt[f][PFTEMP].frame # 0
          /\ \A g \in Env, vb \in Page :
               pt[g][vb].frame = pt[f][PFTEMP].frame => g = f /\ vb = PFTEMP
      BY <1>1, <2>5 DEF CopyInv
    <3>2. \A g \in Env, vb \in Page : g # e => pt'[g][vb] = pt[g][vb]
      BY <1>11
    <3>3. \A vb \in Page : pt'[e][vb].frame = 0
      BY <1>4
    <3> QED
      BY <2>3, <3>1, <3>2, <3>3
  <2> QED
    BY <2>2, <2>4, <2>5
<1>16. PrivateInv'
  <2> SUFFICES ASSUME NEW f \in Env, NEW g \in Env, NEW vf \in Own, NEW vg \in Page,
                      pt'[f][vf].w, pt'[f][vf].frame = pt'[g][vg].frame, <<f, vf>> # <<g, vg>>
               PROVE  \/ child'[f] = g /\ vf = vg /\ addr'[f] = vf /\ pc'[f] = "map2"
                      \/ g = f /\ vg = PFTEMP
    BY DEF PrivateInv
  <2>1. f # e /\ pt'[f][vf] = pt[f][vf] /\ pt[f][vf].frame # 0
    BY <1>1, <1>2, <1>4 DEF EmptyInv
  <2>2. g # e /\ pt'[g][vg] = pt[g][vg]
    BY <1>2, <1>4, <1>11, <2>1
  <2> QED
    BY <1>1, <1>10, <2>1, <2>2 DEF PrivateInv
<1>17. CopiedInv'
  <2> SUFFICES ASSUME NEW f \in Env, fault'[f].at = "map"
               PROVE  data'[pt'[f][PFTEMP].frame] = view'[f][fault'[f].va]
    BY DEF CopiedInv
  <2>1. f # e /\ fault'[f] = fault[f] /\ view'[f] = view[f]
    BY <1>5, <1>10
  <2>2. pt'[f][PFTEMP] = pt[f][PFTEMP] /\ pt[f][PFTEMP].frame # 0
    BY <1>1, <1>2, <1>11, <2>1 DEF CopyInv
  <2> QED
    BY <1>1, <1>2, <1>11, <2>1, <2>2 DEF CopiedInv
<1>18. ForkCopies'
  <2> SUFFICES ASSUME NEW f \in Env, NEW vb \in VA, Complete(f, vb)'
               PROVE  data'[pt'[f][vb].frame] = view'[f][vb]
    BY DEF ForkCopies
  <2>1. f # e /\ pt'[f][vb] = pt[f][vb] /\ pt[f][vb].frame # 0
    BY <1>2, <1>4, <1>11 DEF Complete
  <2>2. Complete(f, vb)
    BY <1>5, <1>6, <1>9, <2>1, EnvAssumption DEF Complete, Running
  <2> QED
    BY <1>1, <1>2, <1>4, <1>8, <2>1, <2>2 DEF ForkCopies
<1> QED
  BY <1>12, <1>13, <1>14, <1>15, <1>16, <1>17, <1>18 DEF ForkInv, MapInv

\* duppage reads the entry of a page that is mapped.
LEMMA ReadStep ==
  ASSUME ControlInv, ForkInv, NEW e \in Env, DupRead(e), pt[e][addr[e]].frame # 0
  PROVE  ForkInv'
<1>1. /\ TypeInv /\ ChildInv /\ FaultInv /\ UpcallInv /\ EmptyInv /\ DupInv /\ CopyInv
      /\ PrivateInv /\ CopiedInv /\ ForkCopies
  BY DEF ControlInv, ForkInv, MapInv
<1>2. /\ PFTEMP \in Page /\ PFTEMP \notin VA /\ VA \subseteq Page /\ Stack \in VA
      /\ VA \subseteq Own /\ Own \subseteq Page /\ PFTEMP \notin Own
      /\ \A f \in Env : pc[f] \in LoopPc => addr[f] \in VA
      /\ \A f \in Env : pc[f] \in ForkPc => child[f] \in Env /\ child[f] # f
      /\ \A f \in Env : fault[f].at # "none" => fault[f].va \in VA
  BY <1>1, Ranges DEF TypeInv
<1>3. /\ pc[e] = "read" /\ fault[e].at = "none" /\ pc' = [pc EXCEPT ![e] = "map1"]
      /\ pte' = [pte EXCEPT ![e] = {bit \in {"W", "COW"} : IF bit = "W" THEN pt[e][addr[e]].w ELSE pt[e][addr[e]].cow}]
      /\ UNCHANGED <<pt, data, fault, child, addr, upcall, view>>
  BY DEF DupRead, Goto, InMain
<1>4. /\ pc' \in [Env -> Pc] /\ \A f \in Env : pc'[f] = IF f = e THEN "map1" ELSE pc[f]
  BY <1>1, <1>3 DEF TypeInv, ControlTypes, Pc, ForkPc, LoopPc
<1>5. /\ pte' \in [Env -> SUBSET {"W", "COW"}] /\ \A f \in Env \ {e} : pte'[f] = pte[f]
      /\ pt[e][addr[e]].w \/ pt[e][addr[e]].cow => pte'[e] # {}
  <2> DEFINE b == {bit \in {"W", "COW"} : IF bit = "W" THEN pt[e][addr[e]].w ELSE pt[e][addr[e]].cow}
  <2>1. b \in SUBSET {"W", "COW"} /\ (pt[e][addr[e]].w => "W" \in b) /\ (pt[e][addr[e]].cow => "COW" \in b)
    OBVIOUS
  <2>2. pte' = [pte EXCEPT ![e] = b]
    BY <1>3
  <2> HIDE DEF b
  <2> QED
    BY <1>1, <2>1, <2>2 DEF TypeInv, ControlTypes
<1>6. TypeInv'
  BY <1>1, <1>3, <1>4, <1>5 DEF TypeInv, ControlTypes
<1>7. EmptyInv'
  BY <1>1, <1>2, <1>3, <1>4, <1>5 DEF EmptyInv, ChildInv, Pc, ForkPc, LoopPc
<1>8. DupInv'
  <2>1. ASSUME NEW f \in Env, pc'[f] = "map1", pt[f][addr[f]].w \/ pt[f][addr[f]].cow PROVE pte'[f] # {}
    <3>1. CASE f = e
      BY <1>5, <2>1, <3>1
    <3>2. CASE f # e
      BY <1>1, <1>4, <1>5, <2>1, <3>2 DEF DupInv
    <3> QED
      BY <3>1, <3>2
  <2>2. \A f \in Env : pc'[f] = "map2" => pc[f] = "map2"
    BY <1>4
  <2> QED
    BY <1>1, <1>3, <2>1, <2>2 DEF DupInv
<1>9. CopyInv'
  BY <1>1, <1>2, <1>3, <1>4, <1>5 DEF CopyInv, Pc, ForkPc, LoopPc
<1>10. PrivateInv'
  BY <1>1, <1>2, <1>3, <1>4, <1>5 DEF PrivateInv, ChildInv, Pc, ForkPc, LoopPc
<1>11. CopiedInv'
  BY <1>1, <1>2, <1>3, <1>4, <1>5 DEF CopiedInv, Pc, ForkPc, LoopPc
<1>12. ForkCopies'
  BY <1>1, <1>2, <1>3, <1>4, <1>5 DEF ForkCopies, Complete, Running, ChildInv, Pc, ForkPc, LoopPc
<1> QED
  BY <1>6, <1>7, <1>8, <1>9, <1>10, <1>11, <1>12 DEF ForkInv, MapInv

\* fork passes over a page that is not mapped: the child has none there either.
LEMMA SkipStep ==
  ASSUME ControlInv, ForkInv, NEW e \in Env, DupRead(e), pt[e][addr[e]].frame = 0
  PROVE  ForkInv'
<1>1. /\ TypeInv /\ ChildInv /\ FaultInv /\ UpcallInv /\ EmptyInv /\ DupInv /\ CopyInv
      /\ PrivateInv /\ CopiedInv /\ ForkCopies
  BY DEF ControlInv, ForkInv, MapInv
<1>2. /\ PFTEMP \in Page /\ PFTEMP \notin VA /\ VA \subseteq Page /\ Stack \in VA
      /\ VA \subseteq Own /\ Own \subseteq Page /\ PFTEMP \notin Own
      /\ \A f \in Env : pc[f] \in LoopPc => addr[f] \in VA
      /\ \A f \in Env : pc[f] \in ForkPc => child[f] \in Env /\ child[f] # f
      /\ \A f \in Env : fault[f].at # "none" => fault[f].va \in VA
  BY <1>1, Ranges DEF TypeInv
<1>3. /\ pc[e] = "read" /\ fault[e].at = "none" /\ addr[e] \in VA
      /\ pc' = [pc EXCEPT ![e] = Onward(e)] /\ Advance(e)
      /\ UNCHANGED <<pt, data, fault, child, upcall, view>>
  BY <1>2 DEF DupRead, Goto, InMain, LoopPc
<1>4. /\ pc' \in [Env -> Pc] /\ addr' \in [Env -> Addr] /\ pte' \in [Env -> SUBSET {"W", "COW"}]
      /\ \A f \in Env \ {e} : pc'[f] = pc[f] /\ addr'[f] = addr[f] /\ pte'[f] = pte[f]
      /\ pc'[e] \in {"read", "xstack"} /\ (pc'[e] = "read" <=> addr'[e] # 0)
      /\ \A vb \in VA : addr'[e] # 0 /\ (vb > addr'[e] \/ vb = addr'[e]) => vb > addr[e]
      /\ \A vb \in VA : addr'[e] = 0 \/ vb < addr'[e] => vb = addr[e] \/ vb < addr[e]
  BY <1>1, <1>3, AdvanceEffect
<1>5. child[e] \in Env /\ pc[child[e]] = "child" /\ pt[child[e]][addr[e]].frame = 0
  BY <1>1, <1>2, <1>3, EnvAssumption DEF ChildInv, EmptyInv, ForkPc, LoopPc
<1>6. TypeInv'
  BY <1>1, <1>3, <1>4 DEF TypeInv, ControlTypes
<1>7. EmptyInv'
  BY <1>1, <1>2, <1>3, <1>4, <1>5 DEF EmptyInv, ChildInv, Pc, ForkPc, LoopPc
<1>8. DupInv'
  BY <1>1, <1>2, <1>3, <1>4, <1>5 DEF DupInv, ChildInv, Pc, ForkPc, LoopPc
<1>9. CopyInv'
  BY <1>1, <1>2, <1>3, <1>4, <1>5 DEF CopyInv, Pc, ForkPc, LoopPc
<1>10. PrivateInv'
  BY <1>1, <1>2, <1>3, <1>4, <1>5 DEF PrivateInv, ChildInv, Pc, ForkPc, LoopPc
<1>11. CopiedInv'
  BY <1>1, <1>2, <1>3, <1>4, <1>5 DEF CopiedInv, Pc, ForkPc, LoopPc
<1>12. ForkCopies'
  <2> SUFFICES ASSUME NEW f \in Env, NEW vb \in VA, Complete(f, vb)'
               PROVE  Complete(f, vb)
    BY <1>1, <1>3 DEF ForkCopies, Complete
  <2>1. CASE pc'[f] \notin {"free", "child"}
    BY <1>3, <1>4, <2>1 DEF Complete, Running
  <2>2. CASE \E p \in Env : child'[p] = f /\ (addr'[p] = 0 \/ vb < addr'[p])
    <3>1. PICK p \in Env : child[p] = f /\ (addr'[p] = 0 \/ vb < addr'[p])
      BY <1>3, <2>2
    <3>2. addr[p] = 0 \/ vb < addr[p]
      BY <1>3, <1>4, <1>5, <3>1 DEF Complete
    <3> QED
      BY <1>3, <3>1, <3>2 DEF Complete
  <2> QED
    BY <2>1, <2>2 DEF Complete, Running
<1> QED
  BY <1>6, <1>7, <1>8, <1>9, <1>10, <1>11, <1>12 DEF ForkInv, MapInv

\* duppage gives the child a page that is to become copy-on-write.
LEMMA FirstStep ==
  ASSUME ControlInv, ForkInv, NEW e \in Env, DupMapFirst(e), Copied(e)
  PROVE  ForkInv'
<1> DEFINE va == addr[e]
           c == child[e]
           n == [frame |-> pt[e][va].frame, w |-> FALSE, cow |-> TRUE]
<1>1. /\ TypeInv /\ ChildInv /\ FaultInv /\ UpcallInv /\ EmptyInv /\ DupInv /\ CopyInv
      /\ PrivateInv /\ CopiedInv /\ ForkCopies
  BY DEF ControlInv, ForkInv, MapInv
<1>2. /\ PFTEMP \in Page /\ PFTEMP \notin VA /\ VA \subseteq Page /\ Stack \in VA
      /\ VA \subseteq Own /\ Own \subseteq Page /\ PFTEMP \notin Own
      /\ \A f \in Env : pc[f] \in LoopPc => addr[f] \in VA
      /\ \A f \in Env : pc[f] \in ForkPc => child[f] \in Env /\ child[f] # f
      /\ \A f \in Env : fault[f].at # "none" => fault[f].va \in VA
  BY <1>1, Ranges DEF TypeInv
<1>3. /\ pc[e] = "map1" /\ fault[e].at = "none" /\ Running(e) /\ va \in VA /\ c \in Env /\ c # e /\ pc[c] = "child"
      /\ \A f \in Env : child[f] = c => f = e
  BY <1>1, <1>2, EnvAssumption DEF DupMapFirst, Goto, InMain, ChildInv, ForkPc, LoopPc
<1>4. /\ sys_page_map(e, va, c, va, FALSE, TRUE) /\ UNCHANGED <<fault, child, upcall>>
  BY DEF DupMapFirst, Target, Copied
<1>5. /\ pt[e][va].frame # 0 /\ n \in Entry /\ n.frame = pt[e][va].frame /\ n.w = FALSE /\ n.cow = TRUE
      /\ pt' \in [Env -> [Page -> Entry]] /\ data' \in [Frame -> Value]
      /\ \A f \in Env, vb \in Page : pt'[f][vb] = IF f = c /\ vb = va THEN n ELSE pt[f][vb]
      /\ \A f \in Env, vb \in Page :
           pt'[f][vb].frame # 0 => data'[pt'[f][vb].frame] = data[pt'[f][vb].frame]
  <2>1. TypeInv /\ va \in Page /\ c \in Env /\ sys_page_map(e, va, c, va, FALSE, TRUE)
    BY <1>1, <1>2, <1>3, <1>4
  <2> HIDE DEF va, c
  <2> QED
    BY <2>1, MapEffect
<1> HIDE DEF n
<1>6. /\ \A f \in Env, vb \in Page : f # c \/ vb # va => pt'[f][vb] = pt[f][vb]
      /\ pt'[c][va] = n /\ \A f \in Env : child[f] # e
  BY <1>1, <1>2, <1>3, <1>5, EnvAssumption DEF ChildInv, Running
<1>7. \A f \in Env, g \in Env, vf \in Own, vg \in Page :
        pt'[f][vf].w /\ pt'[f][vf].frame = pt'[g][vg].frame /\ <<f, vf>> # <<g, vg>> =>
          \/ f = e /\ vf = va /\ g = c /\ vg = va /\ pt[e][va].w
          \/ f # e /\ child[f] = g /\ vf = vg /\ addr[f] = vf /\ pc[f] = "map2"
          \/ g = f /\ vg = PFTEMP
  <2> SUFFICES ASSUME NEW f \in Env, NEW g \in Env, NEW vf \in Own, NEW vg \in Page,
                      pt'[f][vf].w, pt'[f][vf].frame = pt'[g][vg].frame, <<f, vf>> # <<g, vg>>
               PROVE  \/ f = e /\ vf = va /\ g = c /\ vg = va /\ pt[e][va].w
                      \/ f # e /\ child[f] = g /\ vf = vg /\ addr[f] = vf /\ pc[f] = "map2"
                      \/ g = f /\ vg = PFTEMP
    OBVIOUS
  <2>1. pt'[f][vf] = pt[f][vf]
    BY <1>2, <1>5, <1>6
  <2>2. CASE g = c /\ vg = va
    <3>1. pt[f][vf].w /\ pt[f][vf].frame = pt[e][va].frame
      BY <1>5, <1>6, <2>1, <2>2
    <3>2. f = e /\ vf = va
      BY <1>1, <1>2, <1>3, <1>6, <3>1 DEF PrivateInv
    <3> QED
      BY <2>2, <3>1, <3>2
  <2>3. CASE ~(g = c /\ vg = va)
    <3>1. pt'[g][vg] = pt[g][vg]
      BY <1>2, <1>6, <2>3
    <3>2. (child[f] = g /\ vf = vg /\ addr[f] = vf /\ pc[f] = "map2") \/ (g = f /\ vg = PFTEMP)
      BY <1>1, <2>1, <3>1 DEF PrivateInv
    <3> QED
      BY <1>3, <3>2
  <2> QED
    BY <2>2, <2>3
<1>8. /\ pc' = [pc EXCEPT ![e] = "map2"] /\ UNCHANGED <<addr, pte, view>>
      /\ pc' \in [Env -> Pc] /\ \A f \in Env : pc'[f] = IF f = e THEN "map2" ELSE pc[f]
  <2>1. pc' = [pc EXCEPT ![e] = "map2"] /\ UNCHANGED <<addr, pte, view>>
    BY DEF DupMapFirst, SecondCall, Goto
  <2> QED
    BY <1>1, <2>1 DEF TypeInv, ControlTypes, Pc, ForkPc, LoopPc
<1> HIDE DEF va, c
<1>9. TypeInv'
  BY <1>1, <1>4, <1>5, <1>8 DEF TypeInv, ControlTypes
<1>10. EmptyInv'
  <2>1. ASSUME NEW f \in Env, NEW vb \in Page, pt'[f][vb].frame = 0 PROVE ~pt'[f][vb].w /\ ~pt'[f][vb].cow
    BY <1>1, <1>5, <1>6, <2>1 DEF EmptyInv
  <2>2. ASSUME NEW f \in Env, NEW vb \in Page, pc'[f] = "free" PROVE pt'[f][vb].frame = 0
    BY <1>1, <1>3, <1>6, <1>8, <2>2 DEF EmptyInv
  <2>3. ASSUME NEW f \in Env, NEW vb \in VA, pc'[f] \in LoopPc,
               vb > addr[f] \/ (vb = addr[f] /\ pc'[f] # "map2")
        PROVE  pt'[child[f]][vb].frame = 0
    <3>1. pc[f] \in LoopPc /\ child[f] \in Env
      BY <1>2, <1>3, <1>8, <2>3 DEF LoopPc, ForkPc
    <3>2. pt[child[f]][vb].frame = 0
      BY <1>1, <1>3, <1>8, <2>3, <3>1 DEF EmptyInv
    <3>3. child[f] # c \/ vb # va
      BY <1>2, <1>3, <1>8, <2>3 DEF va, VA
    <3> QED
      BY <1>2, <1>6, <3>1, <3>2, <3>3
  <2> QED
    BY <1>4, <1>8, <2>1, <2>2, <2>3 DEF EmptyInv
<1>11. DupInv'
  <2> SUFFICES ASSUME NEW f \in Env, pc'[f] \in {"map1", "map2"}
               PROVE  /\ pc'[f] = "map1" /\ (pt'[f][addr[f]].w \/ pt'[f][addr[f]].cow) => pte[f] # {}
                      /\ pc'[f] = "map2" /\ addr[f] # Stack =>
                           pt'[child[f]][addr[f]].frame = pt'[f][addr[f]].frame
                      /\ pc'[f] = "map2" => pt'[child[f]][addr[f]].frame # 0
    BY <1>4, <1>8 DEF DupInv
  <2>1. CASE f = e
    BY <1>2, <1>3, <1>5, <1>6, <1>8, <2>1 DEF va, c
  <2>2. CASE f # e
    <3>1. pc'[f] = pc[f] /\ addr[f] \in Page /\ child[f] \in Env /\ child[f] # c /\ f # c
      BY <1>2, <1>3, <1>8, <2>2 DEF LoopPc, ForkPc
    <3>2. pt'[f][addr[f]] = pt[f][addr[f]] /\ pt'[child[f]][addr[f]] = pt[child[f]][addr[f]]
      BY <1>6, <3>1
    <3> QED
      BY <1>1, <3>1, <3>2 DEF DupInv
  <2> QED
    BY <2>1, <2>2
<1>12. CopyInv'
  <2> SUFFICES ASSUME NEW f \in Env, fault[f].at \in {"alloc", "copy", "map"}
               PROVE  /\ pt'[f][fault[f].va].cow
                      /\ fault[f].at \in {"copy", "map"} =>
                           /\ pt'[f][PFTEMP].frame # 0
                           /\ \A g \in Env, vb \in Page :
                                pt'[g][vb].frame = pt'[f][PFTEMP].frame => g = f /\ vb = PFTEMP
    BY <1>4 DEF CopyInv
  <2>1. f # c /\ fault[f].va \in Page
    BY <1>1, <1>2, <1>3 DEF FaultInv, Running
  <2>2. pt'[f][fault[f].va] = pt[f][fault[f].va] /\ pt'[f][PFTEMP] = pt[f][PFTEMP]
    BY <1>2, <1>6, <2>1
  <2>3. pt'[f][fault[f].va].cow
    BY <1>1, <2>2 DEF CopyInv
  <2>4. ASSUME fault[f].at \in {"copy", "map"}
        PROVE  /\ pt'[f][PFTEMP].frame # 0
               /\ \A g \in Env, vb \in Page :
                    pt'[g][vb].frame = pt'[f][PFTEMP].frame => g = f /\ vb = PFTEMP
    <3>1. /\ pt[f][PFTEMP].frame # 0
          /\ \A g \in Env, vb \in Page :
               pt[g][vb].frame = pt[f][PFTEMP].frame => g = f /\ vb = PFTEMP
      BY <1>1, <2>4 DEF CopyInv
    <3>2. n.frame # pt[f][PFTEMP].frame
      BY <1>2, <1>3, <1>5, <3>1
    <3> QED
      BY <1>5, <2>2, <3>1, <3>2
  <2> QED
    BY <2>3, <2>4
<1>13. PrivateInv'
  BY <1>4, <1>7, <1>8 DEF PrivateInv, va, c
<1>14. CopiedInv'
  <2> SUFFICES ASSUME NEW f \in Env, fault[f].at = "map"
               PROVE  data'[pt'[f][PFTEMP].frame] = view'[f][fault[f].va]
    BY <1>4 DEF CopiedInv
  <2>1. f # c /\ fault[f].va \in VA
    BY <1>1, <1>2, <1>3 DEF FaultInv, Running
  <2>2. pt'[f][PFTEMP] = pt[f][PFTEMP] /\ pt[f][PFTEMP].frame # 0
    BY <1>1, <1>2, <1>6, <2>1 DEF CopyInv
  <2>3. data'[pt[f][PFTEMP].frame] = data[pt[f][PFTEMP].frame]
    BY <1>2, <1>5, <2>2
  <2>4. view'[f][fault[f].va] = view[f][fault[f].va]
    BY <1>8, <2>1
  <2> QED
    BY <1>1, <2>2, <2>3, <2>4 DEF CopiedInv
<1>15. ForkCopies'
  <2> SUFFICES ASSUME NEW f \in Env, NEW vb \in VA, Complete(f, vb)'
               PROVE  data'[pt'[f][vb].frame] = view[f][vb]
    BY <1>8 DEF ForkCopies
  <2>1. f # c \/ vb # va
    <3> SUFFICES ASSUME f = c, vb = va PROVE FALSE
      OBVIOUS
    <3>1. va # 0 /\ ~(va < va)
      BY <1>3 DEF VA
    <3> QED
      BY <1>3, <1>4, <1>8, <3>1 DEF Complete, Running, va
  <2>2. pt'[f][vb] = pt[f][vb] /\ pt[f][vb].frame # 0 /\ data'[pt[f][vb].frame] = data[pt[f][vb].frame]
    BY <1>2, <1>5, <1>6, <2>1 DEF Complete
  <2>3. Complete(f, vb)
    BY <1>3, <1>4, <1>8, <2>2 DEF Complete, Running
  <2> QED
    BY <1>1, <2>2, <2>3 DEF ForkCopies
<1> QED
  BY <1>9, <1>10, <1>11, <1>12, <1>13, <1>14, <1>15 DEF ForkInv, MapInv

\* duppage shares a read-only page with the child: the page is complete.
LEMMA GiveStep ==
  ASSUME ControlInv, ForkInv, NEW e \in Env, DupMapFirst(e), ~Copied(e)
  PROVE  ForkInv'
<1> DEFINE va == addr[e]
           c == child[e]
           n == [frame |-> pt[e][va].frame, w |-> FALSE, cow |-> FALSE]
<1>1. /\ TypeInv /\ ChildInv /\ FaultInv /\ UpcallInv /\ EmptyInv /\ DupInv /\ CopyInv
      /\ PrivateInv /\ CopiedInv /\ ForkCopies
  BY DEF ControlInv, ForkInv, MapInv
<1>2. /\ PFTEMP \in Page /\ PFTEMP \notin VA /\ VA \subseteq Page /\ Stack \in VA
      /\ VA \subseteq Own /\ Own \subseteq Page /\ PFTEMP \notin Own
      /\ \A f \in Env : pc[f] \in LoopPc => addr[f] \in VA
      /\ \A f \in Env : pc[f] \in ForkPc => child[f] \in Env /\ child[f] # f
      /\ \A f \in Env : fault[f].at # "none" => fault[f].va \in VA
  BY <1>1, Ranges DEF TypeInv
<1>3. /\ pc[e] = "map1" /\ fault[e].at = "none" /\ Running(e) /\ va \in VA /\ c \in Env /\ c # e /\ pc[c] = "child"
      /\ \A f \in Env : child[f] = c => f = e
  BY <1>1, <1>2, EnvAssumption DEF DupMapFirst, Goto, InMain, ChildInv, ForkPc, LoopPc
<1>4. /\ sys_page_map(e, va, c, va, FALSE, FALSE) /\ UNCHANGED <<fault, child, upcall>>
  BY DEF DupMapFirst, Target, Copied
<1>5. /\ pt[e][va].frame # 0 /\ n \in Entry /\ n.frame = pt[e][va].frame /\ n.w = FALSE /\ n.cow = FALSE
      /\ pt' \in [Env -> [Page -> Entry]] /\ data' \in [Frame -> Value]
      /\ \A f \in Env, vb \in Page : pt'[f][vb] = IF f = c /\ vb = va THEN n ELSE pt[f][vb]
      /\ \A f \in Env, vb \in Page :
           pt'[f][vb].frame # 0 => data'[pt'[f][vb].frame] = data[pt'[f][vb].frame]
  <2>1. TypeInv /\ va \in Page /\ c \in Env /\ sys_page_map(e, va, c, va, FALSE, FALSE)
    BY <1>1, <1>2, <1>3, <1>4
  <2> HIDE DEF va, c
  <2> QED
    BY <2>1, MapEffect
<1> HIDE DEF n
<1>6. /\ \A f \in Env, vb \in Page : f # c \/ vb # va => pt'[f][vb] = pt[f][vb]
      /\ pt'[c][va] = n /\ \A f \in Env : child[f] # e
  BY <1>1, <1>2, <1>3, <1>5, EnvAssumption DEF ChildInv, Running
<1>7. \A f \in Env, g \in Env, vf \in Own, vg \in Page :
        pt'[f][vf].w /\ pt'[f][vf].frame = pt'[g][vg].frame /\ <<f, vf>> # <<g, vg>> =>
          \/ f = e /\ vf = va /\ g = c /\ vg = va /\ pt[e][va].w
          \/ f # e /\ child[f] = g /\ vf = vg /\ addr[f] = vf /\ pc[f] = "map2"
          \/ g = f /\ vg = PFTEMP
  <2> SUFFICES ASSUME NEW f \in Env, NEW g \in Env, NEW vf \in Own, NEW vg \in Page,
                      pt'[f][vf].w, pt'[f][vf].frame = pt'[g][vg].frame, <<f, vf>> # <<g, vg>>
               PROVE  \/ f = e /\ vf = va /\ g = c /\ vg = va /\ pt[e][va].w
                      \/ f # e /\ child[f] = g /\ vf = vg /\ addr[f] = vf /\ pc[f] = "map2"
                      \/ g = f /\ vg = PFTEMP
    OBVIOUS
  <2>1. pt'[f][vf] = pt[f][vf]
    BY <1>2, <1>5, <1>6
  <2>2. CASE g = c /\ vg = va
    <3>1. pt[f][vf].w /\ pt[f][vf].frame = pt[e][va].frame
      BY <1>5, <1>6, <2>1, <2>2
    <3>2. f = e /\ vf = va
      BY <1>1, <1>2, <1>3, <1>6, <3>1 DEF PrivateInv
    <3> QED
      BY <2>2, <3>1, <3>2
  <2>3. CASE ~(g = c /\ vg = va)
    <3>1. pt'[g][vg] = pt[g][vg]
      BY <1>2, <1>6, <2>3
    <3>2. (child[f] = g /\ vf = vg /\ addr[f] = vf /\ pc[f] = "map2") \/ (g = f /\ vg = PFTEMP)
      BY <1>1, <2>1, <3>1 DEF PrivateInv
    <3> QED
      BY <1>3, <3>2
  <2> QED
    BY <2>2, <2>3
<1>8. /\ addr[e] \in VA /\ pc' = [pc EXCEPT ![e] = Onward(e)] /\ Advance(e) /\ Snapshot(e)
  BY <1>3 DEF DupMapFirst, SecondCall, Goto
<1>9. /\ pc' \in [Env -> Pc] /\ addr' \in [Env -> Addr] /\ pte' \in [Env -> SUBSET {"W", "COW"}]
      /\ \A f \in Env \ {e} : pc'[f] = pc[f] /\ addr'[f] = addr[f] /\ pte'[f] = pte[f]
      /\ pc'[e] \in {"read", "xstack"} /\ (pc'[e] = "read" <=> addr'[e] # 0)
      /\ \A vb \in VA : addr'[e] # 0 /\ (vb > addr'[e] \/ vb = addr'[e]) => vb > addr[e]
      /\ \A vb \in VA : addr'[e] = 0 \/ vb < addr'[e] => vb = addr[e] \/ vb < addr[e]
  BY <1>1, <1>8, AdvanceEffect
<1>10. ~pt[e][va].w /\ ~pt[e][va].cow
  BY <1>1, <1>3 DEF DupInv, Copied
<1>11. /\ view' \in [Env -> [VA -> Value]]
       /\ \A f \in Env, vb \in VA :
            view'[f][vb] = IF f = c /\ vb = va THEN data'[pt'[c][va].frame] ELSE view[f][vb]
  <2>1. pt'[c][va] \in Entry /\ pt'[c][va].frame # 0
    BY <1>5, <1>6
  <2>2. pt'[c][va].frame \in Frame
    BY <2>1, SizeAssumption DEF Entry, Frame
  <2>3. data'[pt'[c][va].frame] \in Value
    BY <1>5, <2>2
  <2>4. va # Stack => view[e][va] = data[pt[e][va].frame]
    BY <1>1, <1>3, <1>5 DEF ForkCopies, Complete
  <2>5. va # Stack => view[e][va] = data'[pt'[c][va].frame]
    BY <1>2, <1>3, <1>5, <1>6, <2>1, <2>4
  <2>6. TypeInv /\ c \in Env /\ va \in VA /\ Snapshot(e)
    BY <1>1, <1>3, <1>8
  <2> QED
    BY <2>3, <2>5, <2>6, SnapshotEffect
<1> HIDE DEF va, c
<1>12. TypeInv'
  BY <1>1, <1>4, <1>5, <1>9, <1>11 DEF TypeInv, ControlTypes
<1>13. EmptyInv'
  <2>1. ASSUME NEW f \in Env, NEW vb \in Page, pt'[f][vb].frame = 0 PROVE ~pt'[f][vb].w /\ ~pt'[f][vb].cow
    BY <1>1, <1>5, <1>6, <2>1 DEF EmptyInv
  <2>2. ASSUME NEW f \in Env, NEW vb \in Page, pc'[f] = "free" PROVE pt'[f][vb].frame = 0
    BY <1>1, <1>3, <1>6, <1>9, <2>2 DEF EmptyInv
  <2>3. ASSUME NEW f \in Env, NEW vb \in VA, pc'[f] \in LoopPc,
               vb > addr'[f] \/ (vb = addr'[f] /\ pc'[f] # "map2")
        PROVE  pt'[child[f]][vb].frame = 0
    <3>1. CASE f = e
      <4>1. vb > va
        BY <1>9, <2>3, <3>1 DEF LoopPc, va
      <4>2. pt[c][vb].frame = 0 /\ vb # va
        BY <1>1, <1>3, <4>1 DEF EmptyInv, LoopPc, va, c, VA
      <4> QED
        BY <1>2, <1>3, <1>6, <3>1, <4>2 DEF c
    <3>2. CASE f # e
      <4>1. pc[f] \in LoopPc /\ child[f] \in Env /\ child[f] # c
        BY <1>2, <1>3, <1>9, <2>3, <3>2 DEF LoopPc, ForkPc
      <4>2. pt[child[f]][vb].frame = 0
        BY <1>1, <1>9, <2>3, <3>2, <4>1 DEF EmptyInv
      <4> QED
        BY <1>2, <1>6, <4>1, <4>2
    <3> QED
      BY <3>1, <3>2
  <2> QED
    BY <1>4, <2>1, <2>2, <2>3 DEF EmptyInv
<1>14. DupInv'
  <2> SUFFICES ASSUME NEW f \in Env, pc'[f] \in {"map1", "map2"}
               PROVE  /\ pc'[f] = "map1" /\ (pt'[f][addr'[f]].w \/ pt'[f][addr'[f]].cow) => pte'[f] # {}
                      /\ pc'[f] = "map2" /\ addr'[f] # Stack =>
                           pt'[child[f]][addr'[f]].frame = pt'[f][addr'[f]].frame
                      /\ pc'[f] = "map2" => pt'[child[f]][addr'[f]].frame # 0
    BY <1>4 DEF DupInv
  <2>1. f # e /\ pc'[f] = pc[f] /\ addr'[f] = addr[f] /\ pte'[f] = pte[f]
    BY <1>9
  <2>2. addr[f] \in Page /\ child[f] \in Env /\ child[f] # c /\ f # c
    BY <1>2, <1>3, <2>1 DEF LoopPc, ForkPc
  <2>3. pt'[f][addr[f]] = pt[f][addr[f]] /\ pt'[child[f]][addr[f]] = pt[child[f]][addr[f]]
    BY <1>6, <2>2
  <2> QED
    BY <1>1, <2>1, <2>3 DEF DupInv
<1>15. CopyInv'
  <2> SUFFICES ASSUME NEW f \in Env, fault[f].at \in {"alloc", "copy", "map"}
               PROVE  /\ pt'[f][fault[f].va].cow
                      /\ fault[f].at \in {"copy", "map"} =>
                           /\ pt'[f][PFTEMP].frame # 0
                           /\ \A g \in Env, vb \in Page :
                                pt'[g][vb].frame = pt'[f][PFTEMP].frame => g = f /\ vb = PFTEMP
    BY <1>4 DEF CopyInv
  <2>1. f # c /\ fault[f].va \in Page
    BY <1>1, <1>2, <1>3 DEF FaultInv, Running
  <2>2. pt'[f][fault[f].va] = pt[f][fault[f].va] /\ pt'[f][PFTEMP] = pt[f][PFTEMP]
    BY <1>2, <1>6, <2>1
  <2>3. pt'[f][fault[f].va].cow
    BY <1>1, <2>2 DEF CopyInv
  <2>4. ASSUME fault[f].at \in {"copy", "map"}
        PROVE  /\ pt'[f][PFTEMP].frame # 0
               /\ \A g \in Env, vb \in Page :
                    pt'[g][vb].frame = pt'[f][PFTEMP].frame => g = f /\ vb = PFTEMP
    <3>1. /\ pt[f][PFTEMP].frame # 0
          /\ \A g \in Env, vb \in Page :
               pt[g][vb].frame = pt[f][PFTEMP].frame => g = f /\ vb = PFTEMP
      BY <1>1, <2>4 DEF CopyInv
    <3>2. n.frame # pt[f][PFTEMP].frame
      BY <1>2, <1>3, <1>5, <3>1
    <3> QED
      BY <1>5, <2>2, <3>1, <3>2
  <2> QED
    BY <2>3, <2>4
<1>16. PrivateInv'
  BY <1>4, <1>7, <1>9, <1>10 DEF PrivateInv
<1>17. CopiedInv'
  <2> SUFFICES ASSUME NEW f \in Env, fault[f].at = "map"
               PROVE  data'[pt'[f][PFTEMP].frame] = view'[f][fault[f].va]
    BY <1>4 DEF CopiedInv
  <2>1. f # c /\ fault[f].va \in VA
    BY <1>1, <1>2, <1>3 DEF FaultInv, Running
  <2>2. pt'[f][PFTEMP] = pt[f][PFTEMP] /\ pt[f][PFTEMP].frame # 0
    BY <1>1, <1>2, <1>6, <2>1 DEF CopyInv
  <2>3. data'[pt[f][PFTEMP].frame] = data[pt[f][PFTEMP].frame]
    BY <1>2, <1>5, <2>2
  <2>4. view'[f][fault[f].va] = view[f][fault[f].va]
    BY <1>11, <2>1
  <2> QED
    BY <1>1, <2>2, <2>3, <2>4 DEF CopiedInv
<1>18. ForkCopies'
  <2> SUFFICES ASSUME NEW f \in Env, NEW vb \in VA, Complete(f, vb)'
               PROVE  data'[pt'[f][vb].frame] = view'[f][vb]
    BY DEF ForkCopies
  <2>1. CASE f = c /\ vb = va
    BY <1>11, <2>1
  <2>2. CASE ~(f = c /\ vb = va)
    <3>1. /\ pt'[f][vb].frame = pt[f][vb].frame /\ pt[f][vb].frame # 0
          /\ data'[pt[f][vb].frame] = data[pt[f][vb].frame] /\ view'[f][vb] = view[f][vb]
      BY <1>2, <1>5, <1>6, <1>11, <2>2 DEF Complete
    <3>2. CASE pc'[f] \notin {"free", "child"}
      BY <1>1, <1>3, <1>9, <3>1, <3>2 DEF Complete, Running, ForkCopies
    <3>3. CASE \E p \in Env : child[p] = f /\ (addr'[p] = 0 \/ vb < addr'[p])
      <4>1. PICK p \in Env : child[p] = f /\ (addr'[p] = 0 \/ vb < addr'[p])
        BY <3>3
      <4>2. addr[p] = 0 \/ vb < addr[p]
        BY <1>9, <2>2, <4>1 DEF va, c
      <4> QED
        BY <1>1, <3>1, <4>1, <4>2 DEF Complete, ForkCopies
    <3> QED
      BY <1>4, <3>2, <3>3 DEF Complete, Running
  <2> QED
    BY <2>1, <2>2
<1> QED
  BY <1>12, <1>13, <1>14, <1>15, <1>16, <1>17, <1>18 DEF ForkInv, MapInv

\* duppage makes its own page copy-on-write: the page is complete.
LEMMA SecondStep ==
  ASSUME ControlInv, ForkInv, NEW e \in Env, DupMapSecond(e)
  PROVE  ForkInv'
<1> DEFINE va == addr[e]
           c == child[e]
           n == [frame |-> pt[e][va].frame, w |-> FALSE, cow |-> TRUE]
<1>1. /\ TypeInv /\ ChildInv /\ FaultInv /\ UpcallInv /\ EmptyInv /\ DupInv /\ CopyInv
      /\ PrivateInv /\ CopiedInv /\ ForkCopies
  BY DEF ControlInv, ForkInv, MapInv
<1>2. /\ PFTEMP \in Page /\ PFTEMP \notin VA /\ VA \subseteq Page /\ Stack \in VA
      /\ VA \subseteq Own /\ Own \subseteq Page /\ PFTEMP \notin Own
      /\ \A f \in Env : pc[f] \in LoopPc => addr[f] \in VA
      /\ \A f \in Env : pc[f] \in ForkPc => child[f] \in Env /\ child[f] # f
      /\ \A f \in Env : fault[f].at # "none" => fault[f].va \in VA
  BY <1>1, Ranges DEF TypeInv
<1>3. /\ pc[e] = "map2" /\ fault[e].at = "none" /\ Running(e) /\ va \in VA /\ c \in Env /\ c # e /\ pc[c] = "child"
      /\ \A f \in Env : child[f] = c => f = e
  BY <1>1, <1>2, EnvAssumption DEF DupMapSecond, Goto, InMain, ChildInv, ForkPc, LoopPc
<1>4. /\ sys_page_map(e, va, e, va, FALSE, TRUE) /\ UNCHANGED <<fault, child, upcall>>
  <2>1. Target(e, 2) = e
    BY DEF Target
  <2>2. sys_page_map(e, va, Target(e, 2), va, FALSE, TRUE) /\ UNCHANGED <<fault, child, upcall>>
    BY DEF DupMapSecond
  <2> QED
    BY <2>1, <2>2
<1>5. /\ pt[e][va].frame # 0 /\ n \in Entry /\ n.frame = pt[e][va].frame /\ n.w = FALSE /\ n.cow = TRUE
      /\ pt' \in [Env -> [Page -> Entry]] /\ data' \in [Frame -> Value]
      /\ \A f \in Env, vb \in Page : pt'[f][vb] = IF f = e /\ vb = va THEN n ELSE pt[f][vb]
      /\ \A f \in Env, vb \in Page :
           pt'[f][vb].frame # 0 => data'[pt'[f][vb].frame] = data[pt'[f][vb].frame]
  <2>1. TypeInv /\ va \in Page /\ sys_page_map(e, va, e, va, FALSE, TRUE)
    BY <1>1, <1>2, <1>3, <1>4
  <2> HIDE DEF va, c
  <2> QED
    BY <2>1, MapEffect
<1> HIDE DEF n
<1>6. /\ \A f \in Env, vb \in Page : f # e \/ vb # va => pt'[f][vb] = pt[f][vb]
      /\ pt'[e][va] = n /\ \A f \in Env, vb \in Page : pt'[f][vb].frame = pt[f][vb].frame
  BY <1>2, <1>3, <1>5
<1>7. /\ \A f \in Env : child[f] # e /\ pt[c][va].frame # 0
      /\ va # Stack => pt[c][va].frame = pt[e][va].frame
  BY <1>1, <1>3, EnvAssumption DEF ChildInv, DupInv, Running
<1>8. /\ addr[e] \in VA /\ pc' = [pc EXCEPT ![e] = Onward(e)] /\ Advance(e) /\ Snapshot(e)
  BY <1>3 DEF DupMapSecond, Goto
<1>9. /\ pc' \in [Env -> Pc] /\ addr' \in [Env -> Addr] /\ pte' \in [Env -> SUBSET {"W", "COW"}]
      /\ \A f \in Env \ {e} : pc'[f] = pc[f] /\ addr'[f] = addr[f] /\ pte'[f] = pte[f]
      /\ pc'[e] \in {"read", "xstack"} /\ (pc'[e] = "read" <=> addr'[e] # 0)
      /\ \A vb \in VA : addr'[e] # 0 /\ (vb > addr'[e] \/ vb = addr'[e]) => vb > addr[e]
      /\ \A vb \in VA : addr'[e] = 0 \/ vb < addr'[e] => vb = addr[e] \/ vb < addr[e]
  BY <1>1, <1>8, AdvanceEffect
<1>10. /\ view' \in [Env -> [VA -> Value]]
       /\ \A f \in Env, vb \in VA :
            view'[f][vb] = IF f = c /\ vb = va THEN data'[pt'[c][va].frame] ELSE view[f][vb]
  <2>1. pt'[c][va] \in Entry /\ pt'[c][va].frame # 0
    BY <1>2, <1>3, <1>5, <1>6, <1>7
  <2>2. pt'[c][va].frame \in Frame
    BY <2>1, SizeAssumption DEF Entry, Frame
  <2>3. data'[pt'[c][va].frame] \in Value
    BY <1>5, <2>2
  <2>4. va # Stack => view[e][va] = data[pt[e][va].frame]
    BY <1>1, <1>3, <1>5 DEF ForkCopies, Complete
  <2>5. va # Stack => view[e][va] = data'[pt'[c][va].frame]
    BY <1>2, <1>3, <1>5, <1>6, <1>7, <2>1, <2>4
  <2>6. TypeInv /\ c \in Env /\ va \in VA /\ Snapshot(e)
    BY <1>1, <1>3, <1>8
  <2> QED
    BY <2>3, <2>5, <2>6, SnapshotEffect
<1> HIDE DEF va, c
<1>11. TypeInv'
  BY <1>1, <1>4, <1>5, <1>9, <1>10 DEF TypeInv, ControlTypes
<1>12. EmptyInv'
  <2>1. ASSUME NEW f \in Env, NEW vb \in Page, pt'[f][vb].frame = 0 PROVE ~pt'[f][vb].w /\ ~pt'[f][vb].cow
    BY <1>1, <1>5, <1>6, <2>1 DEF EmptyInv
  <2>2. ASSUME NEW f \in Env, NEW vb \in Page, pc'[f] = "free" PROVE pt'[f][vb].frame = 0
    BY <1>1, <1>3, <1>6, <1>9, <2>2 DEF EmptyInv
  <2>3. ASSUME NEW f \in Env, NEW vb \in VA, pc'[f] \in LoopPc,
               vb > addr'[f] \/ (vb = addr'[f] /\ pc'[f] # "map2")
        PROVE  pt'[child[f]][vb].frame = 0
    <3>1. CASE f = e
      <4>1. vb > va
        BY <1>9, <2>3, <3>1 DEF LoopPc, va
      <4>2. pt[c][vb].frame = 0 /\ vb # va
        BY <1>1, <1>3, <4>1 DEF EmptyInv, LoopPc, va, c, VA
      <4> QED
        BY <1>2, <1>3, <1>6, <3>1, <4>2 DEF c
    <3>2. CASE f # e
      <4>1. pc[f] \in LoopPc /\ child[f] \in Env /\ child[f] # c
        BY <1>2, <1>3, <1>9, <2>3, <3>2 DEF LoopPc, ForkPc
      <4>2. pt[child[f]][vb].frame = 0
        BY <1>1, <1>9, <2>3, <3>2, <4>1 DEF EmptyInv
      <4> QED
        BY <1>2, <1>6, <4>1, <4>2
    <3> QED
      BY <3>1, <3>2
  <2> QED
    BY <1>4, <2>1, <2>2, <2>3 DEF EmptyInv
<1>13. DupInv'
  <2> SUFFICES ASSUME NEW f \in Env, pc'[f] \in {"map1", "map2"}
               PROVE  /\ pc'[f] = "map1" /\ (pt'[f][addr'[f]].w \/ pt'[f][addr'[f]].cow) => pte'[f] # {}
                      /\ pc'[f] = "map2" /\ addr'[f] # Stack =>
                           pt'[child[f]][addr'[f]].frame = pt'[f][addr'[f]].frame
                      /\ pc'[f] = "map2" => pt'[child[f]][addr'[f]].frame # 0
    BY <1>4 DEF DupInv
  <2>1. f # e /\ pc'[f] = pc[f] /\ addr'[f] = addr[f] /\ pte'[f] = pte[f]
    BY <1>9
  <2>2. addr[f] \in Page /\ child[f] \in Env
    BY <1>2, <2>1 DEF LoopPc, ForkPc
  <2>3. pt'[f][addr[f]] = pt[f][addr[f]] /\ pt'[child[f]][addr[f]].frame = pt[child[f]][addr[f]].frame
    BY <1>6, <2>1, <2>2
  <2> QED
    BY <1>1, <2>1, <2>3 DEF DupInv
<1>14. CopyInv'
  <2> SUFFICES ASSUME NEW f \in Env, fault[f].at \in {"alloc", "copy", "map"}
               PROVE  /\ pt'[f][fault[f].va].cow
                      /\ fault[f].at \in {"copy", "map"} =>
                           /\ pt'[f][PFTEMP].frame # 0
                           /\ \A g \in Env, vb \in Page :
                                pt'[g][vb].frame = pt'[f][PFTEMP].frame => g = f /\ vb = PFTEMP
    BY <1>4 DEF CopyInv
  <2>1. f # e /\ fault[f].va \in Page
    BY <1>2, <1>3
  <2>2. pt'[f][fault[f].va] = pt[f][fault[f].va]
    BY <1>6, <2>1
  <2> QED
    BY <1>1, <1>2, <1>6, <2>2 DEF CopyInv
<1>15. PrivateInv'
  <2> SUFFICES ASSUME NEW f \in Env, NEW g \in Env, NEW vf \in Own, NEW vg \in Page,
                      pt'[f][vf].w, pt'[f][vf].frame = pt'[g][vg].frame, <<f, vf>> # <<g, vg>>
               PROVE  \/ child[f] = g /\ vf = vg /\ addr'[f] = vf /\ pc'[f] = "map2"
                      \/ g = f /\ vg = PFTEMP
    BY <1>4 DEF PrivateInv
  <2>1. (f # e \/ vf # va) /\ pt'[f][vf] = pt[f][vf]
    BY <1>2, <1>5, <1>6
  <2>2. (child[f] = g /\ vf = vg /\ addr[f] = vf /\ pc[f] = "map2") \/ (g = f /\ vg = PFTEMP)
    BY <1>1, <1>2, <1>6, <2>1 DEF PrivateInv
  <2> QED
    BY <1>9, <2>1, <2>2 DEF va
<1>16. CopiedInv'
  <2> SUFFICES ASSUME NEW f \in Env, fault[f].at = "map"
               PROVE  data'[pt'[f][PFTEMP].frame] = view'[f][fault[f].va]
    BY <1>4 DEF CopiedInv
  <2>1. f # c /\ fault[f].va \in VA
    BY <1>1, <1>2, <1>3 DEF FaultInv, Running
  <2>2. pt'[f][PFTEMP].frame = pt[f][PFTEMP].frame /\ pt[f][PFTEMP].frame # 0
    BY <1>1, <1>2, <1>6 DEF CopyInv
  <2>3. data'[pt[f][PFTEMP].frame] = data[pt[f][PFTEMP].frame]
    BY <1>2, <1>5, <2>2
  <2>4. view'[f][fault[f].va] = view[f][fault[f].va]
    BY <1>10, <2>1
  <2> QED
    BY <1>1, <2>2, <2>3, <2>4 DEF CopiedInv
<1>17. ForkCopies'
  <2> SUFFICES ASSUME NEW f \in Env, NEW vb \in VA, Complete(f, vb)'
               PROVE  data'[pt'[f][vb].frame] = view'[f][vb]
    BY DEF ForkCopies
  <2>1. CASE f = c /\ vb = va
    BY <1>10, <2>1
  <2>2. CASE ~(f = c /\ vb = va)
    <3>1. /\ pt'[f][vb].frame = pt[f][vb].frame /\ pt[f][vb].frame # 0
          /\ data'[pt[f][vb].frame] = data[pt[f][vb].frame] /\ view'[f][vb] = view[f][vb]
      BY <1>2, <1>5, <1>6, <1>10, <2>2 DEF Complete
    <3>2. CASE pc'[f] \notin {"free", "child"}
      BY <1>1, <1>3, <1>9, <3>1, <3>2 DEF Complete, Running, ForkCopies
    <3>3. CASE \E p \in Env : child[p] = f /\ (addr'[p] = 0 \/ vb < addr'[p])
      <4>1. PICK p \in Env : child[p] = f /\ (addr'[p] = 0 \/ vb < addr'[p])
        BY <3>3
      <4>2. addr[p] = 0 \/ vb < addr[p]
        BY <1>9, <2>2, <4>1 DEF va, c
      <4> QED
        BY <1>1, <3>1, <4>1, <4>2 DEF Complete, ForkCopies
    <3> QED
      BY <1>4, <3>2, <3>3 DEF Complete, Running
  <2> QED
    BY <2>1, <2>2
<1> QED
  BY <1>11, <1>12, <1>13, <1>14, <1>15, <1>16, <1>17 DEF ForkInv, MapInv

\* Nothing happens.
LEMMA Stutter ==
  ASSUME ForkInv, UNCHANGED vars
  PROVE  ForkInv'
BY DEF ForkInv, MapInv, TypeInv, ControlTypes, EmptyInv, DupInv, CopyInv, PrivateInv, CopiedInv, ForkCopies,
       Complete, Running, vars

\* The first program starts with frames of its own, all of them writable.
LEMMA InvInit == Init => Inv
<1> SUFFICES ASSUME Init PROVE ControlInv /\ ForkInv
  BY DEF Inv
<1> DEFINE own(va) == [frame |-> va, w |-> TRUE, cow |-> FALSE]
           first(has) == [va \in Page |-> IF va \in has THEN own(va) ELSE None]
<1>1. PICK e0 \in Env, has \in SUBSET VA :
        /\ pt = [e \in Env |-> IF e = e0 THEN first(has) ELSE Empty]
        /\ data = [f \in Frame |-> 0]
        /\ pc = [e \in Env |-> IF e = e0 THEN "user" ELSE "free"]
        /\ fault = [e \in Env |-> NoFault] /\ child = [e \in Env |-> NoEnv]
        /\ addr = [e \in Env |-> 0] /\ pte = [e \in Env |-> {}]
        /\ upcall = [e \in Env |-> FALSE]
        /\ view = [e \in Env |-> [va \in VA |-> 0]]
  BY DEF Init
<1>2. PFTEMP \in Page /\ PFTEMP \notin VA /\ VA \subseteq Page /\ 0 \in Page /\ 0 \in Addr /\ Own \subseteq Page
  BY SizeAssumption DEF PFTEMP, Page, VA, Own, Addr
<1>3. None \in Entry /\ None.frame = 0 /\ None.w = FALSE /\ None.cow = FALSE
  BY SizeAssumption DEF None, Entry
<1>4. \A va \in VA : own(va) \in Entry /\ own(va).frame = va /\ own(va).w = TRUE /\ own(va).cow = FALSE /\ va # 0 /\ va \in Frame
  BY SizeAssumption DEF Entry, VA, Frame
<1>5. NoFault \in [va : Page, at : At] /\ NoFault.at = "none"
  BY <1>2 DEF NoFault, At
<1> HIDE DEF own
<1>6. first(has) \in [Page -> Entry] /\ Empty \in [Page -> Entry]
  BY <1>3, <1>4 DEF Empty
<1>7. /\ \A e \in Env, va \in Page : pt[e][va] = IF e = e0 /\ va \in has THEN own(va) ELSE None
      /\ pt \in [Env -> [Page -> Entry]]
  BY <1>1, <1>6 DEF Empty
<1>8. /\ \A e \in Env : pc[e] = (IF e = e0 THEN "user" ELSE "free") /\ fault[e].at = "none"
      /\ \A e \in Env : child[e] = NoEnv /\ addr[e] = 0
  BY <1>1, <1>5
<1>9. TypeInv
  BY <1>1, <1>2, <1>5, <1>7, ValueAssumption DEF TypeInv, ControlTypes, Pc
<1>10. ChildInv /\ FaultInv
  BY <1>8 DEF ChildInv, FaultInv, ForkPc, LoopPc
<1>11. UpcallInv
  <2>1. \A e \in Env, va \in VA : ~pt[e][va].cow
    BY <1>2, <1>3, <1>4, <1>7
  <2> QED
    BY <1>1, <1>8, <2>1 DEF UpcallInv, FaultsHandled, ForkPc, LoopPc
<1>12. EmptyInv
  BY <1>2, <1>3, <1>4, <1>7, <1>8 DEF EmptyInv, LoopPc
<1>13. DupInv /\ CopyInv /\ CopiedInv
  BY <1>8 DEF DupInv, CopyInv, CopiedInv
<1>14. PrivateInv
  BY <1>2, <1>3, <1>4, <1>7 DEF PrivateInv
<1>15. ForkCopies
  <2> SUFFICES ASSUME NEW e \in Env, NEW va \in VA, Complete(e, va)
               PROVE  data[pt[e][va].frame] = view[e][va]
    BY DEF ForkCopies
  <2>1. pt[e][va].frame = va
    BY <1>2, <1>3, <1>4, <1>7 DEF Complete
  <2> QED
    BY <1>1, <1>4, <2>1
<1> QED
  BY <1>9, <1>10, <1>11, <1>12, <1>13, <1>14, <1>15 DEF ControlInv, TypeInv, ForkInv, MapInv

\* A stray page stays one.
LEMMA StrayStays == [Next \/ Done]_vars => (stray => stray')
<1>1. ASSUME NEW e \in Env, Dies(e) PROVE stray' = stray
  BY <1>1 DEF Dies
<1>2. ASSUME NEW e \in Env, pgfault(e) PROVE stray => stray'
  BY <1>1, <1>2 DEF pgfault, PgfaultCheck, PgfaultAlloc, PgfaultCopy, PgfaultMap, sys_page_alloc, sys_page_map
<1>3. ASSUME NEW e \in Env, fork(e) PROVE stray => stray'
  BY <1>3 DEF fork, set_pgfault_handler, SetHandlerAgain, SetHandlerXStack, SetHandlerUpcall, ForkExofork, DupRead,
              DupMapFirst, DupMapSecond, ForkXStack, ForkUpcall, ForkStatus, sys_page_alloc, sys_page_map
<1>4. ASSUME NEW e \in Env, NEW va \in VA, Protect(e, va) \/ \E v \in Value : Write(e, va, v) PROVE stray' = stray
  BY <1>4 DEF Protect, Write, sys_page_map
<1> QED
  BY <1>1, <1>2, <1>3, <1>4 DEF Next, Exit, Done, vars

\* Every step of every environment keeps the invariant.
LEMMA InvNext == Inv /\ [Next \/ Done]_vars => Inv'
<1> SUFFICES ASSUME ControlInv, ForkInv, ~stray', [Next \/ Done]_vars PROVE ForkInv'
  <2>1. ASSUME [Next \/ Done]_vars, ~stray' PROVE ~stray
    BY <2>1, StrayStays
  <2> QED
    BY <2>1, ControlNext DEF Inv
<1>1. CASE Next
  <2>1. PICK e \in Env :
          \/ pgfault(e) \/ fork(e) \/ Exit(e)
          \/ \E va \in VA : Protect(e, va) \/ \E v \in Value : Write(e, va, v)
    BY <1>1 DEF Next
  <2>2. CASE pgfault(e)
    <3>1. CASE PgfaultCheck(e)
      <4>1. CASE Served(e) /\ pt[e][fault[e].va].cow
        BY <3>1, <4>1, CheckStep
      <4>2. CASE ~(Served(e) /\ pt[e][fault[e].va].cow)
        <5>1. Dies(e) /\ Running(e)
          BY <3>1, <4>2 DEF PgfaultCheck, ControlInv, FaultInv
        <5> QED
          BY <5>1, DieStep
      <4> QED
        BY <4>1, <4>2
    <3> QED
      BY <2>2, <3>1, AllocStep, CopyStep, MapStep DEF pgfault
  <2>3. CASE fork(e)
    <3>1. CASE DupRead(e)
      BY <3>1, ReadStep, SkipStep
    <3>2. CASE DupMapFirst(e)
      BY <3>2, FirstStep, GiveStep
    <3>3. CASE \E c \in Env : ForkExofork(e, c)
      BY <3>3, ExoforkStep
    <3> QED
      BY <2>3, <3>1, <3>2, <3>3, HandlerStep, SecondStep, XStackStep, UpcallStep, StatusStep DEF fork, set_pgfault_handler
  <2>4. CASE Exit(e)
    BY <2>4, DieStep DEF Exit
  <2>5. CASE \E va \in VA : Protect(e, va) \/ \E v \in Value : Write(e, va, v)
    <3>1. PICK va \in VA : Protect(e, va) \/ \E v \in Value : Write(e, va, v)
      BY <2>5
    <3>2. CASE Protect(e, va)
      BY <3>2, ProtectStep
    <3>3. CASE \E v \in Value : Write(e, va, v)
      <4>1. PICK v \in Value : Write(e, va, v)
        BY <3>3
      <4> QED
        BY <4>1, StoreStep, TrapStep
    <3> QED
      BY <3>1, <3>2, <3>3
  <2> QED
    BY <2>1, <2>2, <2>3, <2>4, <2>5
<1>2. CASE Done \/ UNCHANGED vars
  BY <1>2, Stutter DEF Done
<1> QED
  BY <1>1, <1>2

-----------------------------------------------------------------------------
(* Theorems.                                                                 *)

\* The invariant holds in every reachable state.
LEMMA ForkAlways == Spec => []Inv
BY InvInit, InvNext, PTL DEF Spec

\* Fork copies, whatever the timer interleaves and wherever fork and pgfault themselves
\* fault: as long as the pages that sys_page_alloc maps were used by nobody, an environment
\* reads in its pages what it wrote or what its parent had there when duppage finished the
\* page.
THEOREM ForkIsACopy == Spec => []PrivateMemory
<1>1. Inv => PrivateMemory
  BY DEF Inv, ForkInv, PrivateMemory
<1> QED
  BY <1>1, ForkAlways, PTL

\* Under the same condition an environment that can write a page shares it with no other
\* mapping, but for duppage's two system calls for that page and for the page that pgfault
\* has left at PFTEMP; and pgfault copies to a page that nobody else sees.
THEOREM WritablePagesPrivate == Spec => []WritableIsPrivate
<1>1. Inv => WritableIsPrivate
  <2> SUFFICES ASSUME ControlInv, ForkInv, NEW e \in Env, NEW f \in Env, NEW va \in Page, NEW vb \in Page,
                      pt[e][va].w, pt[e][va].frame = pt[f][vb].frame, <<e, va>> # <<f, vb>>
               PROVE  \/ child[e] = f /\ va = vb /\ addr[e] = va /\ pc[e] = "map2"
                      \/ LeftAtTemp(e, va) /\ (va = PFTEMP \/ (f = e /\ vb = PFTEMP))
    BY DEF Inv, WritableIsPrivate
  <2>1. CopyInv /\ PrivateInv
    BY DEF ForkInv, MapInv
  <2>2. va = PFTEMP \/ va \in Own
    BY SizeAssumption DEF Page, Own, PFTEMP
  <2>3. CASE va = PFTEMP
    BY <2>1, <2>3 DEF CopyInv, LeftAtTemp
  <2>4. CASE va \in Own
    BY <2>1, <2>4 DEF PrivateInv, CopyInv, LeftAtTemp
  <2> QED
    BY <2>2, <2>3, <2>4
<1> QED
  BY <1>1, ForkAlways, PTL

\* Whatever sys_page_alloc maps, whoever runs with a copy-on-write page has pgfault's
\* upcall and an exception stack.
THEOREM CowFaultsHandled == Spec => []FaultsHandled
<1>1. Inv => FaultsHandled
  BY DEF Inv, ControlInv, UpcallInv
<1> QED
  BY <1>1, ForkAlways, PTL
=============================================================================
