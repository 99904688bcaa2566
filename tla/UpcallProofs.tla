---------------------------- MODULE UpcallProofs ----------------------------
(***************************************************************************)
(* Page faults in user code, at any depth of recursion and for stacks of   *)
(* any size: the kernel's frames and the upcall disturb nothing, and the   *)
(* interrupted code goes on as it was.                                     *)
(***************************************************************************)
EXTENDS Upcall, TLAPS

Address == 0 .. XTop - 1
InUpcall == {Upcall, UpcallCall, UpcallBack, UpcallStore, UpcallRestore}
Adjusted == {UpcallStore, UpcallRestore}
Regs == [eip : {Main, Handler, Null} \cup InUpcall, esp : Int, eax : Int, eflags : Int]
Words == UNION {[D -> Int] : D \in SUBSET Address}
Saved == [regs : Regs, utf : Int, words : Words]

\* Types.
TypeInv ==
  /\ r \in Regs
  /\ mem \in [Address -> Int]
  /\ low \in 0 .. UTop
  /\ xstack \in BOOLEAN /\ env_pgfault_upcall \in BOOLEAN
  /\ _pgfault_handler \in {0, Handler}
  /\ mode \in {"user", "destroyed"}
  /\ saved \in Seq(Saved)

N == Len(saved)

\* The registers of the code that runs, or was interrupted, while fault i is handled.
Ctx(i) == IF i = N THEN r ELSE saved[i + 1].regs

\* Where code that handles the fault with frame f has its stack pointer.
Inside(q, f) ==
  /\ q.eip # Main /\ q.esp \in XBase .. f.utf
  /\ q.eip \in {Upcall, UpcallStore, UpcallRestore} => q.esp = f.utf
  /\ q.eip \in {UpcallCall, UpcallBack} => q.esp = f.utf - 1
  /\ q.eip \in {Handler, Null} => q.esp <= f.utf - 2
  /\ q.eip = UpcallStore => q.eax = f.regs.esp - 1

\* The stacks: the main program's, and on the exception stack the frames one below the
\* other, each a scratch word below the stack it interrupted.
StackInv ==
  /\ N = 0 => r.eip = Main /\ r.esp \in low .. UTop
  /\ N > 0 => xstack
  /\ \A i \in 1 .. N : Inside(Ctx(i), saved[i]) /\ DOMAIN saved[i].words = Above(saved[i].regs.esp)
  /\ \A i \in 1 .. N : i = 1 =>
       saved[i].regs.eip = Main /\ saved[i].regs.esp \in low .. UTop /\ saved[i].utf = XTop - UTrapframe
  /\ \A i \in 1 .. N : i > 1 =>
       saved[i].utf = saved[i].regs.esp - UTrapframe - 1 /\ saved[i].regs.eip \notin {UpcallBack, UpcallRestore}
  /\ \A i \in 1 .. N : saved[i].utf >= XBase
  /\ \A i, j \in 1 .. N : j < i => saved[i].regs.esp <= saved[j].utf

\* What the words of frame f are in memory w, while code with registers q handles its fault.
FrameIs(f, q, w) ==
  /\ w[f.utf + REGS] = f.regs.eax
  /\ w[f.utf + EIP] = f.regs.eip
  /\ w[f.utf + EFLAGS] = f.regs.eflags
  /\ w[f.utf + ESP] = IF q.eip \in Adjusted THEN f.regs.esp - 1 ELSE f.regs.esp
  /\ q.eip \in {Handler, Null} => w[f.utf - 2] = UpcallBack
  /\ q.eip = UpcallRestore => w[f.regs.esp - 1] = f.regs.eip
FrameOk(i) == FrameIs(saved[i], Ctx(i), mem)
FrameInv == \A i \in 1 .. N : FrameOk(i)

UpcallInv == TypeInv /\ StackInv /\ FrameInv /\ FramesIntact

-----------------------------------------------------------------------------
(* Addresses.                                                                *)

\* Code on the exception stack that stays where memory is mapped stays on its page: the
\* words below it are not mapped, as far as the user stack.
LEMMA XMapped ==
  ASSUME TypeInv, NEW a \in Int, UTop <= a, Mapped(a)
  PROVE  xstack /\ XBase <= a /\ a < XTop
BY LayoutAssumption DEF TypeInv, Mapped

\* A mapped address is one of the memory.
LEMMA MappedAddress ==
  ASSUME TypeInv, NEW a \in Int, Mapped(a)
  PROVE  a \in Address
BY LayoutAssumption DEF TypeInv, Mapped, Address

\* Records of saved, field by field.
LEMMA SavedTypes ==
  ASSUME TypeInv
  PROVE  /\ N \in Nat
         /\ \A i \in 1 .. N : saved[i] \in Saved
         /\ \A i \in 1 .. N : saved[i].regs \in Regs /\ saved[i].regs.esp \in Int /\ saved[i].utf \in Int
<1>1. N \in Nat /\ \A i \in 1 .. N : saved[i] \in Saved
  BY DEF TypeInv, N
<1>2. \A x \in Saved : x.regs \in Regs /\ x.utf \in Int
  BY DEF Saved
<1>3. \A q \in Regs : q.esp \in Int
  BY DEF Regs
<1> QED
  BY <1>1, <1>2, <1>3

\* The frames lie on the exception stack, each with a scratch word above it but for the
\* first one.
LEMMA FramePlaces ==
  ASSUME TypeInv, StackInv
  PROVE  /\ \A i \in 1 .. N : XBase <= saved[i].utf /\ saved[i].utf + UTrapframe <= XTop
         /\ \A i \in 1 .. N : i > 1 => OnXStack(saved[i].regs.esp)
         /\ \A i \in 1 .. N : i = 1 => ~OnXStack(saved[i].regs.esp)
         /\ \A i \in 1 .. N - 1 : Ctx(i) = saved[i + 1].regs
         /\ N > 0 => Ctx(N) = r
<1>1. /\ N \in Nat
      /\ \A i \in 1 .. N : saved[i] \in Saved
      /\ \A i \in 1 .. N : saved[i].regs \in Regs /\ saved[i].regs.esp \in Int /\ saved[i].utf \in Int
  BY SavedTypes
<1>2. (\A i \in 1 .. N - 1 : Ctx(i) = saved[i + 1].regs) /\ (N > 0 => Ctx(N) = r)
  BY <1>1 DEF Ctx
<1>3. ASSUME NEW i \in 1 .. N PROVE XBase <= saved[i].utf /\ saved[i].utf + UTrapframe <= XTop
  <2>1. XBase <= saved[i].utf
    BY DEF StackInv
  <2>2. CASE i = 1
    BY <1>1, <2>1, <2>2, LayoutAssumption DEF StackInv, UTrapframe
  <2>3. CASE i > 1
    <3>1. 1 \in 1 .. N /\ 1 < i
      BY <1>1, <2>3
    <3>2. saved[i].regs.esp <= saved[1].utf /\ saved[1].utf = XTop - UTrapframe
      BY <3>1 DEF StackInv
    <3>3. saved[i].utf = saved[i].regs.esp - UTrapframe - 1
      BY <2>3 DEF StackInv
    <3> QED
      BY <1>1, <2>1, <3>1, <3>2, <3>3, LayoutAssumption DEF UTrapframe
  <2> QED
    BY <1>1, <2>2, <2>3
<1>4. ASSUME NEW i \in 1 .. N, i > 1 PROVE OnXStack(saved[i].regs.esp)
  <2>1. saved[i].utf = saved[i].regs.esp - UTrapframe - 1 /\ XBase <= saved[i].utf
    BY <1>3, <1>4 DEF StackInv
  <2>2. 1 \in 1 .. N /\ 1 < i
    BY <1>1, <1>4
  <2>3. saved[i].regs.esp <= saved[1].utf /\ saved[1].utf = XTop - UTrapframe
    BY <2>2 DEF StackInv
  <2> QED
    BY <1>1, <2>1, <2>2, <2>3, LayoutAssumption DEF UTrapframe, OnXStack
<1>5. \A i \in 1 .. N : i = 1 => ~OnXStack(saved[i].regs.esp)
  BY <1>1, LayoutAssumption DEF StackInv, OnXStack, TypeInv
<1> QED
  BY <1>2, <1>3, <1>4, <1>5

\* Code that handles the newest fault may write below its frame, into it, and into the
\* scratch word above it: no word of the code that any fault interrupted is there, nor
\* any word of an older frame.
LEMMA Untouched ==
  ASSUME TypeInv, StackInv, NEW a \in Int, N > 0,
         a \in XBase .. saved[N].utf + UTrapframe /\ a < XTop
  PROVE  /\ \A i \in 1 .. N : a \notin Above(saved[i].regs.esp)
         /\ \A i \in 1 .. N - 1 : a < saved[i].utf /\ (saved[i + 1].regs.eip \in {Handler, Null} => a < saved[i].utf - 2)
<1>1. /\ N \in Nat
      /\ \A i \in 1 .. N : saved[i] \in Saved
      /\ \A i \in 1 .. N : saved[i].regs \in Regs /\ saved[i].regs.esp \in Int /\ saved[i].utf \in Int
  BY SavedTypes
<1>2. /\ \A i \in 1 .. N : XBase <= saved[i].utf /\ saved[i].utf + UTrapframe <= XTop
      /\ \A i \in 1 .. N : i > 1 => OnXStack(saved[i].regs.esp)
      /\ \A i \in 1 .. N : i = 1 => ~OnXStack(saved[i].regs.esp)
      /\ \A i \in 1 .. N - 1 : Ctx(i) = saved[i + 1].regs
      /\ N > 0 => Ctx(N) = r
  BY FramePlaces
<1>3. N > 1 => a < saved[N].regs.esp
  BY <1>1 DEF StackInv, UTrapframe
<1>4. ASSUME NEW i \in 1 .. N, i > 1 PROVE a < saved[i].regs.esp
  <2>1. CASE i = N
    BY <1>3, <1>4, <2>1
  <2>2. CASE i < N
    <3>1. N \in 1 .. N /\ saved[N].regs.esp <= saved[i].utf /\ saved[i].utf = saved[i].regs.esp - UTrapframe - 1
      BY <1>1, <1>4, <2>2 DEF StackInv
    <3> QED
      BY <1>1, <1>3, <2>2, <3>1 DEF UTrapframe
  <2> QED
    BY <1>1, <2>1, <2>2
<1>5. ASSUME NEW i \in 1 .. N PROVE a \notin Above(saved[i].regs.esp)
  <2>1. CASE i = 1
    BY <1>1, <1>2, <2>1, LayoutAssumption DEF Above
  <2>2. CASE i > 1
    BY <1>1, <1>2, <1>4, <2>2, LayoutAssumption DEF Above
  <2> QED
    BY <1>1, <2>1, <2>2
<1>6. ASSUME NEW i \in 1 .. N - 1
      PROVE  a < saved[i].utf /\ (saved[i + 1].regs.eip \in {Handler, Null} => a < saved[i].utf - 2)
  <2>1. i \in 1 .. N /\ i + 1 \in 1 .. N /\ i + 1 > 1 /\ i < i + 1 /\ Ctx(i) = saved[i + 1].regs
    BY <1>1, <1>2
  <2>2. a < saved[i + 1].regs.esp
    BY <1>4, <2>1
  <2>3. Inside(saved[i + 1].regs, saved[i])
    BY <2>1 DEF StackInv
  <2>4. saved[i + 1].regs.esp <= saved[i].utf
    BY <2>1 DEF StackInv
  <2>5. saved[i + 1].regs.eip \in {Handler, Null} => saved[i + 1].regs.esp <= saved[i].utf - 2
    BY <2>3 DEF Inside
  <2> QED
    BY <1>1, <2>1, <2>2, <2>4, <2>5
<1> QED
  BY <1>5, <1>6

-----------------------------------------------------------------------------
(* Steps inside the handling of a fault.                                     *)

PlacesOf ==
  /\ N \in Nat
  /\ \A i \in 1 .. N : saved[i].regs \in Regs /\ saved[i].regs.esp \in Int /\ saved[i].utf \in Int
  /\ \A i \in 1 .. N : XBase <= saved[i].utf /\ saved[i].utf + UTrapframe <= XTop
  /\ \A i \in 1 .. N : i > 1 => OnXStack(saved[i].regs.esp)
  /\ \A i \in 1 .. N : i = 1 => ~OnXStack(saved[i].regs.esp)
  /\ \A i \in 1 .. N - 1 : Ctx(i) = saved[i + 1].regs
  /\ N > 0 => Ctx(N) = r

\* Both lemmas on places in one.
LEMMA Places ==
  ASSUME UpcallInv
  PROVE  PlacesOf
<1>1. TypeInv /\ StackInv
  BY DEF UpcallInv
<1>2. /\ N \in Nat
      /\ \A i \in 1 .. N : saved[i] \in Saved
      /\ \A i \in 1 .. N : saved[i].regs \in Regs /\ saved[i].regs.esp \in Int /\ saved[i].utf \in Int
  BY <1>1, SavedTypes
<1>3. /\ \A i \in 1 .. N : XBase <= saved[i].utf /\ saved[i].utf + UTrapframe <= XTop
      /\ \A i \in 1 .. N : i > 1 => OnXStack(saved[i].regs.esp)
      /\ \A i \in 1 .. N : i = 1 => ~OnXStack(saved[i].regs.esp)
      /\ \A i \in 1 .. N - 1 : Ctx(i) = saved[i + 1].regs
      /\ N > 0 => Ctx(N) = r
  BY <1>1, FramePlaces
<1> QED
  BY <1>2, <1>3 DEF PlacesOf

\* Fault n, with its frame, is the newest one.
InFault(n) ==
  /\ N = n /\ n \in 1 .. n /\ Inside(r, saved[n]) /\ FrameOk(n) /\ Ctx(n) = r /\ xstack
  /\ saved[n].utf \in Int /\ XBase <= saved[n].utf /\ saved[n].utf + UTrapframe <= XTop
  /\ r.esp \in Int /\ r.eax \in Int /\ r.eflags \in Int
  /\ saved[n].regs \in Regs /\ saved[n].regs.esp \in Int
  /\ \A a \in Int : XBase <= a /\ a < XTop => a \in Address

\* Code other than the main program's handles a fault.
LEMMA Newest ==
  ASSUME UpcallInv, r.eip # Main
  PROVE  \E n \in Nat \ {0} : InFault(n)
<1>1. PlacesOf
  BY Places
<1>2. N \in Nat \ {0}
  BY <1>1 DEF PlacesOf, UpcallInv, StackInv
<1>3. r.esp \in Int /\ r.eax \in Int /\ r.eflags \in Int
  BY DEF UpcallInv, TypeInv, Regs
<1>4. \A a \in Int : XBase <= a /\ a < XTop => a \in Address
  BY LayoutAssumption DEF Address
<1>5. N \in 1 .. N /\ N > 0
  BY <1>2
<1>6. InFault(N)
  BY <1>1, <1>3, <1>4, <1>5 DEF PlacesOf, UpcallInv, StackInv, FrameInv, InFault
<1> QED
  BY <1>2, <1>6

\* The frame stays while nobody writes to it and _pgfault_upcall has not come back to it.
LEMMA FrameKept ==
  ASSUME NEW f, NEW q, NEW q2, NEW w, NEW w2, FrameIs(f, q, w), f.utf \in Int,
         q.eip \notin Adjusted, q2.eip \notin Adjusted,
         \A b \in f.utf + 1 .. f.utf + 4 : w2[b] = w[b],
         q2.eip \in {Handler, Null} => w2[f.utf - 2] = UpcallBack
  PROVE  FrameIs(f, q2, w2)
<1>1. {f.utf + REGS, f.utf + EIP, f.utf + EFLAGS, f.utf + ESP} \subseteq f.utf + 1 .. f.utf + 4
  BY DEF REGS, EIP, EFLAGS, ESP
<1>2. q2.eip # UpcallRestore
  BY DEF Adjusted
<1> QED
  BY <1>1, <1>2 DEF FrameIs

\* A store of one word.
LEMMA OneWord ==
  ASSUME TypeInv, NEW a \in Address, NEW v \in Int, mem' = [mem EXCEPT ![a] = v]
  PROVE  mem' \in [Address -> Int] /\ mem'[a] = v /\ \A b \in Address : b # a => mem'[b] = mem[b]
BY DEF TypeInv

\* A store into the part of the exception stack that belongs to the handling of the newest
\* fault, or into the word below the stack of the main program, changes neither a word of
\* interrupted code nor an older frame.
LEMMA OthersKept ==
  ASSUME UpcallInv, NEW n \in Nat \ {0}, N = n, mem' \in [Address -> Int],
         \A b \in Address : mem'[b] # mem[b] =>
           b \in XBase .. saved[n].utf + UTrapframe \/ (n = 1 /\ b = saved[n].regs.esp - 1)
  PROVE  /\ \A i \in 1 .. n : \A a \in DOMAIN saved[i].words : mem'[a] = saved[i].words[a]
         /\ \A i \in 1 .. n - 1 : FrameIs(saved[i], saved[i + 1].regs, mem')
<1>1. TypeInv /\ StackInv /\ FrameInv /\ FramesIntact /\ PlacesOf
  BY Places DEF UpcallInv
<1>2. N = n /\ n > 0 /\ low \in Int
  BY LayoutAssumption, <1>1 DEF N, TypeInv
<1>3. ASSUME NEW b \in Address, mem'[b] # mem[b]
      PROVE  /\ \A i \in 1 .. n : b \notin Above(saved[i].regs.esp)
             /\ \A i \in 1 .. n - 1 : b < saved[i].utf /\ (saved[i + 1].regs.eip \in {Handler, Null} => b < saved[i].utf - 2)
  <2>1. b \in Int /\ b < XTop
    BY LayoutAssumption DEF Address
  <2>2. CASE b \in XBase .. saved[n].utf + UTrapframe
    <3>1. TypeInv /\ StackInv /\ b \in Int /\ N > 0 /\ b \in XBase .. saved[N].utf + UTrapframe /\ b < XTop
      BY <1>1, <1>2, <2>1, <2>2
    <3> QED
      BY <1>2, <3>1, Untouched
  <2>3. CASE n = 1 /\ b = saved[n].regs.esp - 1
    <3>1. \A i \in 1 .. n : i = n
      BY <2>3
    <3>2. b \notin Above(saved[n].regs.esp)
      BY <1>1, <1>2, <2>3 DEF PlacesOf, Above
    <3> QED
      BY <2>3, <3>1, <3>2
  <2> QED
    BY <1>3, <2>2, <2>3
<1>4. ASSUME NEW i \in 1 .. n, NEW a \in DOMAIN saved[i].words PROVE mem'[a] = saved[i].words[a]
  <2>1. i \in DOMAIN saved
    BY <1>1, <1>2 DEF TypeInv, N
  <2>2. a \in Above(saved[i].regs.esp) /\ mem[a] = saved[i].words[a]
    BY <1>1, <1>2, <2>1 DEF StackInv, FramesIntact
  <2>3. saved[i] \in Saved /\ a \in Address
    <3>1. saved[i] \in Saved
      BY <1>1, <1>2, <2>1 DEF TypeInv, N
    <3>2. saved[i].words \in Words
      BY <3>1 DEF Saved
    <3> QED
      BY <3>1, <3>2 DEF Words
  <2> QED
    BY <1>3, <2>1, <2>2, <2>3
<1>5. ASSUME NEW i \in 1 .. n - 1 PROVE FrameIs(saved[i], saved[i + 1].regs, mem')
  <2> DEFINE u == saved[i].utf
             q == saved[i + 1].regs
  <2>1. i \in 1 .. n /\ i + 1 \in 1 .. n /\ i + 1 > 1 /\ Ctx(i) = q /\ u \in Int /\ XBase <= u /\ u + UTrapframe <= XTop
    BY <1>1, <1>2, <1>5 DEF PlacesOf
  <2>2. /\ mem[u + REGS] = saved[i].regs.eax /\ mem[u + EIP] = saved[i].regs.eip
        /\ mem[u + EFLAGS] = saved[i].regs.eflags
        /\ mem[u + ESP] = IF q.eip \in Adjusted THEN saved[i].regs.esp - 1 ELSE saved[i].regs.esp
        /\ q.eip \in {Handler, Null} => mem[u - 2] = UpcallBack
    BY <1>1, <1>2, <2>1 DEF FrameInv, FrameOk, FrameIs
  <2>3. q.eip # UpcallRestore /\ Inside(q, saved[i])
    BY <1>1, <1>2, <2>1 DEF StackInv
  <2>4. q.esp \in Int /\ (q.eip \in {Handler, Null} => u - 2 >= XBase)
    BY <1>1, <1>2, <2>1, <2>3, LayoutAssumption DEF Inside, PlacesOf
  <2> HIDE DEF u, q
  <2>5. /\ u + REGS \in Address /\ u + EIP \in Address /\ u + EFLAGS \in Address /\ u + ESP \in Address
        /\ q.eip \in {Handler, Null} => u - 2 \in Address
    <3>1. u \in Int /\ XBase <= u /\ u + UTrapframe <= XTop
      BY <2>1
    <3>2. /\ u + REGS \in Address /\ u + EIP \in Address /\ u + EFLAGS \in Address /\ u + ESP \in Address
          /\ u - 2 >= XBase => u - 2 \in Address
      BY <3>1, LayoutAssumption DEF REGS, EIP, EFLAGS, ESP, UTrapframe, Address
    <3> QED
      BY <2>4, <3>2
  <2>6. \A b \in Address : mem'[b] # mem[b] => b < u /\ (q.eip \in {Handler, Null} => b < u - 2)
    BY <1>3 DEF u, q
  <2>7. /\ mem'[u + REGS] = mem[u + REGS] /\ mem'[u + EIP] = mem[u + EIP]
        /\ mem'[u + EFLAGS] = mem[u + EFLAGS] /\ mem'[u + ESP] = mem[u + ESP]
    BY <2>1, <2>5, <2>6 DEF REGS, EIP, EFLAGS, ESP
  <2>8. q.eip \in {Handler, Null} => mem'[u - 2] = mem[u - 2]
    BY <2>1, <2>5, <2>6
  <2> QED
    BY <2>2, <2>3, <2>7, <2>8 DEF FrameIs, u, q
<1> QED
  BY <1>4, <1>5

\* Code that handles the newest fault keeps the invariant if it keeps to its part of the
\* exception stack, or to the word below the stack of the main program.
LEMMA InnerStep ==
  ASSUME UpcallInv, NEW n \in Nat \ {0}, N = n, saved' = saved, r' \in Regs, mem' \in [Address -> Int],
         low' \in 0 .. low, xstack' = xstack,
         \A b \in Address : mem'[b] # mem[b] =>
           b \in XBase .. saved[n].utf + UTrapframe \/ (n = 1 /\ b = saved[n].regs.esp - 1),
         Inside(r', saved[n]), FrameIs(saved[n], r', mem')
  PROVE  StackInv' /\ FrameInv' /\ FramesIntact'
<1>1. TypeInv /\ StackInv /\ FrameInv /\ FramesIntact /\ PlacesOf
  BY Places DEF UpcallInv
<1>2. N' = n /\ N = n /\ n > 0 /\ low \in Int /\ low' \in Int /\ low' <= low
  BY LayoutAssumption, <1>1 DEF N, TypeInv
<1>3. Ctx(n)' = r' /\ \A i \in 1 .. n - 1 : Ctx(i)' = saved[i + 1].regs
  BY <1>2 DEF Ctx
<1>4. \A i \in 1 .. n : Inside(Ctx(i)', saved[i]')
  <2> SUFFICES ASSUME NEW i \in 1 .. n PROVE Inside(Ctx(i)', saved[i])
    OBVIOUS
  <2>1. CASE i = n
    BY <1>3, <2>1
  <2>2. CASE i \in 1 .. n - 1
    BY <1>1, <1>2, <1>3, <2>2 DEF StackInv, PlacesOf
  <2> QED
    BY <1>2, <2>1, <2>2
<1>5. /\ \A i \in 1 .. n : \A a \in DOMAIN saved[i].words : mem'[a] = saved[i].words[a]
      /\ \A i \in 1 .. n - 1 : FrameIs(saved[i], saved[i + 1].regs, mem')
  BY OthersKept
<1>6. StackInv'
  <2>1. \A i \in 1 .. n : DOMAIN saved[i].words = Above(saved[i].regs.esp)
    BY <1>1, <1>2 DEF StackInv
  <2>2. \A i \in 1 .. n : (DOMAIN saved[i].words = Above(saved[i].regs.esp))'
    BY <2>1 DEF Above, OnXStack
  <2>3. \A i \in 1 .. n : i = 1 =>
         saved[i].regs.eip = Main /\ saved[i].regs.esp \in low' .. UTop /\ saved[i].utf = XTop - UTrapframe
    BY <1>1, <1>2, LayoutAssumption DEF StackInv, PlacesOf
  <2> QED
    BY <1>1, <1>2, <1>4, <2>2, <2>3 DEF StackInv
<1>7. FramesIntact'
  <2>1. DOMAIN saved = 1 .. n
    BY <1>1, <1>2 DEF TypeInv, N
  <2> QED
    BY <1>5, <2>1 DEF FramesIntact
<1>8. FrameInv'
  <2> SUFFICES ASSUME NEW i \in 1 .. n PROVE FrameIs(saved[i], Ctx(i)', mem')
    BY <1>2 DEF FrameInv, FrameOk
  <2>1. CASE i = n
    BY <1>3, <2>1
  <2>2. CASE i \in 1 .. n - 1
    BY <1>3, <1>5, <2>2
  <2> QED
    BY <1>2, <2>1, <2>2
<1> QED
  BY <1>6, <1>7, <1>8

\* pushl %esp.
LEMMA PushArgumentStep ==
  ASSUME UpcallInv, PushArgument
  PROVE  UpcallInv'
<1> DEFINE a == r.esp - 1
<1>1. /\ r.eip = Upcall /\ Mapped(a)
      /\ r' = [r EXCEPT !.esp = r.esp - 1, !.eip = UpcallCall] /\ mem' = [mem EXCEPT ![a] = r.esp]
      /\ UNCHANGED <<mode, saved, low, xstack, env_pgfault_upcall, _pgfault_handler>>
  BY DEF PushArgument, Step, Pushed, handlerVars
<1>2. TypeInv
  BY DEF UpcallInv
<1>3. PICK n \in Nat \ {0} : InFault(n)
  BY <1>1, Newest DEF Main, Upcall
<1> DEFINE u == saved[n].utf
<1>4. u \in Int /\ XBase <= u /\ u + UTrapframe <= XTop /\ r.esp = u
  BY <1>1, <1>3 DEF InFault, Inside
<1>5. a \in Int /\ UTop <= a
  BY <1>4, LayoutAssumption
<1>6. XBase <= a /\ a < XTop /\ a \in Address
  BY <1>1, <1>2, <1>3, <1>5, XMapped DEF InFault
<1>7. /\ r' \in Regs /\ r'.eip = UpcallCall /\ r'.esp = a /\ r'.esp \in Int
  BY <1>1, <1>2, <1>5 DEF TypeInv, Regs, InUpcall
<1>8. mem' \in [Address -> Int] /\ mem'[a] = r.esp /\ \A b \in Address : b # a => mem'[b] = mem[b]
  BY <1>1, <1>2, <1>4, <1>6, OneWord
<1>9. Inside(r', saved[n])
  BY <1>4, <1>6, <1>7, LayoutAssumption DEF Inside, Main, Upcall, UpcallCall, UpcallBack, UpcallStore, UpcallRestore, Handler, Null
<1>10. FrameIs(saved[n], r', mem')
  <2>1. FrameIs(saved[n], r, mem) /\ r.eip \notin Adjusted /\ r'.eip \notin Adjusted /\ r'.eip \notin {Handler, Null}
    BY <1>1, <1>3, <1>7 DEF InFault, FrameOk, Adjusted, Upcall, UpcallCall, UpcallStore, UpcallRestore, Handler, Null
  <2>2. \A b \in u + 1 .. u + 4 : mem'[b] = mem[b]
    BY <1>3, <1>4, <1>8, LayoutAssumption DEF InFault, UTrapframe
  <2> QED
    BY <1>4, <2>1, <2>2, FrameKept
<1>11. StackInv' /\ FrameInv' /\ FramesIntact'
  <2>1. \A b \in Address : mem'[b] # mem[b] => b \in XBase .. u + UTrapframe
    BY <1>4, <1>6, <1>8, LayoutAssumption DEF UTrapframe
  <2>2. low' \in 0 .. low
    BY <1>1, <1>2 DEF TypeInv
  <2> QED
    BY <1>1, <1>3, <1>7, <1>8, <1>9, <1>10, <2>1, <2>2, InnerStep DEF InFault
<1>12. TypeInv'
  BY <1>1, <1>2, <1>7, <1>8 DEF TypeInv
<1> QED
  BY <1>11, <1>12 DEF UpcallInv

\* movl _pgfault_handler, %eax; call *%eax.
LEMMA CallHandlerStep ==
  ASSUME UpcallInv, CallHandler
  PROVE  UpcallInv'
<1> DEFINE a == r.esp - 1
<1>1. /\ r.eip = UpcallCall /\ Mapped(a)
      /\ r' = [eip |-> IF _pgfault_handler = 0 THEN Null ELSE _pgfault_handler,
               esp |-> r.esp - 1, eax |-> _pgfault_handler, eflags |-> r.eflags]
      /\ mem' = [mem EXCEPT ![a] = UpcallBack]
      /\ UNCHANGED <<mode, saved, low, xstack, env_pgfault_upcall, _pgfault_handler>>
  BY DEF CallHandler, Step, Pushed, handlerVars
<1>2. TypeInv
  BY DEF UpcallInv
<1>3. PICK n \in Nat \ {0} : InFault(n)
  BY <1>1, Newest DEF Main, UpcallCall
<1> DEFINE u == saved[n].utf
<1>4. u \in Int /\ XBase <= u /\ u + UTrapframe <= XTop /\ r.esp = u - 1 /\ XBase <= r.esp
  BY <1>1, <1>3, LayoutAssumption DEF InFault, Inside
<1>5. a \in Int /\ UTop <= a /\ a = u - 2
  BY <1>4, LayoutAssumption
<1>6. XBase <= a /\ a < XTop /\ a \in Address
  BY <1>1, <1>2, <1>3, <1>5, XMapped DEF InFault
<1>7. r' \in Regs /\ r'.eip \in {Handler, Null} /\ r'.esp = a /\ r'.esp \in Int
  BY <1>1, <1>2, <1>3, <1>5 DEF TypeInv, Regs, InFault, Handler
<1>8. mem' \in [Address -> Int] /\ mem'[a] = UpcallBack /\ \A b \in Address : b # a => mem'[b] = mem[b]
  <2>1. UpcallBack \in Int
    BY DEF UpcallBack
  <2> QED
    BY <1>1, <1>2, <1>6, <2>1, OneWord
<1>9. Inside(r', saved[n])
  BY <1>4, <1>5, <1>6, <1>7, LayoutAssumption DEF Inside, Main, Upcall, UpcallCall, UpcallBack, UpcallStore, UpcallRestore, Handler, Null
<1>10. FrameIs(saved[n], r', mem')
  <2>1. FrameIs(saved[n], r, mem) /\ r.eip \notin Adjusted /\ r'.eip \notin Adjusted
    BY <1>1, <1>3, <1>7 DEF InFault, FrameOk, Adjusted, UpcallCall, UpcallStore, UpcallRestore, Handler, Null
  <2>2. \A b \in u + 1 .. u + 4 : mem'[b] = mem[b]
    BY <1>3, <1>4, <1>8, LayoutAssumption DEF InFault, UTrapframe
  <2>3. mem'[u - 2] = UpcallBack
    BY <1>5, <1>8
  <2> QED
    BY <1>4, <2>1, <2>2, <2>3, FrameKept
<1>11. StackInv' /\ FrameInv' /\ FramesIntact'
  <2>1. \A b \in Address : mem'[b] # mem[b] => b \in XBase .. u + UTrapframe
    BY <1>4, <1>6, <1>8, LayoutAssumption DEF UTrapframe
  <2>2. low' \in 0 .. low
    BY <1>1, <1>2 DEF TypeInv
  <2> QED
    BY <1>1, <1>3, <1>7, <1>8, <1>9, <1>10, <2>1, <2>2, InnerStep DEF InFault
<1>12. TypeInv'
  BY <1>1, <1>2, <1>7, <1>8 DEF TypeInv
<1> QED
  BY <1>11, <1>12 DEF UpcallInv

\* The handler pushes a word.
LEMMA HandlerPush ==
  ASSUME UpcallInv, Push, r.eip = Handler
  PROVE  UpcallInv'
<1> DEFINE a == r.esp - 1
<1>1. /\ Mapped(a) /\ r' = [r EXCEPT !.esp = r.esp - 1] /\ mem' = [mem EXCEPT ![a] = r.eax]
      /\ UNCHANGED <<mode, saved, low, xstack, env_pgfault_upcall, _pgfault_handler>>
  BY DEF Push, Step, Pushed, handlerVars
<1>2. TypeInv
  BY DEF UpcallInv
<1>3. PICK n \in Nat \ {0} : InFault(n)
  BY Newest DEF Main, Handler
<1> DEFINE u == saved[n].utf
<1>4. u \in Int /\ XBase <= u /\ u + UTrapframe <= XTop /\ r.esp <= u - 2 /\ XBase <= r.esp
  BY <1>3, LayoutAssumption DEF InFault, Inside
<1>5. a \in Int /\ UTop <= a /\ a <= u - 3
  BY <1>3, <1>4, LayoutAssumption DEF InFault
<1>6. XBase <= a /\ a < XTop /\ a \in Address
  BY <1>1, <1>2, <1>3, <1>5, XMapped DEF InFault
<1>7. r' \in Regs /\ r'.eip = Handler /\ r'.esp = a /\ r'.esp \in Int
  BY <1>1, <1>2, <1>5 DEF TypeInv, Regs
<1>8. mem' \in [Address -> Int] /\ mem'[a] = r.eax /\ \A b \in Address : b # a => mem'[b] = mem[b]
  <2>1. r.eax \in Int
    BY <1>3 DEF InFault
  <2> QED
    BY <1>1, <1>2, <1>6, <2>1, OneWord
<1>9. Inside(r', saved[n])
  BY <1>4, <1>5, <1>6, <1>7, LayoutAssumption DEF Inside, Main, Upcall, UpcallCall, UpcallBack, UpcallStore, UpcallRestore, Handler, Null
<1>10. FrameIs(saved[n], r', mem')
  <2>1. FrameIs(saved[n], r, mem) /\ r.eip \notin Adjusted /\ r'.eip \notin Adjusted /\ mem[u - 2] = UpcallBack
    BY <1>3, <1>7 DEF InFault, FrameOk, FrameIs, Adjusted, UpcallStore, UpcallRestore, Handler
  <2>2. \A b \in u + 1 .. u + 4 : mem'[b] = mem[b]
    BY <1>3, <1>4, <1>5, <1>8, LayoutAssumption DEF InFault, UTrapframe
  <2>3. mem'[u - 2] = UpcallBack
    <3>1. u - 2 \in Address /\ u - 2 # a
      BY <1>3, <1>4, <1>5, LayoutAssumption DEF Address, UTrapframe, InFault
    <3> QED
      BY <1>8, <2>1, <3>1
  <2> QED
    BY <1>4, <2>1, <2>2, <2>3, FrameKept
<1>11. StackInv' /\ FrameInv' /\ FramesIntact'
  <2>1. \A b \in Address : mem'[b] # mem[b] => b \in XBase .. u + UTrapframe
    BY <1>4, <1>5, <1>6, <1>8, LayoutAssumption DEF UTrapframe
  <2>2. low' \in 0 .. low
    BY <1>1, <1>2 DEF TypeInv
  <2> QED
    BY <1>1, <1>3, <1>7, <1>8, <1>9, <1>10, <2>1, <2>2, InnerStep DEF InFault
<1>12. TypeInv'
  BY <1>1, <1>2, <1>7, <1>8 DEF TypeInv
<1> QED
  BY <1>11, <1>12 DEF UpcallInv

\* A step of the handler that leaves memory as it is.
LEMMA HandlerQuiet ==
  ASSUME UpcallInv, NEW q \in Regs, q.eip = Handler, r.eip = Handler, r' = q, UNCHANGED <<mem, mode, saved>>,
         UNCHANGED <<xstack, env_pgfault_upcall, _pgfault_handler>>, low' \in 0 .. low,
         q.esp \in XBase .. saved[N].utf - 2
  PROVE  UpcallInv'
<1>1. UNCHANGED <<mem, mode, saved, xstack, env_pgfault_upcall, _pgfault_handler>> /\ low \in 0 .. UTop /\ low' \in 0 .. UTop
  BY LayoutAssumption DEF UpcallInv, TypeInv
<1>2. TypeInv
  BY DEF UpcallInv
<1>3. PICK n \in Nat \ {0} : InFault(n)
  BY Newest DEF Main, Handler
<1> DEFINE u == saved[n].utf
<1>4. u \in Int /\ XBase <= u /\ u + UTrapframe <= XTop /\ q.esp \in XBase .. u - 2
  BY <1>3 DEF InFault
<1>5. mem' = mem
  BY <1>1
<1>6. q.esp \in Int
  BY <1>4, LayoutAssumption
<1>7. r' \in Regs /\ r'.eip = Handler
  OBVIOUS
<1>8. mem' \in [Address -> Int]
  BY <1>2, <1>5 DEF TypeInv
<1>9. Inside(r', saved[n])
  BY <1>4, <1>6, <1>7, LayoutAssumption DEF Inside, Main, Upcall, UpcallCall, UpcallBack, UpcallStore, UpcallRestore, Handler, Null
<1>10. FrameIs(saved[n], r', mem')
  BY <1>3, <1>5, <1>7 DEF InFault, FrameOk, FrameIs
<1>11. StackInv' /\ FrameInv' /\ FramesIntact'
  <2>1. \A b \in Address : mem'[b] # mem[b] => b \in XBase .. u + UTrapframe
    BY <1>5
  <2>2. low' \in 0 .. low
    OBVIOUS
  <2> QED
    BY <1>1, <1>3, <1>7, <1>8, <1>9, <1>10, <2>1, <2>2, InnerStep DEF InFault
<1>12. TypeInv'
  BY <1>1, <1>2, <1>7, <1>8 DEF TypeInv
<1> QED
  BY <1>11, <1>12 DEF UpcallInv

\* ret from the handler, into _pgfault_upcall.
LEMMA HandlerReturnsStep ==
  ASSUME UpcallInv, HandlerReturns
  PROVE  UpcallInv'
<1>1. /\ r.eip = Handler /\ r.esp = saved[Len(saved)].utf - 2
      /\ r' = [r EXCEPT !.eip = mem[r.esp], !.esp = r.esp + 1]
      /\ UNCHANGED <<mem, mode, saved, low, xstack, env_pgfault_upcall, _pgfault_handler>>
  BY DEF HandlerReturns, Step, Bottom, Last, handlerVars, Main, Handler
<1>2. TypeInv
  BY DEF UpcallInv
<1>3. PICK n \in Nat \ {0} : InFault(n)
  BY <1>1, Newest DEF Main, Handler
<1> DEFINE u == saved[n].utf
<1>4. u \in Int /\ XBase <= u /\ u + UTrapframe <= XTop /\ r.esp = u - 2 /\ XBase <= r.esp
  BY <1>1, <1>3, LayoutAssumption DEF InFault, N, Inside
<1>5. mem' = mem
  BY <1>1
<1>6. mem[u - 2] = UpcallBack
  BY <1>1, <1>3 DEF InFault, FrameOk, FrameIs
<1>7. r' \in Regs /\ r'.eip = UpcallBack /\ r'.esp = u - 1
  <2>1. r' = [r EXCEPT !.eip = UpcallBack, !.esp = u - 1]
    <3>1. r.esp + 1 = u - 1 /\ mem[r.esp] = UpcallBack
      BY <1>4, <1>6
    <3> QED
      BY <1>1, <3>1
  <2>2. u - 1 \in Int /\ r \in Regs
    BY <1>2, <1>4 DEF TypeInv
  <2> HIDE DEF u
  <2> QED
    BY <2>1, <2>2 DEF Regs, InUpcall
<1>8. mem' \in [Address -> Int]
  BY <1>2, <1>5 DEF TypeInv
<1>9. Inside(r', saved[n])
  BY <1>4, <1>7, LayoutAssumption DEF Inside, Main, Upcall, UpcallCall, UpcallBack, UpcallStore, UpcallRestore, Handler, Null
<1>10. FrameIs(saved[n], r', mem')
  BY <1>1, <1>3, <1>5, <1>7 DEF InFault, FrameOk, FrameIs, Adjusted, Main, Upcall, UpcallCall, UpcallBack, UpcallStore, UpcallRestore, Handler, Null
<1>11. StackInv' /\ FrameInv' /\ FramesIntact'
  <2>1. \A b \in Address : mem'[b] # mem[b] => b \in XBase .. u + UTrapframe
    BY <1>5
  <2>2. low' \in 0 .. low
    BY <1>1, <1>2 DEF TypeInv
  <2> QED
    BY <1>1, <1>3, <1>7, <1>8, <1>9, <1>10, <2>1, <2>2, InnerStep DEF InFault
<1>12. TypeInv'
  BY <1>1, <1>2, <1>7, <1>8 DEF TypeInv
<1> QED
  BY <1>11, <1>12 DEF UpcallInv

\* _pgfault_upcall makes room on the trap-time stack.
LEMMA AdjustEspStep ==
  ASSUME UpcallInv, AdjustEsp
  PROVE  UpcallInv'
<1>1. r.eip = UpcallBack
  BY DEF AdjustEsp, Step
<1>2. TypeInv
  BY DEF UpcallInv
<1>3. PICK n \in Nat \ {0} : InFault(n)
  BY <1>1, Newest DEF Main, UpcallBack
<1> DEFINE u == saved[n].utf
           a == u + ESP
           top == saved[n].regs.esp - 1
<1>4. u \in Int /\ XBase <= u /\ u + UTrapframe <= XTop /\ r.esp = u - 1 /\ top \in Int
  BY <1>1, <1>3, LayoutAssumption DEF InFault, Inside
<1>5. a \in Int /\ XBase <= a /\ a < XTop /\ a \in Address
  <2>1. a \in Int /\ XBase <= a /\ a < XTop
    BY <1>4, LayoutAssumption DEF ESP, UTrapframe
  <2> QED
    BY <1>3, <2>1 DEF InFault
<1>6. mem[a] = saved[n].regs.esp
  BY <1>1, <1>3 DEF InFault, FrameOk, FrameIs, Adjusted, Main, Upcall, UpcallCall, UpcallBack, UpcallStore, UpcallRestore, Handler, Null
<1>7. /\ r' = [eip |-> UpcallStore, esp |-> u, eax |-> top, eflags |-> 0] /\ mem' = [mem EXCEPT ![a] = top]
      /\ UNCHANGED <<mode, saved, low, xstack, env_pgfault_upcall, _pgfault_handler>>
  <2>1. r.esp + 1 = u
    BY <1>4
  <2> QED
    BY <1>6, <2>1 DEF AdjustEsp, Step, handlerVars
<1>8. mem' \in [Address -> Int] /\ mem'[a] = top /\ \A b \in Address : b # a => mem'[b] = mem[b]
  BY <1>2, <1>4, <1>5, <1>7, OneWord
<1>9. r' \in Regs /\ r'.eip = UpcallStore /\ r'.esp = u /\ r'.eax = top
  BY <1>4, <1>7 DEF Regs, InUpcall
<1>10. Inside(r', saved[n])
  BY <1>4, <1>9, LayoutAssumption DEF Inside, Main, Upcall, UpcallCall, UpcallBack, UpcallStore, UpcallRestore, Handler, Null
<1>11. FrameIs(saved[n], r', mem')
  <2>1. /\ mem[u + REGS] = saved[n].regs.eax /\ mem[u + EIP] = saved[n].regs.eip
        /\ mem[u + EFLAGS] = saved[n].regs.eflags
    BY <1>3 DEF InFault, FrameOk, FrameIs
  <2>2. /\ mem'[u + REGS] = mem[u + REGS] /\ mem'[u + EIP] = mem[u + EIP]
        /\ mem'[u + EFLAGS] = mem[u + EFLAGS]
    <3>1. \A b \in u + 1 .. u + 3 : b \in Address /\ b # a
      <4>1. a = u + 4
        BY DEF ESP
      <4> HIDE DEF u, a
      <4> QED
        BY <1>4, <4>1, LayoutAssumption DEF Address, UTrapframe
    <3>2. u + REGS \in u + 1 .. u + 3 /\ u + EIP \in u + 1 .. u + 3 /\ u + EFLAGS \in u + 1 .. u + 3
      BY <1>4 DEF REGS, EIP, EFLAGS
    <3> QED
      BY <1>8, <3>1, <3>2
  <2> QED
    BY <1>8, <1>9, <2>1, <2>2 DEF FrameIs, Adjusted, Main, Upcall, UpcallCall, UpcallBack, UpcallStore, UpcallRestore, Handler, Null
<1>12. StackInv' /\ FrameInv' /\ FramesIntact'
  <2>1. \A b \in Address : mem'[b] # mem[b] => b \in XBase .. u + UTrapframe
    BY <1>4, <1>5, <1>8, LayoutAssumption DEF UTrapframe, ESP
  <2>2. low' \in 0 .. low
    BY <1>2, <1>7 DEF TypeInv
  <2> QED
    BY <1>3, <1>7, <1>8, <1>9, <1>10, <1>11, <2>1, <2>2, InnerStep DEF InFault
<1>13. TypeInv'
  BY <1>2, <1>7, <1>8, <1>9 DEF TypeInv
<1> QED
  BY <1>12, <1>13 DEF UpcallInv

\* _pgfault_upcall stores the trap-time eip on the trap-time stack: in the scratch word
\* above its frame, or in the word below the main program's stack.
LEMMA StoreEipStep ==
  ASSUME UpcallInv, StoreEip
  PROVE  UpcallInv'
<1>1. /\ r.eip = UpcallStore /\ Mapped(r.eax)
      /\ r' = [r EXCEPT !.eip = UpcallRestore] /\ mem' = [mem EXCEPT ![r.eax] = mem[r.esp + EIP]]
      /\ UNCHANGED <<mode, saved, low, xstack, env_pgfault_upcall, _pgfault_handler>>
  BY DEF StoreEip, Step, handlerVars
<1>2. TypeInv /\ StackInv
  BY DEF UpcallInv
<1>3. PICK n \in Nat \ {0} : InFault(n)
  BY <1>1, Newest DEF Main, UpcallStore
<1> DEFINE u == saved[n].utf
           a == saved[n].regs.esp - 1
<1>4. u \in Int /\ XBase <= u /\ u + UTrapframe <= XTop /\ r.esp = u /\ r.eax = a /\ a \in Int
  BY <1>1, <1>3 DEF InFault, Inside
<1>5. a \in Address
  BY <1>1, <1>2, <1>4, MappedAddress
<1>6. mem[u + EIP] = saved[n].regs.eip /\ saved[n].regs.eip \in Int
  BY <1>3 DEF InFault, FrameOk, FrameIs, Regs, InUpcall, Main, Upcall, UpcallCall, UpcallBack, UpcallStore, UpcallRestore, Handler, Null
<1>7. r' \in Regs /\ r'.eip = UpcallRestore /\ r'.esp = u
  BY <1>1, <1>2, <1>4 DEF TypeInv, Regs, InUpcall
<1>8. mem' \in [Address -> Int] /\ mem'[a] = saved[n].regs.eip /\ \A b \in Address : b # a => mem'[b] = mem[b]
  <2>1. mem' = [mem EXCEPT ![a] = saved[n].regs.eip]
    BY <1>1, <1>4, <1>6
  <2> QED
    BY <1>2, <1>5, <1>6, <2>1, OneWord
<1>9. a = u + UTrapframe \/ (n = 1 /\ a < UTop)
  <2>1. n \in 1 .. N /\ N = n
    BY <1>3 DEF InFault
  <2>2. CASE n = 1
    <3>1. saved[n].regs.esp \in low .. UTop /\ low \in Int
      BY <1>2, <2>1, <2>2, LayoutAssumption DEF StackInv, TypeInv
    <3> QED
      BY <2>2, <3>1, LayoutAssumption
  <2>3. CASE n > 1
    <3>1. u = saved[n].regs.esp - UTrapframe - 1
      BY <1>2, <2>1, <2>3 DEF StackInv
    <3>2. saved[n].regs.esp \in Int
      BY <1>3 DEF InFault
    <3> QED
      BY <3>1, <3>2 DEF UTrapframe
  <2> QED
    BY <2>2, <2>3
<1>10. Inside(r', saved[n])
  BY <1>4, <1>7, LayoutAssumption DEF Inside, Main, Upcall, UpcallCall, UpcallBack, UpcallStore, UpcallRestore, Handler, Null
<1>11. FrameIs(saved[n], r', mem')
  <2>1. /\ mem[u + REGS] = saved[n].regs.eax /\ mem[u + EIP] = saved[n].regs.eip
        /\ mem[u + EFLAGS] = saved[n].regs.eflags /\ mem[u + ESP] = a
    BY <1>1, <1>3 DEF InFault, FrameOk, FrameIs, Adjusted
  <2>2. \A b \in u + 1 .. u + 4 : b \in Address /\ b # a
    BY <1>4, <1>9, LayoutAssumption DEF Address, UTrapframe
  <2>3. /\ mem'[u + REGS] = mem[u + REGS] /\ mem'[u + EIP] = mem[u + EIP]
        /\ mem'[u + EFLAGS] = mem[u + EFLAGS] /\ mem'[u + ESP] = mem[u + ESP]
    BY <1>4, <1>8, <2>2 DEF REGS, EIP, EFLAGS, ESP
  <2> QED
    BY <1>7, <1>8, <2>1, <2>3 DEF FrameIs, Adjusted, Main, Upcall, UpcallCall, UpcallBack, UpcallStore, UpcallRestore, Handler, Null
<1>12. StackInv' /\ FrameInv' /\ FramesIntact'
  <2>1. \A b \in Address : mem'[b] # mem[b] =>
          b \in XBase .. u + UTrapframe \/ (n = 1 /\ b = saved[n].regs.esp - 1)
    BY <1>4, <1>8, <1>9, LayoutAssumption DEF UTrapframe
  <2>2. low' \in 0 .. low
    BY <1>1, <1>2 DEF TypeInv
  <2> QED
    BY <1>1, <1>3, <1>7, <1>8, <1>10, <1>11, <2>1, <2>2, InnerStep DEF InFault
<1>13. TypeInv'
  BY <1>1, <1>2, <1>7, <1>8 DEF TypeInv
<1> QED
  BY <1>12, <1>13 DEF UpcallInv

-----------------------------------------------------------------------------
(* What user code does with its registers.                                   *)

\* A computation changes %eax and the flags.
LEMMA Computed ==
  ASSUME NEW q \in Regs, NEW x \in Int, NEW p, p = [q EXCEPT !.eax = x, !.eflags = x]
  PROVE  p \in Regs /\ p.eip = q.eip /\ p.esp = q.esp
BY DEF Regs

\* A pop changes %esp and %eax.
LEMMA Popped ==
  ASSUME NEW q \in Regs, NEW x \in Int, NEW p, p = [q EXCEPT !.esp = q.esp + 1, !.eax = x]
  PROVE  p \in Regs /\ p.eip = q.eip /\ p.esp = q.esp + 1
<1>1. q.esp + 1 \in Int
  BY DEF Regs
<1>2. q = [eip |-> q.eip, esp |-> q.esp, eax |-> q.eax, eflags |-> q.eflags]
  BY DEF Regs
<1>3. p = [eip |-> q.eip, esp |-> q.esp + 1, eax |-> x, eflags |-> q.eflags]
  BY <1>2
<1> QED
  BY <1>1, <1>3 DEF Regs

\* The handler computes, pops a word of its own, or maps a page.
LEMMA HandlerSteps ==
  ASSUME UpcallInv, r.eip = Handler, (\E word \in Word : Compute(word)) \/ Pop \/ HandlerMaps
  PROVE  UpcallInv'
<1>1. TypeInv /\ r \in Regs /\ low \in 0 .. UTop
  BY DEF UpcallInv, TypeInv
<1>2. PICK n \in Nat \ {0} : InFault(n)
  BY Newest DEF Main, Handler
<1>3. /\ N = n /\ Len(saved) = n /\ saved[N].utf \in Int /\ r.esp \in Int
      /\ XBase <= r.esp /\ r.esp <= saved[N].utf - 2 /\ saved[N].utf + UTrapframe <= XTop
  BY <1>2, LayoutAssumption DEF InFault, Inside, N
<1>4. ASSUME NEW word \in Word, Compute(word) PROVE UpcallInv'
  <2>1. /\ r' = [r EXCEPT !.eax = word, !.eflags = word]
        /\ UNCHANGED <<mem, mode, saved, low, xstack, env_pgfault_upcall, _pgfault_handler>>
    BY <1>4 DEF Compute, Step, handlerVars
  <2>2. r' \in Regs /\ r'.eip = Handler /\ r'.esp = r.esp
    <3>1. word \in Int
      BY WordAssumption
    <3> QED
      BY <1>1, <2>1, <3>1, Computed
  <2>3. r'.esp \in XBase .. saved[N].utf - 2 /\ low' \in 0 .. low
    BY <1>1, <1>3, <2>1, <2>2, LayoutAssumption
  <2> QED
    BY <2>1, <2>2, <2>3, HandlerQuiet
<1>5. CASE Pop
  <2>1. /\ r' = [r EXCEPT !.esp = r.esp + 1, !.eax = mem[r.esp]] /\ r.esp < saved[Len(saved)].utf - 2
        /\ UNCHANGED <<mem, mode, saved, low, xstack, env_pgfault_upcall, _pgfault_handler>>
    BY <1>5 DEF Pop, Step, Bottom, Last, handlerVars, Main, Handler
  <2>2. r.esp \in Address /\ mem[r.esp] \in Int
    <3>1. r.esp \in Address
      BY <1>3, LayoutAssumption DEF Address, UTrapframe
    <3> QED
      BY <1>1, <3>1 DEF TypeInv
  <2>3. r' \in Regs /\ r'.eip = Handler /\ r'.esp = r.esp + 1
    BY <1>1, <2>1, <2>2, Popped
  <2>4. r'.esp \in XBase .. saved[N].utf - 2 /\ low' \in 0 .. low
    <3>1. r.esp < saved[N].utf - 2
      BY <2>1 DEF N
    <3>2. r'.esp \in XBase .. saved[N].utf - 2
      BY <1>3, <2>3, <3>1, LayoutAssumption
    <3> QED
      BY <1>1, <2>1, <3>2, LayoutAssumption
  <2> QED
    BY <2>1, <2>3, <2>4, HandlerQuiet
<1>6. CASE HandlerMaps
  <2>1. /\ r' = r /\ low > 0 /\ low' = low - 1
        /\ UNCHANGED <<mem, mode, saved, xstack, env_pgfault_upcall, _pgfault_handler>>
    BY <1>6 DEF HandlerMaps, Step
  <2>2. r' \in Regs /\ r'.eip = Handler /\ r'.esp = r.esp
    BY <1>1, <2>1
  <2>3. r'.esp \in XBase .. saved[N].utf - 2 /\ low' \in 0 .. low
    BY <1>1, <1>3, <2>1, <2>2, LayoutAssumption
  <2> QED
    BY <2>1, <2>2, <2>3, HandlerQuiet
<1> QED
  BY <1>4, <1>5, <1>6

-----------------------------------------------------------------------------
(* Steps of the main program.                                                *)

\* While the main program runs, no fault is being handled.
LEMMA MainAlone ==
  ASSUME UpcallInv, r.eip = Main
  PROVE  N = 0 /\ saved = <<>> /\ r.esp \in low .. UTop
<1>1. PlacesOf
  BY Places
<1>2. N = 0
  BY <1>1 DEF PlacesOf, UpcallInv, StackInv, Inside
<1> QED
  BY <1>2 DEF UpcallInv, TypeInv, StackInv, N

\* A step of the main program keeps to its stack.
LEMMA MainStep ==
  ASSUME UpcallInv, r.eip = Main, TypeInv', r'.eip = Main, r'.esp \in low' .. UTop, saved' = saved
  PROVE  UpcallInv'
<1>1. N' = 0 /\ saved' = <<>>
  BY MainAlone DEF N
<1>2. StackInv'
  BY <1>1 DEF StackInv
<1>3. FrameInv'
  BY <1>1 DEF FrameInv
<1>4. FramesIntact'
  BY <1>1 DEF FramesIntact
<1> QED
  BY <1>2, <1>3, <1>4 DEF UpcallInv

\* The main program computes, pushes, pops, and registers its handler.
LEMMA MainSteps ==
  ASSUME UpcallInv, r.eip = Main,
         (\E word \in Word : Compute(word)) \/ Push \/ Pop \/ set_pgfault_handler
  PROVE  UpcallInv'
<1>1. TypeInv /\ r \in Regs /\ low \in 0 .. UTop /\ r.esp \in low .. UTop /\ r.esp \in Int /\ r.eax \in Int
  BY MainAlone DEF UpcallInv, TypeInv, Regs
<1>2. ASSUME NEW word \in Word, Compute(word) PROVE UpcallInv'
  <2>1. /\ r' = [r EXCEPT !.eax = word, !.eflags = word]
        /\ UNCHANGED <<mem, mode, saved, low, xstack, env_pgfault_upcall, _pgfault_handler>>
    BY <1>2 DEF Compute, Step, handlerVars
  <2>2. r' \in Regs /\ r'.eip = Main /\ r'.esp = r.esp
    <3>1. word \in Int
      BY WordAssumption
    <3> QED
      BY <1>1, <2>1, <3>1, Computed
  <2>3. TypeInv'
    BY <1>1, <2>1, <2>2 DEF TypeInv
  <2> QED
    BY <1>1, <2>1, <2>2, <2>3, MainStep
<1>3. CASE Push
  <2> DEFINE a == r.esp - 1
  <2>1. /\ Mapped(a) /\ r' = [r EXCEPT !.esp = a] /\ mem' = [mem EXCEPT ![a] = r.eax]
        /\ UNCHANGED <<mode, saved, low, xstack, env_pgfault_upcall, _pgfault_handler>>
    BY <1>3 DEF Push, Step, Pushed, handlerVars
  <2>2. a \in Int /\ low <= a /\ a < UTop
    BY <1>1, <2>1, LayoutAssumption DEF Mapped
  <2>3. a \in Address
    BY <1>1, <2>1, <2>2, MappedAddress
  <2>4. r' \in Regs /\ r'.eip = Main /\ r'.esp = a
    BY <1>1, <2>1, <2>2 DEF Regs
  <2>5. mem' \in [Address -> Int]
    BY <1>1, <2>1, <2>3, OneWord
  <2>6. TypeInv'
    BY <1>1, <2>1, <2>4, <2>5 DEF TypeInv
  <2>7. r'.esp \in low' .. UTop
    BY <1>1, <2>1, <2>2, <2>4, LayoutAssumption
  <2> QED
    BY <2>1, <2>4, <2>6, <2>7, MainStep
<1>4. CASE Pop
  <2>1. /\ r' = [r EXCEPT !.esp = r.esp + 1, !.eax = mem[r.esp]] /\ r.esp < UTop
        /\ UNCHANGED <<mem, mode, saved, low, xstack, env_pgfault_upcall, _pgfault_handler>>
    BY <1>4 DEF Pop, Step, Bottom, handlerVars
  <2>2. mem[r.esp] \in Int
    <3>1. r.esp \in Address
      BY <1>1, <2>1, LayoutAssumption DEF Address
    <3> QED
      BY <1>1, <3>1 DEF TypeInv
  <2>3. r' \in Regs /\ r'.eip = Main /\ r'.esp = r.esp + 1
    BY <1>1, <2>1, <2>2, Popped
  <2>4. TypeInv'
    BY <1>1, <2>1, <2>3 DEF TypeInv
  <2>5. r'.esp \in low' .. UTop
    BY <1>1, <2>1, <2>3, LayoutAssumption
  <2> QED
    BY <2>1, <2>3, <2>4, <2>5, MainStep
<1>5. CASE set_pgfault_handler
  <2>1. /\ UNCHANGED <<r, mem, mode, saved, low>> /\ xstack' \in BOOLEAN /\ env_pgfault_upcall' \in BOOLEAN
        /\ _pgfault_handler' \in {0, Handler}
    BY <1>1, <1>5 DEF set_pgfault_handler, AllocXStack, sys_env_set_pgfault_upcall, SetHandler, Step, TypeInv
  <2>2. TypeInv'
    BY <1>1, <2>1 DEF TypeInv
  <2> QED
    BY <1>1, <2>1, <2>2, MainStep
<1> QED
  BY <1>2, <1>3, <1>4, <1>5

-----------------------------------------------------------------------------
(* Faults.                                                                   *)

\* Memory that is mapped as far as a whole frame, and not all below USTACKTOP, is on the
\* exception stack: the page between the stacks is not mapped.
LEMMA FrameOnXStack ==
  ASSUME TypeInv, NEW utf \in Int, UTop <= utf + 4, user_mem_assert(utf)
  PROVE  xstack /\ XBase <= utf /\ utf + UTrapframe <= XTop
<1>1. \A a \in Int : utf <= a /\ a <= utf + 4 => Mapped(a)
  BY DEF user_mem_assert, UTrapframe
<1>2. xstack /\ XBase <= utf + 4 /\ utf + 4 < XTop
  BY <1>1, XMapped
<1>3. XBase <= utf
  <2> SUFFICES ASSUME utf < XBase PROVE FALSE
    BY LayoutAssumption
  <2>1. XBase - 1 \in Int /\ UTop <= XBase - 1 /\ Mapped(XBase - 1)
    BY <1>1, <1>2, LayoutAssumption
  <2>2. XBase <= XBase - 1
    BY <2>1, XMapped
  <2> QED
    BY <2>2, LayoutAssumption
<1> QED
  BY <1>2, <1>3, LayoutAssumption DEF UTrapframe

\* The kernel's frame goes below everything that is in use on the exception stack.
FrameAt(n, utf) ==
  /\ N = n /\ xstack /\ utf \in Int /\ XBase <= utf /\ utf + UTrapframe <= XTop /\ r.esp \in Int
  /\ r.eip \notin {UpcallBack, UpcallRestore}
  /\ n = 0 => r.eip = Main /\ r.esp \in low .. UTop /\ ~OnXStack(r.esp) /\ utf = XTop - UTrapframe
  /\ n > 0 => /\ InFault(n) /\ OnXStack(r.esp) /\ utf = r.esp - UTrapframe - 1
              /\ \A j \in 1 .. n : r.esp <= saved[j].utf

\* Where user_mem_assert lets the frame go.
LEMMA FramePlaced ==
  ASSUME UpcallInv, Faults, user_mem_assert(UtfAddress)
  PROVE  \E n \in Nat : FrameAt(n, UtfAddress)
<1>1. TypeInv /\ StackInv /\ PlacesOf /\ r.esp \in Int /\ low \in 0 .. UTop
  BY Places DEF UpcallInv, TypeInv, Regs
<1>2. r.eip \notin {UpcallBack, UpcallRestore}
  BY DEF Faults, Main, Handler, Null, Upcall, UpcallCall, UpcallBack, UpcallStore, UpcallRestore
<1>3. CASE r.eip = Main
  <2>1. N = 0 /\ r.esp \in low .. UTop
    BY <1>3, MainAlone
  <2>2. ~OnXStack(r.esp)
    BY <1>1, <2>1, LayoutAssumption DEF OnXStack
  <2>3. UtfAddress = XTop - UTrapframe /\ UtfAddress \in Int /\ UTop <= UtfAddress + 4
    BY <2>2, LayoutAssumption DEF UtfAddress, UTrapframe
  <2>4. xstack /\ XBase <= UtfAddress /\ UtfAddress + UTrapframe <= XTop
    BY <1>1, <2>3, FrameOnXStack
  <2>5. FrameAt(0, UtfAddress)
    BY <1>1, <1>2, <1>3, <2>1, <2>2, <2>3, <2>4 DEF FrameAt
  <2> QED
    BY <2>5
<1>4. CASE r.eip # Main
  <2>1. PICK n \in Nat \ {0} : InFault(n)
    BY <1>4, Newest
  <2>2. /\ N = n /\ n \in 1 .. n /\ saved[n].utf \in Int /\ XBase <= r.esp /\ r.esp <= saved[n].utf
        /\ saved[n].utf + UTrapframe <= XTop
    BY <1>1, <2>1, LayoutAssumption DEF InFault, Inside
  <2>3. OnXStack(r.esp)
    BY <1>1, <2>2, LayoutAssumption DEF OnXStack, UTrapframe
  <2>4. UtfAddress = r.esp - UTrapframe - 1 /\ UtfAddress \in Int /\ UTop <= UtfAddress + 4
    BY <1>1, <2>2, <2>3, LayoutAssumption DEF UtfAddress, UTrapframe
  <2>5. xstack /\ XBase <= UtfAddress /\ UtfAddress + UTrapframe <= XTop
    BY <1>1, <2>4, FrameOnXStack
  <2>6. ASSUME NEW j \in 1 .. n PROVE r.esp <= saved[j].utf
    <3>1. CASE j = n
      BY <2>2, <3>1
    <3>2. CASE j < n
      <4>1. n > 1 /\ n \in 1 .. N /\ j \in 1 .. N
        BY <2>2, <3>2
      <4>2. saved[n].regs.esp <= saved[j].utf /\ saved[n].utf = saved[n].regs.esp - UTrapframe - 1
        BY <1>1, <3>2, <4>1 DEF StackInv
      <4>3. saved[n].regs.esp \in Int /\ saved[j].utf \in Int
        BY <1>1, <4>1 DEF PlacesOf
      <4> QED
        BY <1>1, <2>2, <4>2, <4>3 DEF UTrapframe
    <3> QED
      BY <3>1, <3>2
  <2>7. FrameAt(n, UtfAddress)
    BY <1>1, <1>2, <2>1, <2>2, <2>3, <2>4, <2>5, <2>6 DEF FrameAt
  <2> QED
    BY <2>7
<1> QED
  BY <1>3, <1>4

\* The four words that the kernel stores.
LEMMA FrameStored ==
  ASSUME UpcallInv, NEW n \in Nat, NEW utf \in Int, FrameAt(n, utf), mem' = PushFrame(utf)
  PROVE  /\ mem' \in [Address -> Int]
         /\ mem'[utf + REGS] = r.eax /\ mem'[utf + EIP] = r.eip
         /\ mem'[utf + EFLAGS] = r.eflags /\ mem'[utf + ESP] = r.esp
         /\ \A b \in Address : mem'[b] # mem[b] => utf + 1 <= b /\ b <= utf + 4
<1>1. mem \in [Address -> Int] /\ r.eax \in Int /\ r.eip \in Int /\ r.eflags \in Int /\ r.esp \in Int
  BY DEF UpcallInv, TypeInv, Regs, InUpcall, Main, Upcall, UpcallCall, UpcallBack, UpcallStore, UpcallRestore, Handler, Null
<1>2. XBase <= utf /\ utf + 5 <= XTop
  BY DEF FrameAt, UTrapframe
<1>3. utf + 1 \in Address /\ utf + 2 \in Address /\ utf + 3 \in Address /\ utf + 4 \in Address
  BY <1>2, LayoutAssumption DEF Address
<1>4. mem' = [mem EXCEPT ![utf + 1] = r.eax, ![utf + 2] = r.eip, ![utf + 3] = r.eflags, ![utf + 4] = r.esp]
  BY DEF PushFrame, REGS, EIP, EFLAGS, ESP
<1> DEFINE w1 == [mem EXCEPT ![utf + 1] = r.eax]
           w2 == [w1 EXCEPT ![utf + 2] = r.eip]
           w3 == [w2 EXCEPT ![utf + 3] = r.eflags]
           w4 == [w3 EXCEPT ![utf + 4] = r.esp]
<1>5. mem' = w4
  BY <1>4
<1>6. w1 \in [Address -> Int] /\ w1[utf + 1] = r.eax /\ \A b \in Address : b # utf + 1 => w1[b] = mem[b]
  BY <1>1, <1>3
<1>7. w2 \in [Address -> Int] /\ w2[utf + 2] = r.eip /\ \A b \in Address : b # utf + 2 => w2[b] = w1[b]
  <2> HIDE DEF w1
  <2> QED
    BY <1>1, <1>3, <1>6
<1>8. w3 \in [Address -> Int] /\ w3[utf + 3] = r.eflags /\ \A b \in Address : b # utf + 3 => w3[b] = w2[b]
  <2> HIDE DEF w2
  <2> QED
    BY <1>1, <1>3, <1>7
<1>9. w4 \in [Address -> Int] /\ w4[utf + 4] = r.esp /\ \A b \in Address : b # utf + 4 => w4[b] = w3[b]
  <2> HIDE DEF w3
  <2> QED
    BY <1>1, <1>3, <1>8
<1> HIDE DEF w1, w2, w3, w4
<1>10. mem'[utf + 1] = r.eax /\ mem'[utf + 2] = r.eip /\ mem'[utf + 3] = r.eflags /\ mem'[utf + 4] = r.esp
  BY <1>3, <1>5, <1>6, <1>7, <1>8, <1>9
<1>11. \A b \in Address : mem'[b] # mem[b] => b = utf + 1 \/ b = utf + 2 \/ b = utf + 3 \/ b = utf + 4
  BY <1>5, <1>6, <1>7, <1>8, <1>9
<1>12. \A b \in Address : mem'[b] # mem[b] => utf + 1 <= b /\ b <= utf + 4
  BY <1>11
<1> QED
  BY <1>5, <1>9, <1>10, <1>12 DEF REGS, EIP, EFLAGS, ESP

\* What is recorded of the interrupted code.
Interrupted(utf) == [regs |-> r, utf |-> utf, words |-> [a \in Above(r.esp) |-> mem[a]]]

\* The interrupted code's record: its words are words of the memory.
LEMMA Recorded ==
  ASSUME UpcallInv, NEW n \in Nat, NEW utf \in Int, FrameAt(n, utf)
  PROVE  Interrupted(utf) \in Saved /\ Above(r.esp) \in SUBSET Address
<1>1. mem \in [Address -> Int] /\ r \in Regs /\ low \in 0 .. UTop /\ r.esp \in Int
  BY DEF UpcallInv, TypeInv, Regs
<1>2. Above(r.esp) \in SUBSET Address
  <2>1. CASE n = 0
    <3>1. ~OnXStack(r.esp) /\ r.esp \in low .. UTop
      BY <2>1 DEF FrameAt
    <3> QED
      BY <1>1, <3>1, LayoutAssumption DEF Above, Address
  <2>2. CASE n > 0
    <3>1. OnXStack(r.esp)
      BY <2>2 DEF FrameAt
    <3> QED
      BY <1>1, <3>1, LayoutAssumption DEF Above, OnXStack, Address
  <2> QED
    BY <2>1, <2>2
<1>3. [a \in Above(r.esp) |-> mem[a]] \in [Above(r.esp) -> Int]
  BY <1>1, <1>2
<1>4. [a \in Above(r.esp) |-> mem[a]] \in Words
  BY <1>2, <1>3 DEF Words
<1> QED
  BY <1>1, <1>2, <1>4 DEF Interrupted, Saved

\* A frame at v, below a frame at u.
LEMMA BelowFrame ==
  ASSUME NEW u \in Int, NEW v \in Int, XBase <= u, u + UTrapframe <= XTop, XBase <= v, v + 4 < u - 1
  PROVE  /\ u + REGS \in Address /\ u + EIP \in Address /\ u + EFLAGS \in Address /\ u + ESP \in Address
         /\ u + REGS > v + 4 /\ u + EIP > v + 4 /\ u + EFLAGS > v + 4 /\ u + ESP > v + 4
         /\ \A b \in Address : v + 1 <= b /\ b <= v + 4 => b \in XBase .. u + UTrapframe
         /\ v + 4 < u - 2 => u - 2 \in Address /\ u - 2 > v + 4
BY LayoutAssumption DEF REGS, EIP, EFLAGS, ESP, UTrapframe, Address

\* The kernel reflects a fault: a new frame, below everything in use.
LEMMA FaultStep ==
  ASSUME UpcallInv, NEW n \in Nat, NEW utf \in Int, FrameAt(n, utf), mem' = PushFrame(utf),
         r' = [r EXCEPT !.eip = Upcall, !.esp = utf], saved' = Append(saved, Interrupted(utf)),
         UNCHANGED <<mode, low, xstack, env_pgfault_upcall, _pgfault_handler>>
  PROVE  UpcallInv'
<1> DEFINE f == Interrupted(utf)
<1>1. TypeInv /\ StackInv /\ FrameInv /\ FramesIntact /\ PlacesOf /\ r \in Regs /\ N = n
  BY Places DEF UpcallInv, TypeInv, FrameAt
<1>2. f \in Saved /\ Above(r.esp) \in SUBSET Address
  BY Recorded
<1>3. f.regs = r /\ f.utf = utf /\ f.words = [a \in Above(r.esp) |-> mem[a]]
  BY DEF Interrupted
<1>4. saved' = Append(saved, f)
  OBVIOUS
<1> HIDE DEF f
<1>5. /\ saved' \in Seq(Saved) /\ N' = n + 1 /\ DOMAIN saved' = 1 .. n + 1
      /\ saved'[n + 1] = f /\ \A i \in 1 .. n : saved'[i] = saved[i]
  BY <1>1, <1>2, <1>4 DEF TypeInv, N
<1>6. \A i \in 1 .. n + 1 : i = n + 1 \/ i \in 1 .. n
  OBVIOUS
<1>7. r' \in Regs /\ r'.eip = Upcall /\ r'.esp = utf
  BY <1>1 DEF Regs, InUpcall
<1>8. /\ mem' \in [Address -> Int]
      /\ mem'[utf + REGS] = r.eax /\ mem'[utf + EIP] = r.eip
      /\ mem'[utf + EFLAGS] = r.eflags /\ mem'[utf + ESP] = r.esp
      /\ \A b \in Address : mem'[b] # mem[b] => utf + 1 <= b /\ b <= utf + 4
  BY FrameStored
<1>9. TypeInv'
  BY <1>1, <1>5, <1>7, <1>8 DEF TypeInv
<1>10. Ctx(n + 1)' = r' /\ \A i \in 1 .. n : Ctx(i)' = Ctx(i)
  <2>1. Ctx(n + 1)' = r'
    BY <1>5 DEF Ctx
  <2>2. ASSUME NEW i \in 1 .. n PROVE Ctx(i)' = Ctx(i)
    <3>1. Ctx(i)' = saved'[i + 1].regs
      BY <1>5 DEF Ctx
    <3>2. CASE i = n
      BY <1>1, <1>3, <1>5, <3>1, <3>2 DEF Ctx
    <3>3. CASE i < n
      <4>1. i + 1 \in 1 .. n
        BY <3>3
      <4> QED
        BY <1>1, <1>5, <3>1, <3>3, <4>1 DEF Ctx
    <3> QED
      BY <1>6, <3>2, <3>3
  <2> QED
    BY <2>1, <2>2
<1>11. /\ utf \in Int /\ XBase <= utf /\ utf + UTrapframe <= XTop /\ r.esp \in Int
       /\ r.eip \notin {UpcallBack, UpcallRestore} /\ xstack' = xstack /\ xstack /\ low' = low
  BY DEF FrameAt
<1>12. StackInv'
  <2>1. Inside(r', f)
    BY <1>3, <1>7, <1>11, LayoutAssumption DEF Inside, Main, Upcall, UpcallCall, UpcallBack, UpcallStore, UpcallRestore, Handler, Null
  <2>2. DOMAIN f.words = Above(f.regs.esp)
    BY <1>3
  <2>3. \A i \in 1 .. n : Inside(Ctx(i), saved[i]) /\ DOMAIN saved[i].words = Above(saved[i].regs.esp)
    BY <1>1 DEF StackInv
  <2>4. \A i \in 1 .. n + 1 : Inside(Ctx(i)', saved'[i]) /\ DOMAIN saved'[i].words = Above(saved'[i].regs.esp)
    <3> SUFFICES ASSUME NEW i \in 1 .. n + 1
                 PROVE  Inside(Ctx(i)', saved'[i]) /\ DOMAIN saved'[i].words = Above(saved'[i].regs.esp)
      OBVIOUS
    <3>1. CASE i = n + 1
      BY <1>5, <1>10, <2>1, <2>2, <3>1
    <3>2. CASE i \in 1 .. n
      BY <1>5, <1>10, <2>3, <3>2
    <3> QED
      BY <1>6, <3>1, <3>2
  <2>5. \A i \in 1 .. n + 1 : i = 1 =>
          saved'[i].regs.eip = Main /\ saved'[i].regs.esp \in low .. UTop /\ saved'[i].utf = XTop - UTrapframe
    <3>1. CASE n = 0
      BY <1>3, <1>5, <3>1 DEF FrameAt
    <3>2. CASE n > 0
      <4>1. 1 \in 1 .. n
        BY <3>2
      <4> QED
        BY <1>1, <1>5, <4>1 DEF StackInv
    <3> QED
      BY <1>6, <3>1, <3>2
  <2>6. \A i \in 1 .. n + 1 : i > 1 =>
          saved'[i].utf = saved'[i].regs.esp - UTrapframe - 1 /\ saved'[i].regs.eip \notin {UpcallBack, UpcallRestore}
    <3> SUFFICES ASSUME NEW i \in 1 .. n + 1, i > 1
                 PROVE  saved'[i].utf = saved'[i].regs.esp - UTrapframe - 1 /\ saved'[i].regs.eip \notin {UpcallBack, UpcallRestore}
      OBVIOUS
    <3>1. CASE i = n + 1
      BY <1>3, <1>5, <1>11, <3>1 DEF FrameAt
    <3>2. CASE i \in 1 .. n
      BY <1>1, <1>5, <3>2 DEF StackInv
    <3> QED
      BY <1>6, <3>1, <3>2
  <2>7. \A i \in 1 .. n + 1 : saved'[i].utf >= XBase
    <3> SUFFICES ASSUME NEW i \in 1 .. n + 1 PROVE saved'[i].utf >= XBase
      OBVIOUS
    <3>1. CASE i = n + 1
      BY <1>3, <1>5, <1>11, <3>1, LayoutAssumption
    <3>2. CASE i \in 1 .. n
      BY <1>1, <1>5, <3>2 DEF StackInv
    <3> QED
      BY <1>6, <3>1, <3>2
  <2>8. \A i, j \in 1 .. n + 1 : j < i => saved'[i].regs.esp <= saved'[j].utf
    <3> SUFFICES ASSUME NEW i \in 1 .. n + 1, NEW j \in 1 .. n + 1, j < i
                 PROVE  saved'[i].regs.esp <= saved'[j].utf
      OBVIOUS
    <3>1. j \in 1 .. n
      OBVIOUS
    <3>2. CASE i = n + 1
      BY <1>3, <1>5, <3>1, <3>2 DEF FrameAt
    <3>3. CASE i \in 1 .. n
      BY <1>1, <1>5, <3>1, <3>3 DEF StackInv
    <3> QED
      BY <1>6, <3>2, <3>3
  <2>9. N' # 0
    BY <1>5
  <2> QED
    BY <1>5, <1>11, <2>4, <2>5, <2>6, <2>7, <2>8, <2>9 DEF StackInv, Above, OnXStack
<1>13. ASSUME n > 0
       PROVE  /\ \A i \in 1 .. n : \A a \in DOMAIN saved[i].words : mem'[a] = saved[i].words[a]
              /\ \A i \in 1 .. n : FrameIs(saved[i], Ctx(i), mem')
  <2> DEFINE u == saved[n].utf
  <2>1. InFault(n) /\ utf = r.esp - UTrapframe - 1 /\ r.esp <= u /\ u \in Int /\ n \in 1 .. n
    BY <1>13 DEF FrameAt, InFault
  <2>2. utf + 4 < u - 1
    BY <1>11, <2>1 DEF UTrapframe
  <2>3. /\ u + REGS \in Address /\ u + EIP \in Address /\ u + EFLAGS \in Address /\ u + ESP \in Address
        /\ u + REGS > utf + 4 /\ u + EIP > utf + 4 /\ u + EFLAGS > utf + 4 /\ u + ESP > utf + 4
        /\ \A b \in Address : utf + 1 <= b /\ b <= utf + 4 => b \in XBase .. u + UTrapframe
        /\ utf + 4 < u - 2 => u - 2 \in Address /\ u - 2 > utf + 4
    <3>1. XBase <= u /\ u + UTrapframe <= XTop
      BY <2>1 DEF InFault
    <3> HIDE DEF u
    <3> QED
      BY <1>11, <2>1, <2>2, <3>1, BelowFrame
  <2>4. \A b \in Address : mem'[b] # mem[b] => b \in XBase .. u + UTrapframe
    BY <1>8, <2>3
  <2>5. n \in Nat \ {0}
    BY <1>13
  <2>6. /\ \A i \in 1 .. n : \A a \in DOMAIN saved[i].words : mem'[a] = saved[i].words[a]
        /\ \A i \in 1 .. n - 1 : FrameIs(saved[i], saved[i + 1].regs, mem')
    BY <1>1, <1>8, <2>4, <2>5, OthersKept
  <2>7. FrameIs(saved[n], r, mem')
    <3>1. FrameIs(saved[n], r, mem) /\ Inside(r, saved[n]) /\ XBase <= u /\ u + UTrapframe <= XTop
      BY <2>1 DEF InFault, FrameOk
    <3>2. \A b \in Address : b > utf + 4 => mem'[b] = mem[b]
      <4>1. \A b \in Address : b \in Int
        BY DEF Address
      <4> QED
        BY <1>8, <1>11, <4>1
    <3>3. r.eip \in {Handler, Null} => utf + 4 < u - 2
      <4>1. r.eip \in {Handler, Null} => r.esp <= u - 2
        BY <3>1 DEF Inside
      <4> HIDE DEF u
      <4> QED
        BY <1>11, <2>1, <4>1 DEF UTrapframe
    <3>4. r.eip \in {Handler, Null} => u - 2 \in Address /\ u - 2 > utf + 4
      BY <2>3, <3>3
    <3>5. /\ mem'[u + REGS] = mem[u + REGS] /\ mem'[u + EIP] = mem[u + EIP]
          /\ mem'[u + EFLAGS] = mem[u + EFLAGS] /\ mem'[u + ESP] = mem[u + ESP]
          /\ r.eip \in {Handler, Null} => mem'[u - 2] = mem[u - 2]
      BY <2>3, <3>2, <3>4
    <3> QED
      BY <1>11, <3>1, <3>5 DEF FrameIs
  <2>8. \A i \in 1 .. n : i = n \/ i \in 1 .. n - 1
    OBVIOUS
  <2>9. Ctx(n) = r /\ \A i \in 1 .. n - 1 : Ctx(i) = saved[i + 1].regs
    BY <1>1, <2>5 DEF PlacesOf
  <2> QED
    BY <2>6, <2>7, <2>8, <2>9
<1>14. FrameInv'
  <2> SUFFICES ASSUME NEW i \in 1 .. n + 1 PROVE FrameIs(saved'[i], Ctx(i)', mem')
    BY <1>5 DEF FrameInv, FrameOk
  <2>1. CASE i = n + 1
    <3>1. FrameIs(f, r', mem')
      BY <1>3, <1>7, <1>8 DEF FrameIs, Adjusted, Main, Upcall, UpcallCall, UpcallBack, UpcallStore, UpcallRestore, Handler, Null
    <3> QED
      BY <1>5, <1>10, <2>1, <3>1
  <2>2. CASE i \in 1 .. n
    <3>1. n > 0
      BY <2>2
    <3> QED
      BY <1>5, <1>10, <1>13, <2>2, <3>1
  <2> QED
    BY <1>6, <2>1, <2>2
<1>15. FramesIntact'
  <2> SUFFICES ASSUME NEW i \in 1 .. n + 1, NEW a \in DOMAIN saved'[i].words
               PROVE  mem'[a] = saved'[i].words[a]
    BY <1>5 DEF FramesIntact
  <2>1. CASE i = n + 1
    <3>1. a \in Above(r.esp) /\ saved'[i].words[a] = mem[a] /\ a \in Address
      BY <1>2, <1>3, <1>5, <2>1
    <3>2. a \in Int /\ ~(utf + 1 <= a /\ a <= utf + 4)
      <4>1. CASE n = 0
        <5>1. a < UTop /\ a \in Int
          BY <3>1, <4>1, <1>11, LayoutAssumption DEF FrameAt, Above
        <5> QED
          BY <1>11, <5>1, LayoutAssumption
      <4>2. CASE n > 0
        <5>1. OnXStack(r.esp) /\ utf = r.esp - UTrapframe - 1
          BY <4>2 DEF FrameAt
        <5>2. a >= r.esp /\ a \in Int
          BY <1>11, <3>1, <5>1, LayoutAssumption DEF Above
        <5> QED
          BY <1>11, <5>1, <5>2 DEF UTrapframe
      <4> QED
        BY <4>1, <4>2
    <3> QED
      BY <1>8, <3>1, <3>2
  <2>2. CASE i \in 1 .. n
    <3>1. n > 0
      BY <2>2
    <3> QED
      BY <1>5, <1>13, <2>2, <3>1
  <2> QED
    BY <1>6, <2>1, <2>2
<1> QED
  BY <1>9, <1>12, <1>14, <1>15 DEF UpcallInv

-----------------------------------------------------------------------------
(* The end of a fault.                                                       *)

\* popal, popfl, popl %esp and ret give back the registers of the interrupted code.
LEMMA RestoreGives ==
  ASSUME UpcallInv, Restore
  PROVE  \E n \in Nat \ {0} : InFault(n) /\ r' = saved[n].regs /\ saved' = SubSeq(saved, 1, n - 1)
<1>1. r.eip = UpcallRestore
  BY DEF Restore
<1>2. PICK n \in Nat \ {0} : InFault(n)
  BY <1>1, Newest DEF Main, UpcallRestore
<1> DEFINE u == saved[n].utf
           q == saved[n].regs
<1>3. r.esp = u /\ q \in Regs /\ Len(saved) = n
  BY <1>1, <1>2 DEF InFault, Inside, N
<1>4. /\ mem[u + REGS] = q.eax /\ mem[u + EFLAGS] = q.eflags
      /\ mem[u + ESP] = q.esp - 1 /\ mem[q.esp - 1] = q.eip
  BY <1>1, <1>2 DEF InFault, FrameOk, FrameIs, Adjusted
<1>5. q.esp - 1 + 1 = q.esp
  BY <1>3 DEF Regs
<1>6. r' = [eip |-> q.eip, esp |-> q.esp, eax |-> q.eax, eflags |-> q.eflags]
  BY <1>3, <1>4, <1>5 DEF Restore
<1>7. r' = q
  BY <1>3, <1>6 DEF Regs
<1>8. saved' = SubSeq(saved, 1, n - 1)
  BY <1>3 DEF Restore, Front
<1> QED
  BY <1>2, <1>7, <1>8

\* The interrupted code, or the handling of the fault before, goes on.
LEMMA RestoreStep ==
  ASSUME UpcallInv, Restore
  PROVE  UpcallInv'
<1>1. PICK n \in Nat \ {0} : InFault(n) /\ r' = saved[n].regs /\ saved' = SubSeq(saved, 1, n - 1)
  BY RestoreGives
<1>2. TypeInv /\ StackInv /\ FrameInv /\ FramesIntact /\ PlacesOf /\ N = n /\ n - 1 \in Nat /\ n \in 1 .. n
  BY <1>1, Places DEF UpcallInv, InFault
<1>3. UNCHANGED <<mem, mode, low, xstack, env_pgfault_upcall, _pgfault_handler>>
  BY DEF Restore, handlerVars
<1>4. /\ saved' \in Seq(Saved) /\ N' = n - 1 /\ DOMAIN saved' = 1 .. n - 1
      /\ \A i \in 1 .. n - 1 : saved'[i] = saved[i]
  BY <1>1, <1>2 DEF TypeInv, N
<1>5. r' \in Regs
  BY <1>1 DEF InFault
<1>6. TypeInv'
  BY <1>2, <1>3, <1>4, <1>5 DEF TypeInv
<1>7. \A i \in 1 .. n - 1 : i \in 1 .. n /\ Ctx(i)' = Ctx(i)
  <2> SUFFICES ASSUME NEW i \in 1 .. n - 1 PROVE Ctx(i)' = saved[i + 1].regs
    BY <1>2 DEF PlacesOf
  <2>1. CASE i = n - 1
    BY <1>1, <1>4, <2>1 DEF Ctx
  <2>2. CASE i < n - 1
    <3>1. i + 1 \in 1 .. n - 1
      BY <2>2
    <3> QED
      BY <1>4, <2>2, <3>1 DEF Ctx
  <2> QED
    BY <2>1, <2>2
<1>8. StackInv'
  <2>1. n - 1 = 0 => r'.eip = Main /\ r'.esp \in low .. UTop
    BY <1>1, <1>2 DEF StackInv
  <2>2. n - 1 > 0 => xstack
    BY <1>1 DEF InFault
  <2>3. \A i \in 1 .. n - 1 : Inside(Ctx(i)', saved'[i]) /\ DOMAIN saved'[i].words = Above(saved'[i].regs.esp)
    BY <1>2, <1>4, <1>7 DEF StackInv
  <2>4. \A i \in 1 .. n - 1 : i = 1 =>
          saved'[i].regs.eip = Main /\ saved'[i].regs.esp \in low .. UTop /\ saved'[i].utf = XTop - UTrapframe
    BY <1>2, <1>4, <1>7 DEF StackInv
  <2>5. \A i \in 1 .. n - 1 : i > 1 =>
          saved'[i].utf = saved'[i].regs.esp - UTrapframe - 1 /\ saved'[i].regs.eip \notin {UpcallBack, UpcallRestore}
    BY <1>2, <1>4, <1>7 DEF StackInv
  <2>6. \A i \in 1 .. n - 1 : saved'[i].utf >= XBase
    BY <1>2, <1>4, <1>7 DEF StackInv
  <2>7. \A i, j \in 1 .. n - 1 : j < i => saved'[i].regs.esp <= saved'[j].utf
    BY <1>2, <1>4, <1>7 DEF StackInv
  <2> QED
    BY <1>3, <1>4, <2>1, <2>2, <2>3, <2>4, <2>5, <2>6, <2>7 DEF StackInv, Above, OnXStack
<1>9. FrameInv'
  BY <1>2, <1>3, <1>4, <1>7 DEF FrameInv, FrameOk
<1>10. FramesIntact'
  <2>1. DOMAIN saved = 1 .. n
    BY <1>2 DEF TypeInv, N
  <2> QED
    BY <1>2, <1>3, <1>4, <1>7, <2>1 DEF FramesIntact
<1> QED
  BY <1>6, <1>8, <1>9, <1>10 DEF UpcallInv

-----------------------------------------------------------------------------
(* The theorems.                                                             *)

\* A step that leaves all but the mode as it is.
LEMMA UpcallIdle ==
  ASSUME UpcallInv, UNCHANGED <<r, mem, low, xstack, env_pgfault_upcall, _pgfault_handler, saved>>,
         mode' \in {"user", "destroyed"}
  PROVE  UpcallInv'
<1>1. TypeInv'
  BY DEF UpcallInv, TypeInv
<1>2. StackInv'
  BY DEF UpcallInv, StackInv, Ctx, N, Above, OnXStack
<1>3. FrameInv' /\ FramesIntact'
  BY DEF UpcallInv, FrameInv, FrameOk, Ctx, N, FramesIntact
<1> QED
  BY <1>1, <1>2, <1>3 DEF UpcallInv

\* A page fault: the environment is destroyed, or its frame is pushed.
LEMMA FaultKeeps ==
  ASSUME UpcallInv, Fault
  PROVE  UpcallInv'
<1>1. Faults /\ page_fault_handler /\ UNCHANGED <<low, xstack, env_pgfault_upcall, _pgfault_handler>>
  BY DEF Fault, handlerVars
<1>2. CASE ~(env_pgfault_upcall /\ user_mem_assert(UtfAddress))
  <2>1. mode' = "destroyed" /\ UNCHANGED <<r, mem, saved>>
    BY <1>1, <1>2 DEF page_fault_handler
  <2> QED
    BY <1>1, <2>1, UpcallIdle
<1>3. CASE env_pgfault_upcall /\ user_mem_assert(UtfAddress)
  <2>2. /\ mem' = PushFrame(UtfAddress) /\ r' = [r EXCEPT !.eip = Upcall, !.esp = UtfAddress]
        /\ saved' = Append(saved, Interrupted(UtfAddress)) /\ mode' = mode
    BY <1>1, <1>3 DEF page_fault_handler, Interrupted
  <2>3. PICK n \in Nat : FrameAt(n, UtfAddress)
    BY <1>1, <1>3, FramePlaced
  <2>4. UtfAddress \in Int
    BY <2>3 DEF FrameAt
  <2> QED
    BY <1>1, <2>2, <2>3, <2>4, FaultStep
<1> QED
  BY <1>2, <1>3

\* The initial state: the main program, with no fault to handle.
LEMMA UpcallInvInit ==
  ASSUME Init
  PROVE  UpcallInv
<1>1. TypeInv
  <2>1. r \in Regs
    BY LayoutAssumption DEF Init, Regs
  <2>2. mem \in [Address -> Int]
    BY DEF Init, Address
  <2>3. low \in 0 .. UTop
    BY LayoutAssumption DEF Init
  <2>4. xstack \in BOOLEAN /\ env_pgfault_upcall \in BOOLEAN
    BY DEF Init
  <2>5. _pgfault_handler \in {0, Handler} /\ mode \in {"user", "destroyed"} /\ saved \in Seq(Saved)
    BY DEF Init
  <2> QED
    BY <2>1, <2>2, <2>3, <2>4, <2>5 DEF TypeInv
<1>2. N = 0 /\ saved = <<>> /\ r.eip = Main /\ r.esp \in low .. UTop
  BY LayoutAssumption DEF Init, N
<1> QED
  BY <1>1, <1>2 DEF UpcallInv, StackInv, FrameInv, FramesIntact

\* Every step keeps the invariant.
LEMMA UpcallInvNext ==
  ASSUME UpcallInv, [Next]_vars
  PROVE  UpcallInv'
<1>1. CASE Fault
  BY <1>1, FaultKeeps
<1>2. CASE _pgfault_upcall
  BY <1>2, PushArgumentStep, CallHandlerStep, AdjustEspStep, StoreEipStep, RestoreStep DEF _pgfault_upcall
<1>3. CASE set_pgfault_handler
  <2>1. r.eip = Main
    BY <1>3 DEF set_pgfault_handler, AllocXStack, sys_env_set_pgfault_upcall, SetHandler, Step
  <2> QED
    BY <1>3, <2>1, MainSteps
<1>4. CASE UserCode
  <2>1. CASE (\E word \in Word : Compute(word)) \/ Pop
    <3>1. r.eip \in {Main, Handler}
      BY <2>1 DEF Compute, Pop
    <3> QED
      BY <2>1, <3>1, MainSteps, HandlerSteps
  <2>2. CASE Push
    <3>1. r.eip \in {Main, Handler}
      BY <2>2 DEF Push
    <3> QED
      BY <2>2, <3>1, MainSteps, HandlerPush
  <2>3. CASE HandlerReturns
    BY <2>3, HandlerReturnsStep
  <2>4. CASE HandlerMaps
    <3>1. r.eip = Handler
      BY <2>4 DEF HandlerMaps, Step
    <3> QED
      BY <2>4, <3>1, HandlerSteps
  <2> QED
    BY <1>4, <2>1, <2>2, <2>3, <2>4 DEF UserCode
<1>5. CASE UNCHANGED vars
  <2>1. /\ UNCHANGED <<r, mem, low, xstack, env_pgfault_upcall, _pgfault_handler, saved>>
        /\ mode' \in {"user", "destroyed"}
    BY <1>5 DEF vars, UpcallInv, TypeInv
  <2> QED
    BY <2>1, UpcallIdle
<1> QED
  BY <1>1, <1>2, <1>3, <1>4, <1>5 DEF Next, Ended

\* The inductive invariant.
THEOREM UpcallInvariant == Spec => []UpcallInv
<1>1. Init => UpcallInv
  BY UpcallInvInit
<1>2. UpcallInv /\ [Next]_vars => UpcallInv'
  BY UpcallInvNext
<1> QED
  BY <1>1, <1>2, PTL DEF Spec

\* Whatever the size of the stacks and however deep the recursion, neither the kernel's
\* frames nor _pgfault_upcall touch a stack word of the code that a fault interrupted.
THEOREM FramesStayIntact == Spec => []FramesIntact
<1>1. UpcallInv => FramesIntact
  BY DEF UpcallInv
<1> QED
  BY <1>1, UpcallInvariant, PTL

\* user_mem_assert accepts a frame exactly when the exception stack has room for it.
LEMMA AssertIsRoom ==
  ASSUME UpcallInv, Faults
  PROVE  user_mem_assert(UtfAddress) <=> xstack /\ HasRoom
<1>1. /\ XTop \in Nat /\ XBase \in Nat /\ UTop \in Nat /\ UTop + 1 < XBase /\ XBase + 5 <= XTop
      /\ r.esp \in Int /\ TypeInv
  BY LayoutAssumption DEF UpcallInv, TypeInv, Regs
<1>2. UtfAddress \in Int
  BY <1>1 DEF UtfAddress, UTrapframe
<1>3. UTop <= UtfAddress + 4
  BY <1>1 DEF UtfAddress, OnXStack, UTrapframe
<1>4. ASSUME user_mem_assert(UtfAddress) PROVE xstack /\ HasRoom
  <2>1. xstack /\ XBase <= UtfAddress
    BY <1>1, <1>2, <1>3, <1>4, FrameOnXStack
  <2> QED
    BY <1>1, <2>1 DEF UtfAddress, HasRoom, UTrapframe
<1>5. ASSUME xstack, HasRoom PROVE user_mem_assert(UtfAddress)
  <2>1. XBase <= UtfAddress /\ UtfAddress + UTrapframe <= XTop
    BY <1>1, <1>5 DEF UtfAddress, HasRoom, OnXStack, UTrapframe
  <2> QED
    BY <1>1, <1>2, <1>5, <2>1 DEF user_mem_assert, Mapped, UTrapframe
<1> QED
  BY <1>4, <1>5

\* Whatever the size of the exception stack and the depth of the recursion, a fault
\* reaches the upcall exactly when its frame fits, and destroys the environment when the
\* exception stack is missing or overflows.
THEOREM FaultServedOrFatal == Spec => UpcallOrDestroy
<1>1. UpcallInv /\ [Next]_vars =>
        [Fault => IF env_pgfault_upcall /\ xstack /\ HasRoom
                  THEN mode' = "user" /\ r'.eip = Upcall /\ OnXStack(r'.esp)
                  ELSE mode' = "destroyed"]_vars
  <2> SUFFICES ASSUME UpcallInv, Fault
               PROVE  IF env_pgfault_upcall /\ xstack /\ HasRoom
                      THEN mode' = "user" /\ r'.eip = Upcall /\ OnXStack(r'.esp)
                      ELSE mode' = "destroyed"
    OBVIOUS
  <2>1. mode = "user" /\ Faults /\ page_fault_handler
    BY DEF Fault
  <2>2. user_mem_assert(UtfAddress) <=> xstack /\ HasRoom
    BY <2>1, AssertIsRoom
  <2>3. CASE env_pgfault_upcall /\ xstack /\ HasRoom
    <3>1. mode' = mode /\ r' = [r EXCEPT !.eip = Upcall, !.esp = UtfAddress]
      BY <2>1, <2>2, <2>3 DEF page_fault_handler
    <3>2. r \in Regs /\ TypeInv /\ UtfAddress \in Int
      BY LayoutAssumption DEF UpcallInv, TypeInv, Regs, UtfAddress, UTrapframe
    <3>3. UTop <= UtfAddress + 4
      BY <3>2, LayoutAssumption DEF UtfAddress, OnXStack, UTrapframe, Regs
    <3>4. XBase <= UtfAddress /\ UtfAddress < XTop
      BY <2>2, <2>3, <3>2, <3>3, FrameOnXStack, LayoutAssumption DEF UTrapframe
    <3>5. r'.eip = Upcall /\ r'.esp = UtfAddress
      BY <3>1, <3>2 DEF Regs
    <3> QED
      BY <2>1, <2>3, <3>1, <3>4, <3>5 DEF OnXStack
  <2>4. CASE ~(env_pgfault_upcall /\ xstack /\ HasRoom)
    BY <2>1, <2>2, <2>4 DEF page_fault_handler
  <2> QED
    BY <2>3, <2>4
<1> QED
  BY <1>1, UpcallInvariant, PTL DEF Spec, UpcallOrDestroy

\* When _pgfault_upcall ends, the interrupted code goes on with the registers it had.
THEOREM UpcallResumes == Spec => Resumes
<1>1. UpcallInv /\ [Next]_vars => [Len(saved') < Len(saved) => r' = Last(saved).regs]_vars
  <2> SUFFICES ASSUME UpcallInv, Next, Len(saved') < Len(saved)
               PROVE  r' = Last(saved).regs
    OBVIOUS
  <2>1. saved \in Seq(Saved) /\ Len(saved) \in Nat
    BY DEF UpcallInv, TypeInv
  <2>2. saved' # saved
    BY <2>1
  <2>3. ~Fault
    <3> SUFFICES ASSUME Fault PROVE FALSE
      OBVIOUS
    <3>1. PICK x : saved' = Append(saved, x)
      BY <2>2 DEF Fault, page_fault_handler
    <3> QED
      BY <2>1, <3>1
  <2>4. Restore
    BY <2>2, <2>3 DEF Next, Ended, vars, _pgfault_upcall, PushArgument, CallHandler, AdjustEsp, StoreEip,
       set_pgfault_handler, AllocXStack, sys_env_set_pgfault_upcall, SetHandler, UserCode, Compute, Push, Pop,
       HandlerReturns, HandlerMaps, Step
  <2>5. PICK n \in Nat \ {0} : InFault(n) /\ r' = saved[n].regs
    BY <2>4, RestoreGives
  <2> QED
    BY <2>5 DEF InFault, N, Last
<1> QED
  BY <1>1, UpcallInvariant, PTL DEF Spec, Resumes
=============================================================================
