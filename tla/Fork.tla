-------------------------------- MODULE Fork --------------------------------
(***************************************************************************)
(* Copy-on-write fork in user space: fork, duppage and pgfault of          *)
(* lib/fork.c over the system calls of kern/syscall.c.                     *)
(*                                                                         *)
(* Every system call is one step, and the timer may switch environments    *)
(* between any two of them.  Each function runs on a stack that lies in    *)
(* one of the pages being duplicated: fork itself may fault at any point.  *)
(* Addresses are page numbers in the order of fork's loop; the stack page  *)
(* is the last one fork copies, and the exception stack lies above it.     *)
(* What the page tables do is in Pmap.                                     *)
(***************************************************************************)
EXTENDS Integers, FiniteSets

CONSTANTS
  Env,        \* the slots of envs[]
  NoEnv,      \* none of them
  NFrames,    \* frames of memory
  Stack,      \* pages 1 .. Stack are the program's; Stack is USTACKTOP - PGSIZE
  Value       \* what a page can hold

ASSUME EnvAssumption == NoEnv \notin Env
ASSUME SizeAssumption == NFrames \in Nat /\ Stack \in Nat \ {0} /\ Stack <= NFrames
ASSUME ValueAssumption == 0 \in Value

Frame == 1 .. NFrames
VA == 1 .. Stack
PFTEMP == 0
XSTACK == Stack + 1      \* UXSTACKTOP - PGSIZE
Page == 0 .. Stack + 1

\* A mapping: its frame (0: none), PTE_W and PTE_COW.
None == [frame |-> 0, w |-> FALSE, cow |-> FALSE]

VARIABLES
  pt,         \* pt[e][va]: the mappings of each environment
  data,       \* data[f]: the contents of a frame; 0 while it is free
  pc,         \* what each environment is doing; "free" is an unused slot
  fault,      \* fault[e]: the page fault being handled and the handler's step
  child,      \* fork: the environment being created
  addr,       \* fork: the loop variable
  pte,        \* duppage: which of PTE_W and PTE_COW the entry had when it was read
  upcall,     \* env_pgfault_upcall: is it set?
  view,       \* history: what each environment's pages should hold, if fork copied
  stray       \* history: has sys_page_alloc handed out a page that was in use?

vars == <<pt, data, pc, fault, child, addr, pte, upcall, view, stray>>
forkVars == <<child, addr, pte>>

NoFault == [va |-> 0, at |-> "none"]
Empty == [va \in Page |-> None]

Used(p) == {p[e][va].frame : e \in Env, va \in Page} \ {0}

\* The mappings become p and the contents d; a frame that is no longer mapped is
\* free, and is cleared before it is used again.
Remap(p, d) ==
  /\ pt' = p
  /\ LET used == Used(p) IN data' = [f \in Frame |-> IF f \in used THEN d[f] ELSE 0]

Running(e) == pc[e] \notin {"free", "child"}
InMain(e) == Running(e) /\ fault[e].at = "none"

Goto(e, from, to) == InMain(e) /\ pc[e] = from /\ pc' = [pc EXCEPT ![e] = to]
FaultStep(e, from, to) ==
  /\ fault[e].at = from
  /\ fault' = [fault EXCEPT ![e] = IF to = "none" THEN NoFault ELSE [@ EXCEPT !.at = to]]

\* The first environment, with its stack and any of the other pages.
Init ==
  \E e0 \in Env, own \in SUBSET VA :
    LET first == [va \in Page |-> IF va \in own THEN [frame |-> va, w |-> TRUE, cow |-> FALSE]
                                          ELSE None]
    IN  /\ Stack \in own
        /\ pt = [e \in Env |-> IF e = e0 THEN first ELSE Empty]
        /\ data = [f \in Frame |-> 0]
        /\ pc = [e \in Env |-> IF e = e0 THEN "user" ELSE "free"]
        /\ fault = [e \in Env |-> NoFault]
        /\ child = [e \in Env |-> NoEnv]
        /\ addr = [e \in Env |-> 0]
        /\ pte = [e \in Env |-> {}]
        /\ upcall = [e \in Env |-> FALSE]
        /\ view = [e \in Env |-> [va \in VA |-> 0]]
        /\ stray = FALSE

-----------------------------------------------------------------------------
(* System calls.                                                             *)

\* Another mapping than the one of e at va shows frame f.
InUse(f, e, va) == \E g \in Env, vb \in Page : <<g, vb>> # <<e, va>> /\ pt[g][vb].frame = f

\* The page that page_alloc takes from the free list is lost: the code passes it the
\* address of p for its flags and drops the result.  What it maps and clears is the
\* page that the uninitialised p happens to name, in use or not.  (A p that names no
\* page at all stops the kernel.)
sys_page_alloc(e, va) ==
  \E p \in Frame :
    /\ Remap([pt EXCEPT ![e][va] = [frame |-> p, w |-> TRUE, cow |-> FALSE]],
             [data EXCEPT ![p] = 0])
    /\ stray' = (stray \/ InUse(p, e, va))

\* The page at sv of environment s, at va of environment e.
sys_page_map(s, sv, e, va, w, cow) ==
  /\ pt[s][sv].frame # 0
  /\ w => pt[s][sv].w
  /\ Remap([pt EXCEPT ![e][va] = [frame |-> pt[s][sv].frame, w |-> w, cow |-> cow]], data)
  /\ UNCHANGED stray

\* exit, panic, or env_destroy by the kernel for a fault without an upcall.  A child
\* that was not finished is left as it is.
Dies(e) ==
  /\ Remap([pt EXCEPT ![e] = Empty], data)
  /\ pc' = [pc EXCEPT ![e] = "free"]
  /\ fault' = [fault EXCEPT ![e] = NoFault]
  /\ child' = [child EXCEPT ![e] = NoEnv]
  /\ addr' = [addr EXCEPT ![e] = 0]
  /\ pte' = [pte EXCEPT ![e] = {}]
  /\ upcall' = [upcall EXCEPT ![e] = FALSE]
  /\ view' = [view EXCEPT ![e] = [va \in VA |-> 0]]
  /\ UNCHANGED stray

-----------------------------------------------------------------------------
(* pgfault: the write to va of environment e found no PTE_W.  The page it    *)
(* copies to stays mapped at PFTEMP too until the next fault.                *)

\* The kernel finds an upcall and an exception stack.
Served(e) == upcall[e] /\ pt[e][XSTACK].frame # 0

PgfaultCheck(e) ==
  /\ fault[e].at = "check"
  /\ IF Served(e) /\ pt[e][fault[e].va].cow
     THEN FaultStep(e, "check", "alloc") /\ UNCHANGED <<pt, data, pc, forkVars, upcall, view, stray>>
     ELSE Dies(e)

PgfaultAlloc(e) ==
  /\ FaultStep(e, "alloc", "copy")
  /\ sys_page_alloc(e, PFTEMP)
  /\ UNCHANGED <<pc, forkVars, upcall, view>>

PgfaultCopy(e) ==
  /\ FaultStep(e, "copy", "map")
  /\ data' = [data EXCEPT ![pt[e][PFTEMP].frame] = data[pt[e][fault[e].va].frame]]
  /\ UNCHANGED <<pt, pc, forkVars, upcall, view, stray>>

PgfaultMap(e) ==
  /\ FaultStep(e, "map", "none")
  /\ sys_page_map(e, PFTEMP, e, fault[e].va, TRUE, FALSE)
  /\ UNCHANGED <<pc, forkVars, upcall, view>>

pgfault(e) == PgfaultCheck(e) \/ PgfaultAlloc(e) \/ PgfaultCopy(e) \/ PgfaultMap(e)

-----------------------------------------------------------------------------
(* fork                                                                      *)

\* set_pgfault_handler: an exception stack and the upcall, the first time.
SetHandlerAgain(e) ==
  /\ Goto(e, "user", "exofork") /\ upcall[e]
  /\ UNCHANGED <<pt, data, fault, forkVars, upcall, view, stray>>

SetHandlerXStack(e) ==
  /\ Goto(e, "user", "handler") /\ ~upcall[e]
  /\ sys_page_alloc(e, XSTACK)
  /\ UNCHANGED <<fault, forkVars, upcall, view>>

SetHandlerUpcall(e) ==
  /\ Goto(e, "handler", "exofork")
  /\ upcall' = [upcall EXCEPT ![e] = TRUE]
  /\ UNCHANGED <<pt, data, fault, forkVars, view, stray>>

set_pgfault_handler(e) == SetHandlerAgain(e) \/ SetHandlerXStack(e) \/ SetHandlerUpcall(e)

ForkExofork(e, c) ==
  /\ pc[c] = "free" /\ InMain(e) /\ pc[e] = "exofork"
  /\ pc' = [pc EXCEPT ![e] = "read", ![c] = "child"]
  /\ child' = [child EXCEPT ![e] = c]
  /\ addr' = [addr EXCEPT ![e] = 1]
  /\ UNCHANGED <<pt, data, fault, pte, upcall, view, stray>>

\* Where the loop goes after page addr.
Onward(e) == IF addr[e] = Stack THEN "xstack" ELSE "read"
Advance(e) ==
  /\ addr' = [addr EXCEPT ![e] = IF @ = Stack THEN 0 ELSE @ + 1]
  /\ pte' = [pte EXCEPT ![e] = {}]

\* The loop's test; duppage reads the entry.
DupRead(e) ==
  LET entry == pt[e][addr[e]]
  IN  /\ Goto(e, "read", IF entry.frame = 0 THEN Onward(e) ELSE "map1")
      /\ IF entry.frame = 0 THEN Advance(e)
         ELSE /\ pte' = [pte EXCEPT ![e] = {bit \in {"W", "COW"} : IF bit = "W" THEN entry.w ELSE entry.cow}]
              /\ UNCHANGED addr
      /\ UNCHANGED <<pt, data, fault, child, upcall, view, stray>>

Copied(e) == pte[e] # {}

\* The environments that duppage's first and second call of sys_page_map change.
Target_OwnFirst(e, call) == IF call = 1 /\ Copied(e) THEN e ELSE child[e]
Target(e, call) == IF call = 1 THEN child[e] ELSE e

SecondCall_IfWritable(e) == "W" \in pte[e]
SecondCall(e) == Copied(e)

\* The child's page is complete: from here on it should not change.
Snapshot(e) ==
  LET c == child[e]
      va == addr[e]
  IN  view' = [view EXCEPT ![c][va] = IF va = Stack THEN data'[pt'[c][va].frame] ELSE view[e][va]]

DupMapFirst(e) ==
  LET va == addr[e]
  IN  /\ Goto(e, "map1", IF SecondCall(e) THEN "map2" ELSE Onward(e))
      /\ sys_page_map(e, va, Target(e, 1), va, FALSE, Copied(e))
      /\ IF SecondCall(e) THEN UNCHANGED <<addr, pte, view>> ELSE Advance(e) /\ Snapshot(e)
      /\ UNCHANGED <<fault, child, upcall>>

DupMapSecond(e) ==
  LET va == addr[e]
  IN  /\ Goto(e, "map2", Onward(e))
      /\ sys_page_map(e, va, Target(e, 2), va, FALSE, TRUE)
      /\ Advance(e) /\ Snapshot(e)
      /\ UNCHANGED <<fault, child, upcall>>

ForkXStack(e) ==
  /\ Goto(e, "xstack", "upcall")
  /\ sys_page_alloc(child[e], XSTACK)
  /\ UNCHANGED <<fault, forkVars, upcall, view>>

\* sys_env_set_pgfault_upcall for the child.
ForkUpcall_Own(e) ==
  /\ Goto(e, "upcall", "status")
  /\ upcall' = [upcall EXCEPT ![e] = TRUE]
  /\ UNCHANGED <<pt, data, fault, forkVars, view, stray>>

ForkUpcall(e) ==
  /\ Goto(e, "upcall", "status")
  /\ upcall' = [upcall EXCEPT ![child[e]] = TRUE]
  /\ UNCHANGED <<pt, data, fault, forkVars, view, stray>>

\* sys_env_set_status: the child runs.
ForkStatus(e) ==
  /\ InMain(e) /\ pc[e] = "status"
  /\ pc' = [pc EXCEPT ![e] = "user", ![child[e]] = "user"]
  /\ child' = [child EXCEPT ![e] = NoEnv]
  /\ UNCHANGED <<pt, data, fault, addr, pte, upcall, view, stray>>

fork(e) == \/ set_pgfault_handler(e) \/ (\E c \in Env : ForkExofork(e, c)) \/ DupRead(e)
           \/ DupMapFirst(e) \/ DupMapSecond(e) \/ ForkXStack(e) \/ ForkUpcall(e) \/ ForkStatus(e)

-----------------------------------------------------------------------------
(* User code around it.                                                      *)

\* A store: to any of its pages by the program, to the stack by fork itself.  PFTEMP and
\* the exception stack are left to the page-fault handler (inc/memlayout.h reserves
\* PFTEMP for it), although both are mapped writable.
Write(e, va, v) ==
  /\ InMain(e) /\ (pc[e] = "user" \/ va = Stack)
  /\ IF pt[e][va].w
     THEN /\ data' = [data EXCEPT ![pt[e][va].frame] = v]
          /\ view' = [view EXCEPT ![e][va] = v]
          /\ UNCHANGED fault
     ELSE /\ fault' = [fault EXCEPT ![e] = [va |-> va, at |-> "check"]]
          /\ UNCHANGED <<data, view>>
  /\ UNCHANGED <<pt, pc, forkVars, upcall, stray>>

\* The program gives up write access to a page other than its stack.
Protect(e, va) ==
  /\ InMain(e) /\ pc[e] = "user" /\ va # Stack
  /\ sys_page_map(e, va, e, va, FALSE, FALSE)
  /\ UNCHANGED <<pc, fault, forkVars, upcall, view>>

\* exit(), or the panic after a system call that failed.
Exit(e) == Running(e) /\ fault[e].at # "check" /\ Dies(e)

Next == \E e \in Env :
  \/ pgfault(e) \/ fork(e) \/ Exit(e)
  \/ \E va \in VA : Protect(e, va) \/ \E v \in Value : Write(e, va, v)

\* The last environment has gone.
Done == (\A e \in Env : ~Running(e)) /\ UNCHANGED vars

Spec == Init /\ [][Next \/ Done]_vars

-----------------------------------------------------------------------------
(* Properties.                                                               *)

\* Page va of environment e has been set up: e runs, or fork is past that page.
Complete(e, va) ==
  /\ pt[e][va].frame # 0
  /\ Running(e) \/ \E p \in Env : child[p] = e /\ (addr[p] = 0 \/ va < addr[p])

\* What an environment reads in its pages is what it wrote there itself or what its
\* parent had there when the page was duplicated, whatever either of them, or anybody
\* else, has written since; sys_page_alloc says that it gives every environment a page
\* of its own, set to 0.
ForkCopies == \A e \in Env, va \in VA :
  Complete(e, va) => data[pt[e][va].frame] = view[e][va]

\* Fork copies, as long as sys_page_alloc has mapped only pages that nobody used.
PrivateMemory == ~stray => ForkCopies

\* pgfault has left the frame of page va of environment e at PFTEMP too.
LeftAtTemp(e, va) ==
  pt[e][PFTEMP].frame = pt[e][va].frame /\ fault[e].at \notin {"copy", "map"}

\* Nobody can write a page that another mapping shows, with two exceptions: duppage
\* between its two system calls for that very page, and what pgfault has left at PFTEMP,
\* where nobody writes before the next fault has replaced it.  While pgfault does write
\* to PFTEMP, the page there is its own.
WritableIsPrivate == ~stray => \A e, f \in Env, va, vb \in Page :
  /\ pt[e][va].w /\ pt[e][va].frame = pt[f][vb].frame
  /\ <<e, va>> # <<f, vb>>
  => \/ child[e] = f /\ va = vb /\ addr[e] = va /\ pc[e] = "map2"
     \/ LeftAtTemp(e, va) /\ (va = PFTEMP \/ (f = e /\ vb = PFTEMP))

\* Whoever runs with a copy-on-write page can have a write to it handled: the kernel
\* finds an exception stack and an upcall, at every point of a fork and in the child's
\* first instruction.
FaultsHandled == \A e \in Env :
  Running(e) /\ (\E va \in VA : pt[e][va].cow) => Served(e)
=============================================================================
