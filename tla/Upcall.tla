------------------------------- MODULE Upcall -------------------------------
(***************************************************************************)
(* Page faults handled by user code: page_fault_handler of kern/trap.c,    *)
(* _pgfault_upcall of lib/pfentry.S and set_pgfault_handler of             *)
(* lib/pgfault.c, for one environment.  A fault may hit the main program   *)
(* or, recursively, the handler or the upcall itself; every fault stacks a *)
(* frame on the one page of the exception stack.                           *)
(*                                                                         *)
(* Addresses count words.  The eight general registers are one word, %eax; *)
(* utf_fault_va and utf_err are one word that only the handler reads.      *)
(***************************************************************************)
EXTENDS Integers, Sequences, SequencesExt

CONSTANTS
  UTop,     \* USTACKTOP: the user stack grows down from here towards 0
  XBase,    \* UXSTACKTOP - PGSIZE; the memory between the two stacks is not mapped
  XTop,     \* UXSTACKTOP
  Word      \* the values that user code computes with

ASSUME LayoutAssumption ==
  /\ UTop \in Nat /\ XBase \in Nat /\ XTop \in Nat
  /\ 0 < UTop /\ UTop + 1 < XBase
  /\ XBase + 5 <= XTop    \* a struct UTrapframe fits on the page
ASSUME WordAssumption == Word \subseteq Nat /\ 0 \in Word

\* struct UTrapframe: the offsets of utf_regs, utf_eip, utf_eflags and utf_esp.
REGS == 1
EIP == 2
EFLAGS == 3
ESP == 4
UTrapframe == 5

\* Where user code can be: in the main program, in the handler, at the null address,
\* or at one of the instructions of _pgfault_upcall.
Main == 0
Handler == 1
Null == 2
Upcall == 10
UpcallCall == 11
UpcallBack == 12
UpcallStore == 13
UpcallRestore == 14

VARIABLES
  r,                  \* the registers: eip, esp, eax, eflags
  mem,                \* the words of both stacks
  low,                \* the user stack is mapped from low to UTop
  xstack,             \* is the exception stack mapped?
  env_pgfault_upcall, \* has the upcall been registered?
  _pgfault_handler,   \* Handler, or 0
  mode,               \* "user" or "destroyed"
  saved               \* history: what each fault that is still being handled interrupted

vars == <<r, mem, low, xstack, env_pgfault_upcall, _pgfault_handler, mode, saved>>
handlerVars == <<low, xstack, env_pgfault_upcall, _pgfault_handler>>

Mapped(a) == \/ low <= a /\ a < UTop
             \/ xstack /\ XBase <= a /\ a < XTop
OnXStack(a) == XBase <= a /\ a < XTop

\* Execution of one instruction that ends with registers s and memory m.
Step(at, s, m) ==
  /\ mode = "user" /\ r.eip = at
  /\ r' = s /\ mem' = m
  /\ UNCHANGED <<mode, saved>>

Pushed(word) == [mem EXCEPT ![r.esp - 1] = word]

-----------------------------------------------------------------------------
(* kern/trap.c                                                               *)

UtfAddress_Top == XTop - UTrapframe
UtfAddress_NoScratch == IF OnXStack(r.esp) THEN r.esp - UTrapframe ELSE XTop - UTrapframe

\* Where the frame goes: below the running handler, with a scratch word between.
UtfAddress == IF OnXStack(r.esp) THEN r.esp - UTrapframe - 1 ELSE XTop - UTrapframe

user_mem_assert_Top(utf) == Mapped(utf + UTrapframe - 1)
user_mem_assert(utf) == \A a \in utf .. utf + UTrapframe - 1 : Mapped(a)

PushFrame(utf) ==
  [mem EXCEPT ![utf + REGS] = r.eax, ![utf + EIP] = r.eip,
              ![utf + EFLAGS] = r.eflags, ![utf + ESP] = r.esp]

\* The words that belong to the interrupted code: those of its stack from esp up.
Above(esp) == IF OnXStack(esp) THEN esp .. XTop - 1 ELSE esp .. UTop - 1

page_fault_handler ==
  LET utf == UtfAddress
  IN  IF ~(env_pgfault_upcall /\ user_mem_assert(utf))
      THEN mode' = "destroyed" /\ UNCHANGED <<r, mem, saved>>
      ELSE /\ mem' = PushFrame(utf)
           /\ r' = [r EXCEPT !.eip = Upcall, !.esp = utf]
           /\ saved' = Append(saved, [regs |-> r, utf |-> utf,
                                      words |-> [a \in Above(r.esp) |-> mem[a]]])
           /\ UNCHANGED mode

\* C code and the null address may fault at any moment, the upcall only where it
\* stores through %esp or %eax.
Faults ==
  \/ r.eip \in {Main, Handler, Null}
  \/ r.eip \in {Upcall, UpcallCall} /\ ~Mapped(r.esp - 1)
  \/ r.eip = UpcallStore /\ ~Mapped(r.eax)

Fault == mode = "user" /\ Faults /\ page_fault_handler /\ UNCHANGED handlerVars

-----------------------------------------------------------------------------
(* lib/pfentry.S                                                             *)

\* pushl %esp
PushArgument ==
  /\ Mapped(r.esp - 1)
  /\ Step(Upcall, [r EXCEPT !.esp = @ - 1, !.eip = UpcallCall], Pushed(r.esp))
  /\ UNCHANGED handlerVars

\* movl _pgfault_handler, %eax; call *%eax
CallHandler ==
  /\ Mapped(r.esp - 1)
  /\ Step(UpcallCall,
          [eip |-> IF _pgfault_handler = 0 THEN Null ELSE _pgfault_handler,
           esp |-> r.esp - 1, eax |-> _pgfault_handler, eflags |-> r.eflags],
          Pushed(UpcallBack))
  /\ UNCHANGED handlerVars

\* Make room on the trap-time stack.
AdjustEsp ==
  LET utf == r.esp + 1
      top == mem[utf + ESP] - 1
  IN  /\ Step(UpcallBack, [eip |-> UpcallStore, esp |-> utf, eax |-> top, eflags |-> 0],
              [mem EXCEPT ![utf + ESP] = top])
      /\ UNCHANGED handlerVars

\* Push the trap-time eip onto the trap-time stack.
StoreEip ==
  /\ Mapped(r.eax)
  /\ Step(UpcallStore, [r EXCEPT !.eip = UpcallRestore], [mem EXCEPT ![r.eax] = mem[r.esp + EIP]])
  /\ UNCHANGED handlerVars

\* popal, popfl, popl %esp and ret: none of them can fault.
Restore ==
  LET top == mem[r.esp + ESP]
  IN  /\ mode = "user" /\ r.eip = UpcallRestore
      /\ r' = [eip |-> mem[top], esp |-> top + 1,
               eax |-> mem[r.esp + REGS], eflags |-> mem[r.esp + EFLAGS]]
      /\ saved' = Front(saved)
      /\ UNCHANGED <<mem, mode>> /\ UNCHANGED handlerVars

-----------------------------------------------------------------------------
(* User code in C: the main program and the handler.                         *)

\* The stack pointer with which the running function was entered.
Bottom == IF r.eip = Main THEN UTop ELSE Last(saved).utf - 2

Compute(word) ==
  /\ r.eip \in {Main, Handler}
  /\ Step(r.eip, [r EXCEPT !.eax = word, !.eflags = word], mem)
  /\ UNCHANGED handlerVars

Push ==
  /\ r.eip \in {Main, Handler} /\ Mapped(r.esp - 1)
  /\ Step(r.eip, [r EXCEPT !.esp = @ - 1], Pushed(r.eax))
  /\ UNCHANGED handlerVars

Pop ==
  /\ r.eip \in {Main, Handler} /\ r.esp < Bottom
  /\ Step(r.eip, [r EXCEPT !.esp = @ + 1, !.eax = mem[r.esp]], mem)
  /\ UNCHANGED handlerVars

HandlerReturns ==
  /\ r.eip = Handler /\ r.esp = Bottom
  /\ Step(Handler, [r EXCEPT !.eip = mem[r.esp], !.esp = @ + 1], mem)
  /\ UNCHANGED handlerVars

\* What handlers are for: the page that was missing below the user stack.
HandlerMaps ==
  /\ low > 0
  /\ low' = low - 1
  /\ Step(Handler, r, mem)
  /\ UNCHANGED <<xstack, env_pgfault_upcall, _pgfault_handler>>

\* set_pgfault_handler: sys_page_alloc, sys_env_set_pgfault_upcall, the assignment.
AllocXStack ==
  /\ _pgfault_handler = 0 /\ ~xstack
  /\ xstack' = TRUE
  /\ Step(Main, r, mem)
  /\ UNCHANGED <<low, env_pgfault_upcall, _pgfault_handler>>

sys_env_set_pgfault_upcall ==
  /\ xstack /\ ~env_pgfault_upcall
  /\ env_pgfault_upcall' = TRUE
  /\ Step(Main, r, mem)
  /\ UNCHANGED <<low, xstack, _pgfault_handler>>

SetHandler ==
  /\ env_pgfault_upcall /\ _pgfault_handler = 0
  /\ _pgfault_handler' = Handler
  /\ Step(Main, r, mem)
  /\ UNCHANGED <<low, xstack, env_pgfault_upcall>>

-----------------------------------------------------------------------------
Init ==
  /\ r = [eip |-> Main, esp |-> UTop, eax |-> 0, eflags |-> 0]
  /\ mem = [a \in 0 .. XTop - 1 |-> 0]
  /\ low = UTop - 1
  /\ xstack = FALSE /\ env_pgfault_upcall = FALSE /\ _pgfault_handler = 0
  /\ mode = "user" /\ saved = <<>>

_pgfault_upcall == PushArgument \/ CallHandler \/ AdjustEsp \/ StoreEip \/ Restore

set_pgfault_handler == AllocXStack \/ sys_env_set_pgfault_upcall \/ SetHandler

UserCode == (\E word \in Word : Compute(word)) \/ Push \/ Pop \/ HandlerReturns \/ HandlerMaps

Ended == mode # "user" /\ UNCHANGED vars

Next == Fault \/ _pgfault_upcall \/ set_pgfault_handler \/ UserCode \/ Ended

Spec == Init /\ [][Next]_vars

-----------------------------------------------------------------------------
(* Properties.                                                               *)

\* Handling a fault disturbs no word of the code it interrupted, at any depth of
\* recursion: neither the kernel's frame, nor the upcall's own pushes, nor the
\* scratch word fall on a stack word in use.
FramesIntact ==
  \A i \in DOMAIN saved : \A a \in DOMAIN saved[i].words : mem[a] = saved[i].words[a]

\* When the upcall returns, the interrupted code goes on with exactly the registers,
\* flags, stack pointer and instruction it had, whatever faults came in between.
Resumes == [][Len(saved') < Len(saved) => r' = Last(saved).regs]_vars

\* Is there room for another frame, and for the scratch word, below the stack pointer?
HasRoom == OnXStack(r.esp) => XBase + UTrapframe + 1 <= r.esp

\* A fault is passed to user code exactly when an upcall is registered and the whole
\* frame fits on the exception stack; otherwise (no upcall, no exception stack, or a
\* recursion so deep that the stack overflows) the environment is destroyed.
UpcallOrDestroy ==
  [][Fault => IF env_pgfault_upcall /\ xstack /\ HasRoom
              THEN mode' = "user" /\ r'.eip = Upcall /\ OnXStack(r'.esp)
              ELSE mode' = "destroyed"]_vars
=============================================================================
