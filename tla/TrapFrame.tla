------------------------------ MODULE TrapFrame ------------------------------
(***************************************************************************)
(* From a user instruction into the kernel and back: the gates of          *)
(* trap_init, the entry points and _alltraps of kern/trapentry.S, trap and *)
(* trap_dispatch (kern/trap.c), the dispatcher of kern/syscall.c, the      *)
(* stubs of lib/syscall.c and env_pop_tf (kern/env.c).  The three parts    *)
(* agree on a layout of the stack that no compiler checks.                 *)
(*                                                                         *)
(* A register's value when user code traps is a name of its own, so that a *)
(* value that ends up in another register shows.  A frame is a sequence of *)
(* words, the lowest address first.                                        *)
(***************************************************************************)
EXTENDS Integers, Sequences

CONSTANT IntVectors   \* the operands of int in user code
ASSUME IntAssumption == IntVectors \subseteq 0 .. 255

T_BRKPT == 3
T_GPFLT == 13
T_PGFLT == 14
T_ALIGN == 17
T_SYSCALL == 48
IRQ_OFFSET == 32
IRQ_TIMER == 0
IRQ_SPURIOUS == 7
Exceptions == (0 .. 8) \cup (10 .. 14) \cup (16 .. 19)
IRQs == IRQ_OFFSET .. IRQ_OFFSET + 15

VARIABLES
  at,      \* "boot", "user", "trap" (the frame is built) or "env_pop_tf"
  regs,    \* the registers, while user code runs
  frame,   \* the words on the kernel stack
  env_tf,  \* curenv->env_tf
  cause,   \* what user code was doing: see Cause
  want,    \* the registers it is to go on with
  passed   \* what syscall() was called with, <<>> for another trap

trapVars == <<at, regs, frame, env_tf, cause, want, passed>>

Reg == {"edi", "esi", "ebp", "ebx", "edx", "ecx", "eax", "es", "ds",
        "eip", "cs", "eflags", "esp", "ss"}
Fresh == [r \in Reg |-> r]

\* vector: what the CPU delivers; int: was it asked for by an int instruction;
\* call: the system call, or "none".
Cause(vector, int, call) == [vector |-> vector, int |-> int, call |-> call]

-----------------------------------------------------------------------------
(* Layouts.                                                                  *)

\* struct Trapframe, its padding apart.
Trapframe == <<"edi", "esi", "ebp", "oesp", "ebx", "edx", "ecx", "eax", "es", "ds",
               "trapno", "err", "eip", "cs", "eflags", "esp", "ss">>
Offset(f) == CHOOSE i \in DOMAIN Trapframe : Trapframe[i] = f
Field(tf, f) == tf[Offset(f)]
\* The frame as trap() reads it, at %esp; above the stack it finds something else.
AsTrapframe(s) == [i \in DOMAIN Trapframe |-> IF i <= Len(s) THEN s[i] ELSE "junk"]

\* e->env_tf of a new environment: env_alloc and load_icode.
NewTf == [i \in DOMAIN Trapframe |->
            CASE Trapframe[i] \in {"ds", "es", "ss"} -> "GD_UD|3"
              [] Trapframe[i] = "cs" -> "GD_UT|3"
              [] Trapframe[i] = "esp" -> "USTACKTOP"
              [] Trapframe[i] = "eip" -> "e_entry"
              [] Trapframe[i] = "eflags" -> "FL_IF"
              [] OTHER -> "0"]
NewRegs == [r \in Reg |-> Field(NewTf, r)]

-----------------------------------------------------------------------------
(* Entry.                                                                    *)

\* trap_init: the vectors with a gate, and those that int may name.
Gates == Exceptions \cup IRQs \cup {T_SYSCALL}
DPL(v) == IF v \in {T_BRKPT, T_SYSCALL} THEN 3 ELSE 0

\* The vectors for which the CPU pushes an error code.
PushesError(v) == v \in {8} \cup (10 .. 14) \cup {T_ALIGN}

\* int n: through a gate that user code may not use, or that is not there, it is a
\* general protection fault.
Allowed(n) == n \in Gates /\ DPL(n) = 3
Delivered(n) == IF Allowed(n) THEN n ELSE T_GPFLT

Hardware(v, software, r) ==
  (IF PushesError(v) /\ ~software THEN <<"err">> ELSE <<>>)
  \o <<r["eip"], r["cs"], r["eflags"], r["esp"], r["ss"]>>

\* The entry points made by TRAPHANDLER, the others are made by TRAPHANDLER_NOEC.
TRAPHANDLER_NoAlign(v) == v \in {8} \cup (10 .. 14)
TRAPHANDLER(v) == v \in {8} \cup (10 .. 14) \cup {T_ALIGN}
Routine(v, s) == IF TRAPHANDLER(v) THEN <<v>> \o s ELSE <<v, "0">> \o s

\* pushw 0 and %ds, pushw 0 and %es, pushal.
_alltraps(r, s) ==
  <<r["edi"], r["esi"], r["ebp"], "oesp", r["ebx"], r["edx"], r["ecx"], r["eax"], r["es"], r["ds"]>> \o s

\* User code with registers r is interrupted by vector v.
Enter(v, software, r) ==
  frame' = _alltraps(r, Routine(v, Hardware(v, software, r)))

Trapped(r, cz) ==
  /\ at = "user" /\ at' = "trap"
  /\ cause' = cz /\ want' = r /\ passed' = <<>>
  /\ UNCHANGED <<regs, env_tf>>

\* A fault, or an interrupt from a device.
Raise(v) == Trapped(Fresh, Cause(v, FALSE, "none")) /\ Enter(v, FALSE, Fresh)

\* int n in user code.
SoftwareInt(n) ==
  /\ Trapped(Fresh, Cause(Delivered(n), TRUE, "none"))
  /\ Enter(Delivered(n), Allowed(n), Fresh)

-----------------------------------------------------------------------------
(* The stubs of lib/syscall.c.                                               *)

\* For every stub, how many arguments it passes, and whether a positive result is an error.
Stub(args, check) == [args |-> args, check |-> check]
Stubs ==
  [sys_cputs |-> Stub(2, FALSE), sys_cgetc |-> Stub(0, FALSE),
   sys_env_destroy |-> Stub(1, TRUE), sys_getenvid |-> Stub(0, FALSE),
   sys_yield |-> Stub(0, FALSE), sys_page_alloc |-> Stub(3, TRUE),
   sys_page_map |-> Stub(5, TRUE), sys_page_unmap |-> Stub(2, TRUE),
   sys_env_set_status |-> Stub(2, TRUE), sys_env_set_pgfault_upcall |-> Stub(2, TRUE),
   sys_ipc_try_send |-> Stub(4, FALSE), sys_ipc_recv |-> Stub(1, TRUE)]

Arguments(call) ==
  <<call>> \o [i \in 1 .. 5 |-> IF i <= Stubs[call].args THEN <<"a1", "a2", "a3", "a4", "a5">>[i] ELSE "0"]

\* The number in %eax, the arguments in %edx, %ecx, %ebx, %edi and %esi.
syscall_stub(call) ==
  LET a == Arguments(call)
      r == [Fresh EXCEPT !["eax"] = a[1], !["edx"] = a[2], !["ecx"] = a[3],
                         !["ebx"] = a[4], !["edi"] = a[5], !["esi"] = a[6]]
  IN  /\ Trapped(r, Cause(T_SYSCALL, TRUE, call))
      /\ Enter(T_SYSCALL, TRUE, r)

\* sys_exofork, which is inlined, sets nothing but %eax.
sys_exofork ==
  LET r == [Fresh EXCEPT !["eax"] = "sys_exofork"]
  IN  /\ Trapped(r, Cause(T_SYSCALL, TRUE, "none"))
      /\ Enter(T_SYSCALL, TRUE, r)

-----------------------------------------------------------------------------
(* The kernel.                                                               *)

\* syscall() of kern/syscall.c: what it may return for a number it knows, and for others.
Results(no) ==
  CASE no = "sys_cputs" -> {"zero"}
    [] no = "sys_cgetc" -> {"zero", "positive"}
    [] no = "sys_getenvid" -> {"positive"}
    [] no = "sys_env_destroy" -> {"zero", "negative"}
    [] OTHER -> {"negative"}

\* The calls that may destroy the caller instead of returning.
MayDestroy(no) == no \in {"sys_cputs", "sys_env_destroy"}

\* trap() copies the frame into env_tf; the environment runs again with it.
Resume(tf, to) ==
  /\ env_tf' = tf /\ want' = to
  /\ at' = "env_pop_tf"

\* Its last act: some other environment, a new one, runs instead.
Destroyed == Resume(NewTf, NewRegs)

Dispatch(tf, a) ==
  LET eax == Offset("eax")
  IN  /\ passed' = a
      /\ \/ \E r \in Results(a[1]) : Resume([tf EXCEPT ![eax] = r], [want EXCEPT !["eax"] = r])
         \/ MayDestroy(a[1]) /\ Destroyed

\* trap_dispatch.  A timer interrupt yields, and the environment is run again later.
trap_dispatch(tf) ==
  LET trapno == Field(tf, "trapno")
      Quiet == passed' = <<>>
  IN  \/ trapno \in {IRQ_OFFSET + IRQ_SPURIOUS, IRQ_OFFSET + IRQ_TIMER} /\ Quiet /\ Resume(tf, want)
      \/ /\ trapno = T_PGFLT /\ Quiet
         /\ \/ Resume([tf EXCEPT ![Offset("eip")] = "env_pgfault_upcall", ![Offset("esp")] = "utf"],
                      [want EXCEPT !["eip"] = "env_pgfault_upcall", !["esp"] = "utf"])
            \/ Destroyed
      \/ /\ trapno = T_SYSCALL
         /\ Dispatch(tf, <<Field(tf, "eax"), Field(tf, "edx"), Field(tf, "ecx"),
                           Field(tf, "ebx"), Field(tf, "edi"), Field(tf, "esi")>>)
      \* A breakpoint too, after the monitor.
      \/ /\ trapno \notin {IRQ_OFFSET + IRQ_SPURIOUS, IRQ_OFFSET + IRQ_TIMER, T_PGFLT, T_SYSCALL}
         /\ Quiet /\ Destroyed

trap ==
  /\ at = "trap"
  /\ trap_dispatch(AsTrapframe(frame))
  /\ frame' = <<>>
  /\ UNCHANGED <<regs, cause>>

\* popal, which skips %esp; popl %es; popl %ds; two words skipped; iret.
PopOrder == <<"edi", "esi", "ebp", "-", "ebx", "edx", "ecx", "eax", "es", "ds",
              "-", "-", "eip", "cs", "eflags", "esp", "ss">>
Popped(tf) == [r \in Reg |-> tf[CHOOSE i \in DOMAIN tf : PopOrder[i] = r]]

env_pop_tf ==
  /\ at = "env_pop_tf" /\ at' = "user"
  /\ regs' = Popped(env_tf)
  /\ UNCHANGED <<frame, env_tf, cause, want, passed>>

\* The first env_run: sched_yield at the end of the boot finds a new environment.
FirstRun ==
  /\ at = "boot"
  /\ Resume(NewTf, NewRegs)
  /\ UNCHANGED <<regs, frame, cause, passed>>

TrapInit ==
  /\ at = "boot"
  /\ regs = Fresh /\ want = Fresh
  /\ frame = <<>> /\ env_tf = NewTf /\ passed = <<>>
  /\ cause = Cause(T_SYSCALL, FALSE, "none")

UserTraps ==
  \/ \E v \in Exceptions \cup IRQs : Raise(v)
  \/ \E n \in IntVectors : SoftwareInt(n)
  \/ \E call \in DOMAIN Stubs : syscall_stub(call)
  \/ sys_exofork

-----------------------------------------------------------------------------
(* Properties.                                                               *)

\* An environment that is run again after a trap, whatever vector brought it into the
\* kernel, goes on with every register as it was, but for the result of a system call
\* in %eax and for the upcall's %eip and %esp after a page fault.  The kernel sees the
\* vector the CPU delivered, at the address where the CPU left it, and a system call's
\* number and arguments in the order the stub was given them.  No result makes a stub
\* panic.
RegistersRestored ==
  /\ at = "user" => regs = want
  /\ at = "trap" =>
       /\ Field(AsTrapframe(frame), "trapno") = cause.vector
       /\ Field(AsTrapframe(frame), "eip") = want["eip"]
       /\ cause.int => cause.vector \in {T_BRKPT, T_SYSCALL, T_GPFLT}
  /\ cause.call # "none" /\ passed # <<>> =>
       /\ passed = Arguments(cause.call)
       /\ Stubs[cause.call].check => want["eax"] # "positive"
=============================================================================
