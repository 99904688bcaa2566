------------------------------ MODULE Spinlock ------------------------------
(***************************************************************************)
(* The spin lock of kern/spinlock.c with DEBUG_SPINLOCK, as the header     *)
(* defines it: each CPU takes one step per access to the shared words      *)
(* locked and cpu.  Only the xchg is atomic; the check `holding` reads the *)
(* two words one after the other and without the lock.                     *)
(***************************************************************************)
EXTENDS Naturals

CONSTANTS
  Cpu,      \* the CPUs, as cpunum() numbers them
  NoCpu     \* the null struct CpuInfo pointer

ASSUME CpuAssumption == NoCpu \notin Cpu

VARIABLES
  locked,   \* lk->locked
  cpu,      \* lk->cpu
  pc        \* where each CPU is in spin_lock or spin_unlock

vars == <<locked, cpu, pc>>

Goto(c, from, to) == pc[c] = from /\ pc' = [pc EXCEPT ![c] = to]

Init == /\ locked = 0
        /\ cpu = NoCpu
        /\ pc = [c \in Cpu |-> "outside"]

-----------------------------------------------------------------------------
(* spin_lock                                                                 *)

\* holding(lk), first operand: when the lock is free there is no more to check.
LockCheckLocked(c) ==
  /\ Goto(c, "outside", IF locked = 1 THEN "lock_cpu" ELSE "xchg")
  /\ UNCHANGED <<locked, cpu>>

\* holding(lk), second operand; "already holding" is a panic.
LockCheckCpu(c) ==
  /\ Goto(c, "lock_cpu", IF cpu = c THEN "panic" ELSE "xchg")
  /\ UNCHANGED <<locked, cpu>>

\* while (xchg(&lk->locked, 1) != 0)
Xchg_Ignored(c) ==
  /\ locked' = 1
  /\ Goto(c, "xchg", "record")
  /\ UNCHANGED cpu
Xchg(c) ==
  /\ locked' = 1
  /\ Goto(c, "xchg", IF locked = 0 THEN "record" ELSE "xchg")
  /\ UNCHANGED cpu

\* lk->cpu = thiscpu
Record(c) ==
  /\ cpu' = c
  /\ Goto(c, "record", "inside")
  /\ UNCHANGED locked

-----------------------------------------------------------------------------
(* spin_unlock                                                               *)

UnlockCheckLocked(c) ==
  /\ Goto(c, "inside", IF locked = 1 THEN "unlock_cpu" ELSE "panic")
  /\ UNCHANGED <<locked, cpu>>

UnlockCheckCpu(c) ==
  /\ Goto(c, "unlock_cpu", IF cpu = c THEN "clear" ELSE "panic")
  /\ UNCHANGED <<locked, cpu>>

\* lk->cpu = 0
Clear_Forgotten(c) ==
  /\ Goto(c, "clear", "release")
  /\ UNCHANGED <<locked, cpu>>
Clear(c) ==
  /\ cpu' = NoCpu
  /\ Goto(c, "clear", "release")
  /\ UNCHANGED locked

\* xchg(&lk->locked, 0)
Release_Forgotten(c) ==
  /\ Goto(c, "release", "outside")
  /\ UNCHANGED <<locked, cpu>>
Release(c) ==
  /\ locked' = 0
  /\ Goto(c, "release", "outside")
  /\ UNCHANGED cpu

spin_lock(c) == LockCheckLocked(c) \/ LockCheckCpu(c) \/ Xchg(c) \/ Record(c)
spin_unlock(c) == UnlockCheckLocked(c) \/ UnlockCheckCpu(c) \/ Clear(c) \/ Release(c)

Next == \E c \in Cpu : spin_lock(c) \/ spin_unlock(c)

\* A CPU inside the two functions keeps executing, and a critical section ends; a
\* CPU outside need not ask for the lock again.
Fairness ==
  \A c \in Cpu : /\ WF_vars(LockCheckCpu(c) \/ Xchg(c) \/ Record(c))
                 /\ WF_vars(spin_unlock(c))

Spec == Init /\ [][Next]_vars /\ Fairness

-----------------------------------------------------------------------------
(* Properties.                                                               *)

Recorded == {"inside", "unlock_cpu", "clear"}
Owning == Recorded \cup {"record", "release"}

\* Types of the lock's words and of the program counters.
TypeOK ==
  /\ locked \in {0, 1}
  /\ cpu \in Cpu \cup {NoCpu}
  /\ pc \in [Cpu -> Owning \cup {"outside", "lock_cpu", "xchg", "panic"}]

\* Two CPUs are never in the critical section of the big kernel lock together,
\* from the xchg that takes it to the xchg that gives it back.
Mutex == \A c, d \in Cpu : pc[c] \in Owning /\ pc[d] \in Owning => c = d

\* The debugging checks never fire for callers that lock and unlock in turn:
\* although holding() reads locked and cpu while other CPUs write them, it never
\* takes another CPU's lock for its own, nor its own for another's.
NoFalsePanic == \A c \in Cpu : pc[c] # "panic"

\* While some CPU spins, the lock keeps being handed on: it is taken by that CPU,
\* or again and again by others (the lock is not fair to one CPU).
LockHandedOn == \A c \in Cpu : (pc[c] = "xchg") ~> (\E d \in Cpu : pc[d] = "inside")
=============================================================================
