------------------------------- MODULE Startup -------------------------------
(***************************************************************************)
(* i386_init (kern/init.c) as a whole: the memory, the CPUs, and then the  *)
(* first environment, which traps into the kernel and returns.  The other  *)
(* CPUs stay in the loop at the end of mp_main.                            *)
(***************************************************************************)
EXTENDS Boot, TrapFrame

vars == <<bootVars, trapVars>>

Init == BootInit /\ TrapInit

Boots == BootNext /\ UNCHANGED trapVars

\* A trap switches to the stack of ts.ts_esp0, which is KSTACKTOP on every CPU: the
\* stack of CPU 0.  trap() marks this CPU as started.
OnKernelStack ==
  /\ stack' = [stack EXCEPT ![BootId] = 0]
  /\ UNCHANGED <<memVars, mpVars, cpu_status, mpentry_kstack, bsp, c, ap, window, lapic>>

InKernel ==
  /\ cpu_status' = [cpu_status EXCEPT ![cpunum] = TRUE]
  /\ UNCHANGED <<memVars, mpVars, mpentry_kstack, bsp, c, ap, stack, window, lapic>>

Runs ==
  /\ bsp = "env_run"
  /\ \/ FirstRun /\ UNCHANGED bootVars
     \/ UserTraps /\ OnKernelStack
     \/ trap /\ InKernel
     \/ env_pop_tf /\ UNCHANGED bootVars

Next == Boots \/ Runs

\* A CPU that is not waiting for anything takes its next step.
Spec == Init /\ [][Next]_vars /\ WF_vars(Bsp /\ UNCHANGED trapVars)
             /\ WF_vars((\E i \in Id : mp_main(i)) /\ UNCHANGED trapVars)
=============================================================================
