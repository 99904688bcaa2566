-------------------------------- MODULE Boot --------------------------------
(***************************************************************************)
(* Bringing up the other CPUs, once mem_init is done: mp_init with its     *)
(* search for the firmware's table (kern/mpconfig.c), lapic_init and       *)
(* lapic_startap (kern/lapic.c), boot_aps and mp_main (kern/init.c),       *)
(* mpentry.S and trap_init_percpu (kern/trap.c).  The boot CPU hands every *)
(* AP its stack through the one global mpentry_kstack and learns from      *)
(* cpu_status that the AP is up; all CPUs take their window on the local   *)
(* APIC from the one static variable base of mmio_map_region.              *)
(*                                                                         *)
(* A CPU is named by its local APIC id, which is taken to be its position  *)
(* in the MP table (external: the table is written by the BIOS).           *)
(***************************************************************************)
EXTENDS BootMem

CONSTANTS
  Tables,       \* the MP tables to boot with: <<MPPROC_BOOT flag of entry 1, ...>>
  Firmware,     \* the MP floating pointers to find them by: see mpsearch
  LapicPage     \* the page of lapicaddr, a device

ASSUME TablesAssumption ==
  Tables \subseteq {t \in Seq(BOOLEAN) : \E i \in DOMAIN t : t[i] /\ \A j \in DOMAIN t : t[j] => j = i}
\* check_page took three pages of the MMIO region, every CPU that is counted takes one,
\* and the boot CPU one if it is not counted.
ASSUME MmioAssumption == LapicPage \in Nat /\ 3 + NCPU + 1 <= NPT

VARIABLES
  table,          \* the MP configuration table
  fw,             \* the floating pointers in memory
  entry,          \* mp_init: entries read so far
  ismp,           \* kern/mpconfig.c
  ncpu,           \* kern/mpconfig.c
  bootcpu,        \* index of bootcpu in cpus[]
  cpu_status,     \* cpus[i].cpu_status: is it CPU_STARTED?
  mpentry_kstack, \* kern/init.c: the CPU whose stack is on offer, or NoStack
  bsp,            \* what the boot CPU is doing
  c,              \* boot_aps: the loop's CPU
  ap,             \* what each other CPU is doing
  stack,          \* the stack each CPU runs on, named by the CPU it was reserved for
  window,         \* the virtual page at which each CPU mapped the local APIC
  lapic           \* kern/lapic.c: the page all CPUs reach their local APIC through, or NoWindow

mpVars == <<table, fw, entry, ismp, ncpu, bootcpu>>
cpuVars == <<cpu_status, mpentry_kstack, bsp, c, ap, stack, window, lapic>>
bootVars == <<memVars, mpVars, cpuVars>>

NoStack == -1
BootStack == -2
NoWindow == -1
Id == 0 .. Len(table) - 1
BootId == CHOOSE i \in Id : table[i + 1]

\* cpunum() of the boot CPU: lapic stays NULL when mp_init left no address in lapicaddr.
cpunum == IF lapic # NoWindow THEN BootId ELSE 0

\* The registers of the local APIC are accessed through lapic; an access to a page that is
\* not mapped is a page fault, which ends the boot.
LapicPte == [pp |-> LapicPage, u |-> FALSE, w |-> TRUE]
Accessible == lapic # NoWindow => m.pte[lapic] = LapicPte
Then(next) == IF Accessible THEN next ELSE "fault"

BootInit ==
  /\ MemInit
  /\ table \in Tables /\ fw \in Firmware
  /\ entry = 0 /\ ismp = FALSE /\ ncpu = 0 /\ bootcpu = 0
  /\ cpu_status = [i \in Id |-> FALSE]
  /\ mpentry_kstack = NoStack
  /\ bsp = "mem_init" /\ c = 0
  /\ ap = [i \in Id |-> "off"]
  /\ stack = [i \in Id |-> IF i = BootId THEN BootStack ELSE NoStack]
  /\ window = [i \in Id |-> NoWindow] /\ lapic = NoWindow

-----------------------------------------------------------------------------
(* The MP table.                                                             *)

\* A floating pointer: do signature and checksum hold; is it one of the default
\* configurations; do signature, checksums and version of the table it points to hold?
Floating == [good : BOOLEAN, default : BOOLEAN, conf : BOOLEAN]
NoMp == [good |-> FALSE, default |-> TRUE, conf |-> FALSE]

mpsearch1(area) ==
  IF \E i \in DOMAIN area : area[i].good
  THEN area[CHOOSE i \in DOMAIN area : area[i].good /\ \A j \in 1 .. i - 1 : ~area[j].good]
  ELSE NoMp

\* The EBDA if there is one, else the end of base memory, and then the BIOS ROM.
mpsearch ==
  LET mp == mpsearch1(IF fw.ebda # <<>> THEN fw.ebda ELSE fw.basemem)
  IN  IF mp.good THEN mp ELSE mpsearch1(fw.rom)

\* A table that fails a check is not searched for elsewhere.
mpconfig == mpsearch.good /\ ~mpsearch.default /\ mpsearch.conf

-----------------------------------------------------------------------------
(* The boot CPU.                                                             *)

MemDone ==
  /\ bsp = "mem_init" /\ phase = "done"
  /\ bsp' = "mpconfig"
  /\ UNCHANGED <<memVars, mpVars, cpu_status, mpentry_kstack, c, ap, stack, window, lapic>>

\* Without a table there is no loop, and no CPU is counted.
MpConfig ==
  /\ bsp = "mpconfig"
  /\ ismp' = mpconfig
  /\ bsp' = IF mpconfig THEN "mp_init" ELSE "lapic_init"
  /\ UNCHANGED <<memVars, table, fw, entry, ncpu, bootcpu, cpu_status, mpentry_kstack, c, ap, stack, window, lapic>>

\* One processor entry; the entries for buses and interrupts are skipped.
MpEntry ==
  /\ bsp = "mp_init" /\ entry < Len(table)
  /\ entry' = entry + 1
  /\ bootcpu' = IF table[entry + 1] THEN ncpu ELSE bootcpu
  /\ ncpu' = IF ncpu < NCPU THEN ncpu + 1 ELSE ncpu
  /\ UNCHANGED <<memVars, table, fw, ismp, cpuVars>>

\* An entry of a type that mp_init does not know ends the loop.
MpUnknown ==
  /\ bsp = "mp_init" /\ ismp
  /\ entry' = Len(table)
  /\ ismp' = FALSE
  /\ UNCHANGED <<memVars, table, fw, ncpu, bootcpu, cpuVars>>

MpDone ==
  /\ bsp = "mp_init" /\ entry = Len(table)
  /\ cpu_status' = [cpu_status EXCEPT ![bootcpu] = TRUE]
  /\ ncpu' = IF ismp THEN ncpu ELSE 1
  /\ bsp' = "lapic_init"
  /\ UNCHANGED <<memVars, table, fw, entry, ismp, bootcpu, mpentry_kstack, c, ap, stack, window, lapic>>

\* lapic = mmio_map_region(lapicaddr, 4096) in its two steps: the mapping at base ...
MapWindow(i) ==
  /\ m' = boot_map_region(m, m.base, 1, LapicPage, FALSE, TRUE)
  /\ window' = [window EXCEPT ![i] = m.base]
  /\ UNCHANGED <<phase, cr3, region, mpVars, cpu_status, mpentry_kstack, c, stack, lapic>>
\* ... and the new base; lapic_init keeps what is returned in lapic.
MoveBase ==
  /\ m' = [m EXCEPT !.base = @ + 1]
  /\ lapic' = Returned(m.base, 1)
  /\ UNCHANGED <<phase, cr3, region, mpVars, cpu_status, mpentry_kstack, c, stack, window>>

NoLapic ==
  /\ bsp = "lapic_init" /\ ~ismp
  /\ bsp' = "loop"
  /\ UNCHANGED <<memVars, mpVars, cpu_status, mpentry_kstack, c, ap, stack, window, lapic>>
BspWindow == bsp = "lapic_init" /\ ismp /\ MapWindow(BootId) /\ bsp' = "base" /\ UNCHANGED ap
BspBase == bsp = "base" /\ MoveBase /\ bsp' = "lapicw" /\ UNCHANGED ap
\* The registers that lapic_init sets.
BspRegisters ==
  /\ bsp = "lapicw"
  /\ bsp' = Then("loop")
  /\ UNCHANGED <<memVars, mpVars, cpu_status, mpentry_kstack, c, ap, stack, window, lapic>>

\* The loop of boot_aps, for a CPU that is this one ...
SkipSelf ==
  /\ bsp = "loop" /\ c < ncpu /\ c = cpunum
  /\ c' = IF Accessible THEN c + 1 ELSE c
  /\ bsp' = Then("loop")
  /\ UNCHANGED <<memVars, mpVars, cpu_status, mpentry_kstack, ap, stack, window, lapic>>

\* ... and for another: the top of its stack, then lapic_startap.
OfferStack_Bottom ==
  /\ bsp = "loop" /\ c < ncpu /\ c # cpunum
  /\ mpentry_kstack' = IF Accessible THEN c - 1 ELSE mpentry_kstack
  /\ bsp' = Then("INIT")
  /\ UNCHANGED <<memVars, mpVars, cpu_status, c, ap, stack, window, lapic>>
OfferStack ==
  /\ bsp = "loop" /\ c < ncpu /\ c # cpunum
  /\ mpentry_kstack' = IF Accessible THEN c ELSE mpentry_kstack
  /\ bsp' = Then("INIT")
  /\ UNCHANGED <<memVars, mpVars, cpu_status, c, ap, stack, window, lapic>>

\* lapic_startap sends INIT and two STARTUPs; only the first finds the AP halted.
ReceivesStartup(i) == ap[i] = "halted"

lapic_startap(at, next) ==
  /\ bsp = at
  /\ ap' = IF Accessible /\ at = "INIT" THEN [ap EXCEPT ![c] = "halted"]
           ELSE IF Accessible /\ ReceivesStartup(c) THEN [ap EXCEPT ![c] = "mpentry"] ELSE ap
  /\ bsp' = Then(next)
  /\ UNCHANGED <<memVars, mpVars, cpu_status, mpentry_kstack, c, stack, window, lapic>>

StartAp ==
  lapic_startap("INIT", "STARTUP 1") \/ lapic_startap("STARTUP 1", "STARTUP 2")
  \/ lapic_startap("STARTUP 2", "wait")

\* while(c->cpu_status != CPU_STARTED) ;
WaitStarted_Not ==
  /\ bsp = "wait"
  /\ c' = c + 1 /\ bsp' = "loop"
  /\ UNCHANGED <<memVars, mpVars, cpu_status, mpentry_kstack, ap, stack, window, lapic>>
WaitStarted ==
  /\ bsp = "wait" /\ cpu_status[c]
  /\ c' = c + 1 /\ bsp' = "loop"
  /\ UNCHANGED <<memVars, mpVars, cpu_status, mpentry_kstack, ap, stack, window, lapic>>

\* The end of boot_aps: the first environment is created and run.
RunFirstEnv ==
  /\ bsp = "loop" /\ c = ncpu
  /\ bsp' = "env_run"
  /\ UNCHANGED <<memVars, mpVars, cpu_status, mpentry_kstack, c, ap, stack, window, lapic>>

-----------------------------------------------------------------------------
(* The other CPUs.                                                           *)

ApStep(i, from, to) == ap[i] = from /\ ap' = [ap EXCEPT ![i] = to]

\* mpentry.S: movl mpentry_kstack, %esp; then mp_main, which asks for its cpunum().
mpentry(i) ==
  /\ ApStep(i, "mpentry", Then("mp_main"))
  /\ stack' = [stack EXCEPT ![i] = mpentry_kstack]
  /\ UNCHANGED <<memVars, mpVars, cpu_status, mpentry_kstack, bsp, c, window, lapic>>

\* lapic_init, which an AP reaches only when lapicaddr is set ...
ApWindow(i) == ApStep(i, "mp_main", "base") /\ MapWindow(i) /\ UNCHANGED bsp
ApBase(i) == ApStep(i, "base", "lapicw") /\ MoveBase /\ UNCHANGED bsp
ApRegisters(i) ==
  /\ ApStep(i, "lapicw", Then("setup"))
  /\ UNCHANGED <<memVars, mpVars, cpu_status, mpentry_kstack, bsp, c, stack, window, lapic>>

\* ... then env_init_percpu and trap_init_percpu, which finds thiscpu with cpunum().
Setup(i) ==
  /\ ApStep(i, "setup", Then("started"))
  /\ UNCHANGED <<memVars, mpVars, cpu_status, mpentry_kstack, bsp, c, stack, window, lapic>>

\* xchg(&thiscpu->cpu_status, CPU_STARTED), then for (;;);
Started_Silent(i) ==
  /\ ApStep(i, "started", "spin")
  /\ UNCHANGED <<memVars, mpVars, cpu_status, mpentry_kstack, bsp, c, stack, window, lapic>>
Started(i) ==
  /\ ApStep(i, "started", Then("spin"))
  /\ cpu_status' = IF Accessible THEN [cpu_status EXCEPT ![i] = TRUE] ELSE cpu_status
  /\ UNCHANGED <<memVars, mpVars, mpentry_kstack, bsp, c, stack, window, lapic>>

-----------------------------------------------------------------------------
MemStep == bsp = "mem_init" /\ mem_init /\ UNCHANGED <<mpVars, cpuVars>>

Bsp ==
  \/ MemStep \/ MemDone \/ MpConfig \/ MpEntry \/ MpUnknown \/ MpDone
  \/ NoLapic \/ BspWindow \/ BspBase \/ BspRegisters
  \/ SkipSelf \/ OfferStack \/ StartAp \/ WaitStarted \/ RunFirstEnv
mp_main(i) == mpentry(i) \/ ApWindow(i) \/ ApBase(i) \/ ApRegisters(i) \/ Setup(i) \/ Started(i)

BootNext == Bsp \/ \E i \in Id : mp_main(i)

-----------------------------------------------------------------------------
(* Properties.                                                               *)

\* A CPU that is still making calls.
Calling(i) == IF i = BootId THEN TRUE ELSE ap[i] \notin {"off", "halted", "spin"}

\* An AP runs on the stack boot_aps reserved for it, although all are handed out through
\* one global, and no two CPUs that are still making calls share one, not even when the
\* boot CPU traps: trap_init_percpu gives it the stack of CPU 0, whoever that is.  Each
\* CPU has its own window on its local APIC, although they share the variable base, and
\* the variable lapic, which every CPU overwrites while others use it, always leads to one:
\* no access to a register faults.
OwnResources ==
  /\ \A i \in Id \ {BootId} : stack[i] \in {NoStack, i}
  /\ \A i, j \in Id : i # j /\ stack[i] = stack[j] /\ stack[i] # NoStack => ~(Calling(i) /\ Calling(j))
  /\ \A i, j \in Id : i # j /\ window[i] = window[j] => window[i] = NoWindow
  /\ \A i \in Id : window[i] # NoWindow => m.pte[window[i]] = LapicPte
  /\ Accessible /\ bsp # "fault" /\ \A i \in Id : ap[i] # "fault"

\* When the boot CPU goes on to run environments every CPU that mp_init counted is
\* up, and those beyond NCPU were never started.
ApsUp == \A i \in Id :
  /\ bsp = "env_run" /\ i < ncpu /\ i # cpunum => ap[i] = "spin" /\ cpu_status[i]
  /\ i >= NCPU => ap[i] = "off"

\* boot_aps does not hang: the first environment is run.  With what mmio_map_region returns
\* as the code stands the boot does not get that far; it ends in the panic of check_page.
BootFinishes == <>(IF MmioReturns = "base" THEN bsp = "env_run" ELSE phase = "panic")
=============================================================================
