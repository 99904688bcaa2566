# A TLA+ verification of the JOS kernel

JOS is a small x86 exokernel (kern/), a library that user programs are linked
with (lib/) and the programs themselves (user/).  This directory specifies the
parts of it that carry its logic, model-checks them on small instances with TLC
and proves the safety properties for every instance with TLAPS, but for those of
the recursive routines.  All paths below
are relative to the repository.

    tlc -workers 2 -config Pmap.cfg MCPmap      # a run: see "Runs"
    tlapm SchedProofs.tla                       # a proof: see "Proofs"

## The system

| component | state | operations | interacts with |
|---|---|---|---|
| physical pages, page tables, TLB (kern/pmap.c) | `page_free_list`, `pages[].pp_ref`, directories and tables, the TLB | page_alloc, page_free, page_decref, pgdir_walk, page_insert, page_lookup, page_remove, tlb_invalidate | called by env.c when an environment is loaded or freed, and by the memory system calls |
| boot-time memory setup (kern/pmap.c, kern/entrypgdir.c) | `nextfree`, the first free list, `kern_pgdir`, `base` of the MMIO region | boot_alloc, page_init, boot_map_region, mem_init, mmio_map_region, the check_ functions | runs once before everything else, in the 4 MB that entry_pgdir maps; mmio_map_region again on every CPU |
| user memory checks (kern/pmap.c) | `user_mem_check_addr` | user_mem_check, user_mem_assert | every system call with a user pointer; page_fault_handler |
| environment table (kern/env.c) | `envs[]`, `env_free_list`, `curenv` | env_init, envid2env, env_alloc, env_create, env_free, env_destroy, env_run | scheduler, traps, system calls |
| traps and scheduler (kern/trap.c, kern/trapentry.S, kern/sched.c) | `curenv`, the statuses, the trap frame, the local APIC's interrupt in service | trap_init, _alltraps, trap, trap_dispatch, sched_yield, env_pop_tf | hardware interrupts; ends in env_run or in the monitor |
| system calls (kern/syscall.c, lib/syscall.c) | none of its own | the stubs, the dispatcher, the sys_* functions | user code, through registers and the trap frame |
| page-fault upcalls (kern/trap.c, lib/pfentry.S, lib/pgfault.c) | the exception stack, `env_pgfault_upcall`, `_pgfault_handler` | page_fault_handler, _pgfault_upcall, set_pgfault_handler | kernel and user code share the exception stack |
| copy-on-write fork (lib/fork.c) | page tables of parent and child | fork, duppage, pgfault | six system calls, interleaved with everything else |
| messages (kern/syscall.c, lib/ipc.c) | the `env_ipc_*` fields | sys_ipc_recv, sys_ipc_try_send, ipc_recv, ipc_send | scheduler (blocking and waking), page tables |
| spin lock (kern/spinlock.c) | `locked`, `cpu` | spin_lock, spin_unlock, holding | every CPU in the kernel |
| bringing up CPUs (kern/mpconfig.c, kern/init.c, kern/mpentry.S, kern/lapic.c) | `cpus[]`, `ncpu`, `ismp`, `bootcpu`, `mpentry_kstack` | mp_init, boot_aps, lapic_startap, mp_main | boot CPU and APs through shared memory |
| console (kern/console.c, lib/readline.c) | the ring buffer, the shift state, the display cursor | cons_intr, cons_getc, kbd_proc_data, cga_putc, readline | polled by the monitor and sys_cgetc |
| monitor, debug information (kern/monitor.c, kern/kdebug.c) | the line in readline's buffer | monitor, runcmd, debuginfo_eip, stab_binsearch | entered from sched_yield and breakpoints |
| formatting and strings (lib/printfmt.c, lib/printf.c, kern/printf.c, lib/string.c) | none | vprintfmt, snprintf, cprintf, memmove, strtol, ... | everywhere |
| boot loader, entry code, device registers (boot/, kern/entry.S, picirq.c, kclock.c) | hardware | - | before the kernel runs |

What makes this code hard is not its size but its interleavings and its limits:
the timer may switch environments between any two system calls; faults may hit
the fault handler; several CPUs spin on one lock word and read their stack from
one global; every slot, page and identifier is reused; memory runs out in the
middle of an operation; and counters are finite.  `hazards` in PROJECT.json lists
each place with the properties that would catch it.

What makes each component correct, in words:

* pages: `pp_ref` counts exactly the pointers to a page, the free list holds
  exactly the unreferenced pages, no page plays two roles, user code never runs
  with a cached translation that the tables no longer give; seen from user code,
  all of this is invisible.
* environments: one is running, the free list is exact, an envid names one
  environment, only the creator may control it, the CPU goes around.
* messages: an accepted message reaches one receive, a blocked receiver can be
  woken.
* upcalls: the interrupted code goes on as if nothing had happened; a fault whose
  frame does not fit on the exception stack destroys the environment, any other
  is served.
* fork: memory is copied, as far as either side can tell.
* lock: exclusion, no false alarm of its checks, progress.
* boot: no page that holds something is on the free list, no page is touched
  before it is mapped, every CPU gets a stack and a window on its APIC of its own,
  and the boot ends.
* traps: an interrupted environment goes on with the registers it had; a system
  call's arguments arrive in their order.
* user memory: a range is allowed exactly if user code may access all of it.
* monitor: a line is run as the words it shows.
* routines: each returns what a direct definition of its result says.
* console: what is read is what was typed; what is shown is what is in the line.

## Modules

| module | models | built on |
|---|---|---|
| AddressSpaces | the promise of pmap.c: maps from addresses to frames | |
| Pmap | pmap.c with its callers in env.c and syscall.c | refines AddressSpaces |
| Sched | env.c, trap(), sched.c, the status system calls | |
| Ipc | the message system calls and ipc_recv | extends Sched |
| Upcall | page_fault_handler, pfentry.S, pgfault.c | |
| Fork | fork.c over abstract system calls | |
| Spinlock | spinlock.c, one memory access per step | |
| BootMem | mem_init, statement by statement, and entry_pgdir | |
| Boot | mp_init, lapic_init, boot_aps, mp_main | extends BootMem |
| TrapFrame | trap_init, trapentry.S, trap(), the system call stubs and dispatcher, env_pop_tf | |
| Startup | i386_init and the first environment | composes Boot and TrapFrame |
| Console | cons_intr, cons_getc, kbd_proc_data | |
| Readline | readline, cga_putc, the rounds of the monitor's loop | |
| Strings | lib/string.c as operators | |
| Printfmt | lib/printfmt.c, both cprintf, sys_cputs as operators | extends Strings |
| Kdebug | stab_binsearch, debuginfo_eip as operators | |
| UserMem | user_mem_check as an operator | |
| Monitor | runcmd in the monitor's loop | extends Readline and Strings |
| Library | the monitor, and calls of the routines | composes Monitor, Printfmt, Kdebug, UserMem |
| PmapProofs, PmapSafetyProofs | theorems on Pmap | PmapSafetyProofs extends PmapProofs |
| SchedProofs | theorems on Sched and Ipc | extends Ipc |
| UpcallProofs, ForkProofs, SpinlockProofs | theorems | their modules |
| ConsoleProofs | theorems on Console and on Readline | extends both |
| BootProofs | theorems on BootMem, Boot and TrapFrame | extends Startup |
| MCPmap, MCFork, MCStartup | instances for TLC | their modules |

Definitions have the names of the functions they model.  `X_Something` next to
`X` is a deliberately wrong variant of `X` (a dropped guard, a missing reset); no
specification uses it, and replacing `X` by it makes a property fail.  PROJECT.json
("map") gives the source lines of every definition.

### Pmap

`k` is the kernel's memory as a record: `page_free_list` as a sequence, `pp_ref`
with its arithmetic modulo `RefMod` (2^16 in the code), `mem`, the words of every
page, and `env_pgdir`.  A page is a directory, a table or user data only by how it
is reached: all three are the same words, so a page that is recycled without
being cleared is misread just as the hardware would.  The functions of pmap.c are
operators from memory to memory; the callers are actions.  The kernel runs with
interrupts off on one CPU, so a system call is one step; env_free is one step per
page-table entry because its intermediate states matter.  The processor may fill
its TLB at any time from the loaded directory (`TlbFill`), and stores go through
the TLB (`Store`), so a missing flush is visible.  page_remove and page_insert flush
an address first and rewrite its entry afterwards (kern/pmap.c:584-585, 521-526);
`TlbAfter` has both outcomes, the second with the old entry refilled in between.  A
stale translation may therefore stay in the TLB while the kernel runs, also of a page
that has been freed.  TlbCoherent says that none is left when user code runs or a
program is loaded; what removes it is that env_run loads cr3 on every way out of the
kernel, for the same environment too.  load_icode maps each page of a program once, as
the segments that user/user.ld makes are on different pages (guard of `LoadSegment`);
with two segments on one page the second memmove could go through a stale translation.
`lost` names the pages that
region_alloc takes and then cannot insert (see "Disagreements").

The system calls take any two live environments, which allows more than
envid2env's permission check does.  sys_page_alloc is left out here: as written it
inserts an uninitialised pointer.  Fork models it.

### Sched

One record holds `envs`, `env_free_list`, `curenv` and whether the CPU is in user
mode or in the monitor.  A trap is one step: `trap(Handler)` is trap() around the
handler that trap_dispatch calls, with the zombie check before and the choice
between env_run and sched_yield after it.  `inService` is the local APIC's memory
that the timer interrupt was not acknowledged.  `birth`, `creator`, `held` are
history: which creation a slot holds, who created it, and the ids handed out;
they let the properties speak of environments rather than slots.  `env_id` keeps
the code's generation arithmetic with its reset when it would turn negative.  boot_aps
creates one environment, and only the boot CPU runs environments (mp_main ends in
a loop), so ENV_DYING, although modelled, is never set; OneRunning says so.

### Ipc

Adds the `env_ipc_*` fields and, per environment, the set of addresses at which a
page is mapped.  Every step of Sched is a step of Ipc; env_alloc clears
`env_ipc_recving` and nothing else.  ipc_recv is the library's wrapper with its
choice of address; ipc_send is a loop of sys_ipc_try_send and sys_yield, which
are actions.

### Upcall

One environment, two stacks as words of memory, and the registers.  The kernel's
frame has the layout of struct UTrapframe with the eight general registers as
one.  Each instruction of _pgfault_upcall that can fault or that changes a stack
is a step.  C code (the main program, the handler) pushes, pops, computes and
may fault at any point; the handler may map the page below the user stack that
made `StoreEip` fault.  `saved` is history: what each unfinished fault interrupted.
`%esp` moves a word at a time: a C frame so large that it jumps over the unmapped page
below the exception stack is not modelled.

### Fork

Each environment has a map of pages with PTE_W and PTE_COW; every system call of
fork, duppage and pgfault is a step, and so is duppage's read of the page-table
entry, which is stale by the time it is used.  The stack fork runs on is itself
duplicated, so it may fault between any two steps (`Write` with va = Stack).
Either side may exit or panic anywhere, as it does when memory runs out; the unfinished
child then stays behind, as in the code.  `view` is history: what each page would
hold if fork had copied it.  What happens on the exception stack is the subject of
Upcall; here it is a page that is mapped or not.  fork.c reads `vpt` and `vpd`,
older names of `uvpt` and `uvpd`; they are taken to mean those.

sys_page_alloc is modelled as it is written (kern/syscall.c:187-194).  page_alloc gets
`&p` for its flags and what it returns is dropped; the page that is inserted and cleared
is whichever the uninitialised `p` names.  So `sys_page_alloc` takes any frame, and
`stray` remembers whether one that is mapped elsewhere was ever taken.  After that
nothing can be said about memory (ForkCopies, as the invariant of Fork.cfg without its
CONSTRAINT, is violated by the first fork), and PrivateMemory and
WritableIsPrivate speak of behaviours in which it has not happened; FaultsHandled does
not depend on it.  A `p` that names no page at all stops the kernel.  The page it does
name may still be on the free list, and may become a page table later; this and the lost
page are not modelled, frames have no other use here.

pgfault copies to PFTEMP and maps the copy at the faulting address, but never unmaps
PFTEMP.  After the next fork its frame is shared with the child and still writable
through PFTEMP.  WritableIsPrivate is about every page, PFTEMP and the
exception stack included, and names this alias as an exception.  It does no harm as long as
only pgfault writes there, and pgfault has then replaced the page: while it copies, the
page at PFTEMP is its own.  The program's stores (`Write`) go to its own pages.

### Spinlock

One step per access to `locked` or `cpu`; only xchg is atomic.

### BootMem, Boot and Startup

BootMem counts memory in pages and follows mem_init one statement at a time.  The
virtual pages from UTOP up are numbered from 0, with the layout of memlayout.h: one
page table each for UENVS, UPAGES, UVPT, the MMIO region and the stacks, then
KERNBASE.  `Do` is the heart of it: a statement that writes to pages that the
directory in use does not map ends in phase "fault".  So the model shows why
check_page_free_list(1), a check, is needed for the boot to work: it puts the pages
below 4 MB in front.  boot_map_region takes its page tables from the free list as
pgdir_walk does.  check_page_alloc, check_page and check_page_installed_pgdir test
functions that Pmap models; here they borrow the first three free pages, write to
them, and give them back in the order of their page_free calls.

As committed, mmio_map_region returns the end of the region (kern/pmap.c:636-638).
check_page asserts otherwise (1094-1106), and the boot ends in its panic: run
startup_checks.  So that the rest of the boot can be examined, what is returned is a
constant, MmioReturns: "end" is the code as it stands, "base" what its comment and
check_page ask for.  BootFinishes and what Startup says about the CPUs and the traps are
checked for "base"; without check_page, "end" would leave `lapic` one page behind the
window and the first access to a register would fault.  The theorems hold for both:
with "end" the boot does not get past the panic.

MemoryReady speaks of the mappings in the page tables.  The directory's entry for UVPT is
the directory itself, so user code reads the page tables there too (memlayout.h:49); these
addresses have no entries in the model.  A machine without extended memory
(kern/pmap.c:49-50) is in i386_detect_memory, but FirstFreeAssumption excludes it:
page_init would have no page to give.

In Boot the boot CPU and the APs run concurrently.  mpsearch looks through up to
three areas for a floating pointer with a good checksum, mpconfig takes or refuses
the table behind it; the contents of tables and areas are external.  lapic_startap
sends INIT and two STARTUPs, and only a halted AP obeys a STARTUP.  lapic_init's use
of mmio_map_region is two steps, since all CPUs share the static `base`.  The result
is kept in the one variable `lapic`, which each CPU overwrites; every access to a
register of a local APIC, cpunum() and lapic_startap included, goes through it and
faults if its page is not mapped (`Then`).  `window` is where a CPU mapped its own.  A CPU's
APIC id is its position in the table.  The tables have their boot CPU among the
first NCPU entries (see "Disagreements").

Startup runs the boot and then one environment with TrapFrame.  When the boot CPU
traps, it switches to the stack that trap_init_percpu wrote into the one task state
segment, which is that of CPU 0.

### TrapFrame

Each register's value is a name, and a frame is a sequence of words that the CPU,
the entry point of the vector, _alltraps, struct Trapframe and env_pop_tf each have
their own idea of.  User code may be interrupted by every vector with a gate, may
execute int, and may call every stub; the kernel may resume it, or destroy it and
run another.  The dispatcher is the committed one: four calls, and -E_INVAL for the
rest.  A breakpoint goes on, after the monitor, to destroy the environment; a
result below 0 never panics since `reg_eax` is unsigned (kern/trap.c:281).  What the
handlers do to environments is in Sched and Upcall.

### Strings, Printfmt, Kdebug, UserMem and Library

The routines have no state, so they are operators: a memory before to a memory
after, a format and arguments to characters.  They are recursive where the code
loops.  Library makes a call of one with one of many arguments a step, and the
properties compare the result with a definition that is not recursive.  memset and
memmove are the versions with rep stos and rep movs, which choose words or bytes
and the direction.  vprintfmt is its scanner: flags, width and precision as the code
accumulates them, and the way back after an unknown escape.  A piece of user output
is formatted a second time by sys_cputs; the buffer's rest is what an earlier piece
left.  An argument is everything va_arg could make of it.

Stab tables begin with a header and a file, as the linker makes them, and hold
functions, files, lines and parameters in the order of their addresses, which are taken
from the constant Addresses.  In the run monitor they are two or more apart; with
adjacent ones stab_binsearch, which goes on with addr + 1 after an exact match, returns
the stab that begins there (Encloses fails with Addresses = {2, 3, 6}).  The search for the line number is
not written (kern/kdebug.c:203-211), so that `line` stays unknown and a table without
one is no failure: Encloses is about the file and the function.  Formatted says how
numbers are padded with blanks and zeros; of the flag '-' it only says that the digits
come out, since the code pads with '-' on the left where line 109 of printfmt.c
announces padding on the right.

user_mem_check has its address arithmetic modulo the size of the address space;
the ranges end inside it.  For a range that wraps around the loop does not run and
the answer is 0.

### Monitor

runcmd cuts the line into arguments inside the buffer in which readline left it;
`cmd` is the buffer afterwards, the addresses in argv and the command found.  It
accepts MAXARGS - 1 words ("Too many arguments (max 16)" appears for the sixteenth).

### Console and Readline

Nothing routes the keyboard's or the serial port's interrupt to the console, so
cons_getc is the only reader and polls both; the devices may deliver more between
any two rounds of its loops.  The keyboard is external: keys by the scan code they
share with others and by their E0 escape, one byte when a key goes down and one
when it goes up.  Each byte carries, as history, what the typist meant by it;
`unread` is what has been meant and not been read yet, and a ring buffer that fills
up counts as empty, as in the code.  At most one key of each modifier is used,
because the two share a bit and letting one go releases both.

Readline has the editor's line and the display's window, which only the echo
connects.  The screen starts as the BIOS left it, so with any contents and any
cursor.  Between two lines the monitor prints anything.  A tab is five calls of
cons_putc, each of which may scroll.  getchar never fails in the kernel, and the
console is always what is echoed to.  Readline is a specification of its own, EditSpec,
in which running a line (`RunLine`) does nothing but end the round; Monitor's steps are
those of EditSpec with what runcmd does to `cmd` added.

## Runs

| run | instance | shows |
|---|---|---|
| pmap | 2 environments, 5 pages, 2x2 entries, 3 addresses, two of them in use at a time, one stored word | RefCount, FreeListExact, RolesDisjoint, TlbCoherent, ReadOnlyStays, TypeOK (no dangling curenv), and Pmap implements AddressSpaces |
| sched_safety | 4 slots, 5 creations | OneRunning, EnvListExact, ParentIsCreator, StaleIdRefused, NoneRunnableLeft, RoundRobin, and TypeOK |
| sched_preempt | 3 slots, fair timer | violation of Preempted |
| ipc_safety | 3 slots, 3 creations, 2 addresses | AcceptedOnce, NoLostWakeup |
| ipc_utop | 3 slots | violation of NothingAboveUTOP |
| upcall | exception stack of 15 words, frames of 5 | FramesIntact, Resumes, UpcallOrDestroy |
| fork | 3 slots, 1 page, or 2 slots, 2 pages; 9 frames, 2 values | PrivateMemory, WritableIsPrivate, FaultsHandled |
| spinlock | 3 CPUs | Mutex, NoFalsePanic, LockHandedOn |
| startup | tables of 1 to 5 CPUs, NCPU = 4, six layouts of the firmware, page tables of 24 entries, memory of 26 and 40 pages, `int` with 5 vectors, MmioReturns = "base" | FreeListSafe, MemoryReady, OwnResources, ApsUp, RegistersRestored, BootFinishes |
| startup_checks | the same, MmioReturns = "end" | violation of ChecksPass |
| console | 3 cells, 6 keys, 2 serial characters, 2 bytes pending | InOrder, ModifiersTrack, RebootMeant |
| monitor | 4 rows of 2, lines of 5, MAXARGS = 3, 3 commands; the routines on small inputs | ScreenShowsLine, ArgvSplit, StringResults, Formatted, Encloses, UserMemExact |

Why the bounds are enough for the interesting cases:

* Pmap.  Five pages let two environments (a directory and a table each) share one
  frame, and let every allocation fail: in env_setup_vm, in region_alloc, in
  pgdir_walk under page_insert.  Two pages under one table and one under another
  exercise both levels of env_free; of the three addresses two are in use at a time
  (CONSTRAINT Small), any two.  One word that user code has stored in a page is enough to be
  misread when the page becomes a table.  RefMod = 16 is out of reach of the mappings
  there are, so the counter does not wrap.
* Sched.  Four slots leave three in sched_yield's circle besides envs[0]; five
  creations reuse slots.  IdLimit leaves room for as many generations as a slot
  can see in five creations.
* Ipc.  A receiver and two senders, with one slot reused.
* Upcall.  Fifteen words are the smallest page on which the handler runs at depth two,
  with its argument and a return address, and the next fault overflows; the user stack has one word mapped and one that faults.
* Fork.  Two slots and reuse: a child forks after its parent died, a parent forks
  again while its stack is still copy-on-write, which is what makes duppage's
  second call necessary.  Every mapping can have a frame of its own; an allocation that
  fails is the panic that `Exit` allows at every point.  A third slot, used by programs
  without a page but their stack, adds an observer: when a parent dies half-way, two others
  run with the frames of the unfinished child.  The run ends a behaviour at the first page in
  use that sys_page_alloc hands out (CONSTRAINT Small), after which PrivateMemory and
  WritableIsPrivate say nothing; that FaultsHandled holds on is proved.  MCView identifies states that differ in the numbers of the frames only: what
  a state allows is decided by which mappings share a frame and what it holds.
* Console.  A ring of three wraps and overruns; the keys have every modifier, with
  and without E0, and both locks of a letter's case; two bytes are the longest
  sequence of one key, so that reading may stop within it.
* Readline, Monitor.  A line of five covers two rows and more, so that it wraps,
  scrolls and is erased across rows; it stays below the window without one row, as
  1023 characters on 24 rows of 80 do.  Five characters make three words, one more than
  MAXARGS = 3 allows, and words that are a prefix of a command, a command and longer.
* Startup.  Page tables of 24 entries stand for 4 MB.  With 26 pages of memory two are
  not mapped by entry_pgdir, with 40 sixteen are, and in both cases there are fewer
  free pages below 4 MB than in all.  The page tables of mem_init use up most of the
  low ones.  The kernel's image, its arrays and FirstFree are in the order and nearly
  as close as in the real memory.  Five CPUs are one more than NCPU; the boot CPU is
  at every position.  The firmware's pointer is in each of the three places, behind a
  bad one, missing, or leads to a table that is refused although another is good.
  Interrupts and exceptions come with every vector that has a gate.  IntVectors, what user
  code executes `int` with, has the two that user code may use, two it may not, for
  which the CPU pushes an error code when it raises them itself, and one without a gate.
* The routines.  memmove: every pair of blocks in three words, so every alignment and
  overlap.  Strings of up to two characters, sizes beyond their length.  Formats: '%'
  and up to three characters, with widths, precisions, stars and unknown escapes;
  integers of 8 bits, so that both signs and the wrap-around occur; an output buffer
  of 4 and sizes for snprintf up to 8, so that output is cut and split.  Stabs: four
  after the first file, of four types.  user_mem_check: pages of 3 addresses, three
  below ULIM with every permission and two above it, every range.  They are called on
  a blank screen only, as they do not look at it.
* Spinlock.  A holder and two that compete.

Symmetry is used for the environments of Pmap and Fork, whose names occur in no
order and which these runs check for safety only.

### Fairness

* LockHandedOn assumes that a CPU inside spin_lock or spin_unlock goes on, and
  that a critical section ends: nothing in the kernel waits while it holds the
  lock.  Nothing is assumed of a CPU that does not want the lock, and no CPU is
  promised the lock: xchg is not fair.
* BootFinishes assumes that the boot CPU executes its instructions, and that the APs
  that are started do: weak fairness of `Bsp` and of the APs' steps together (at most
  one of them is on its way at a time).
* Preempted assumes only that a timer that can interrupt will (`WF(Timer)`), and
  nothing of user code, which may spin for ever.

Deadlock is checked everywhere.  Where the system really stops, the specification
says so with a stuttering step: `Halted` and `InMonitor` (panic, or the monitor for
good), `Reset` (Ctrl-Alt-Del), `Ended`, `Done` (no environment left), `Spin` (the busy-wait).

## Proofs

One module of theorems per component: PmapProofs (the functions of pmap.c) and
PmapSafetyProofs (the invariants), SchedProofs (with the messages), UpcallProofs,
ForkProofs, SpinlockProofs, BootProofs, ConsoleProofs.  Every theorem holds for every
value of the constants that satisfies the ASSUMEs of its module.

| theorem | property | for every |
|---|---|---|
| PmapTypeCorrect | `[]TypeOK` | number of pages, table size, counter width, set of environments and addresses |
| WalkGood, RemoveGood, InsertGood | what pgdir_walk, page_remove and page_insert do to a consistent memory | the same, and every consistent memory |
| RefCountExact, NoLeakNoDoubleFree, PageRolesDisjoint, TlbAlwaysCoherent | `[]RefCount`, `[]FreeListExact`, `[]RolesDisjoint`, `[]TlbCoherent` | the same, while RefsFit |
| ReadOnlyPagesStay | `ReadOnlyStays` | the same, while RefsFit |
| PmapImplementsSpaces | `ImplementsSpaces` | the same, while RefsFit |
| SmallMachineFits | `[]RefsFit` | machine with NPages * NIdx < RefMod |
| SchedTypeCorrect, OneEnvRuns, EnvListAlwaysExact, MonitorMeansNoneRunnable | `[]TypeOK`, `[]OneRunning`, `[]EnvListExact`, `[]NoneRunnableLeft` | number of slots, generation step, id width, number of creations |
| SchedulesInOrder | `RoundRobin` | the same |
| EnvidNamesOneForEver, OnlyTheCreatorControls | `[]StaleIdRefused`, `[]ParentIsCreator` | the same, while GenerationsLeft |
| GenerationsSuffice | `[]GenerationsLeft` | id width with room for MaxBirths generations |
| WakeupsArrive, MessagesAcceptedOnce | `[]NoLostWakeup`, `AcceptedOnce` | the same, address space and set of values |
| MessagesKeepScheduler | OneRunning, EnvListExact and NoneRunnableLeft of Ipc | the same |
| FramesStayIntact, UpcallResumes, FaultServedOrFatal | `[]FramesIntact`, `Resumes`, `UpcallOrDestroy` | size of both stacks, set of words, depth of recursion |
| ForkIsACopy, WritablePagesPrivate, CowFaultsHandled | `[]PrivateMemory`, `[]WritableIsPrivate`, `[]FaultsHandled` | number of environments, pages, frames, values |
| SpinlockMutex, SpinlockNoFalsePanic | `[]Mutex`, `[]NoFalsePanic` | set of CPUs |
| FreeListIsSafe, MemoryIsReady | `[]FreeListSafe`, `[]MemoryReady` | size of memory, of the arrays and of the kernel image, number of page tables, number of CPUs and interleaving of their lapic_init, both values of MmioReturns |
| RegistersAreRestored | `[]RegistersRestored` | set of vectors that user code tries |
| CpusOwnTheirResources, CountedCpusUp | `[]OwnResources`, `[]ApsUp` | MP table, firmware, NCPU, layout of memory, both values of MmioReturns |
| ScreenShowsTheLine | `[]ScreenShowsLine` of EditSpec | size of the screen and of the line, set of characters, first contents of the screen |
| InputInOrder, NoModifierSticks, RebootsWhenMeant | `[]InOrder`, `[]ModifiersTrack`, `RebootMeant` | size of the buffer and of the keyboard's queue, set of keys, serial line |

The assumptions are the ASSUMEs of the modules: positive sizes, RefMod > 1, a finite
set of environments, null pointers that name nothing.  Some deserve a word.  Sched's
IdLimit and GenStep are multiples of NENV, as 2^31 and 4096 are of 1024: the low bits
of an id are its slot.  Fork has at least as many frames as an address space has
pages, since the first environment starts with all of its own mapped.  In Upcall
something is unmapped between the two stacks; this is the guard page of
inc/memlayout.h ("Empty Memory"), which user programs are trusted not to map.
TablesAssumption of Boot: an MP table names one boot CPU.

Those of BootMem say when mem_init works at all, and the code checks none of them.
ImageAssumption is the order of memory: the APs' entry code below the I/O hole, this
below the kernel with its stacks, all of it within the first 4 MB.  FirstFreeAssumption is
what page_init's literal 700 needs: image and arrays end below it, no memory lies
outside the KernTables page tables behind KERNBASE, and from page 700 up there are
more low pages than mem_init takes page tables.  With NPT = 1024, KernTables = 64 and
31 pages of `envs` it is met by a machine with 4 to 256 MB as long as the kernel's image
is not larger than about 1.6 MB less a page for every 512 of memory (64 MB
need 32).  RegionAssumption: each array fits into the page table it is mapped by.
MmioAssumption: the MMIO region, whose end nobody checks, has a page for every CPU after
the three that check_page used.

LineAssumption of Readline: the longest line leaves a row of the screen free (1023
characters, 24 rows of 80).  With a longer one the line's beginning would scroll away
and erasing it would leave the cursor where it is.  GlyphAssumption: a character that is
displayed is none of the four that cga_putc treats apart.

### The invariants

*Pmap.*  `Good(m, out)` is the conjunction of RefCount, FreeListExact and
RolesDisjoint for a memory m from which the pages `out` have been taken.  The
theorems on pgdir_walk, page_remove and page_insert carry it through the functions:
a change of one word moves one element in or out of the set of pointers to a page,
and hence its cardinality by one.  PmapInv adds

* TypeInv: TypeOK, which already says that curenv and the environment being loaded
  or freed are live, and that at boot the free list is not empty, because env_create
  ignores the result of env_alloc;
* Tidy: an entry that is not present is zero, and only addresses below UTOP are
  mapped, or env_free's loop would miss pages;
* TlbCoherent, and ControlInv, which says what cr3 may be in each mode: without it
  nothing relates the TLB to the directory that a system call changes.  In kernel mode
  nothing is said of cached translations but that they need a loaded directory.

None of the parts is inductive alone: a wrong count frees a page that is still a
table, and a recycled table is misread by the next walk.  RefsFit says that no page
has RefMod pointers.  It is a hypothesis because the code does not check it: `pp_ref++`
wraps (kern/pmap.c:525), and in a machine that can have that many mappings of a page
RefCount fails.  SmallMachineFits shows that it holds where there are too few table
entries, as in the runs.  The refinement goes step by step: a system call is one
step of AddressSpaces, a step of env_free removes one page or none, everything the
TLB and the free list do is a stutter; Tidy and RolesDisjoint make the
refinement mapping's reading of the tables stable.

*Sched.*  SchedInv is TypeOK, Sane (the free list holds exactly the free slots, nobody
is dying, only curenv may be running and it is not free) and Settled (between traps,
curenv is running in user mode, or the monitor has been entered and nobody is
runnable).  Sane holds inside the kernel too, between the calls of one trap, and the
lemmas are about those.  HeldInv relates ids to creations: an id that was given out is
not above the one its slot has now, and no two creations have the same.  It is inductive
only while no generation wraps, which is GenerationsLeft; after 2^31 / 4096 creations
in one slot the code repeats ids (kern/env.c:243) and the two properties fail.  For a
bounded number of creations GenerationsSuffice gives the hypothesis.

*Ipc.*  IpcInv is SchedInv with the types of the message fields and NoLostWakeup, which
is then inductive: every step that makes an environment not runnable either is a stop
or sets `env_ipc_recving`.

*Upcall.*  StackInv is the geometry: each frame is a scratch word below the stack it
interrupted, or at the top of the exception stack, and contexts lie one below the
other.  FrameInv says what each word of each frame is, what _pgfault_upcall has
adjusted and stored at every one of its instructions.  FramesIntact alone says nothing
about where the next frame goes.  UpcallOrDestroy needs that user_mem_assert, which
checks only the words the kernel writes, together with the unmapped page between the
stacks accepts a frame exactly when all of it, and the scratch word above it, is on the
exception stack.

*Fork.*  The invariant is `ControlInv /\ (~stray => ForkInv)`.  ControlInv holds whatever
sys_page_alloc maps: who is whose child and how far fork's loop is (ChildInv), where
pgfault stands (FaultInv), that the exception stack comes before the upcall and both
before the first copy-on-write page (UpcallInv); FaultsHandled follows from it.  ForkInv
has ForkCopies and: that pages the loop has not reached are unmapped in the child
(EmptyInv); that what duppage read a few system calls ago is still good enough (DupInv),
since the entry may have changed from copy-on-write to writable under it, never to
shared and writable; that the frame pgfault copies to is mapped nowhere else (CopyInv) and
holds what the faulting environment should see (CopiedInv); and that a page that can be
written is mapped there only, but for duppage's two calls and PFTEMP (PrivateInv).

*Spinlock.*  Mutex alone is not inductive: an owner could find `locked` zero.
LockInv adds that `locked` is 1 while anybody owns the lock, and that `cpu` names
a CPU exactly between its Record and its Clear.  The second conjunct is what makes
holding() sound: a CPU can only see its own number there if it wrote it itself.

*Boot.*  BootInv says that boot_aps has at most one AP under way: the CPUs before `c`
are in their loop with CPU_STARTED set, those after it are off, and the one at `c`, if
it has left "halted", finds its own stack in mpentry_kstack (StartInv).  CPU_STARTED is
set by the AP itself and not by mp_init for another CPU (StatusInv with MpInv).
Therefore nobody else is between the two steps of mmio_map_region when a CPU takes
`base`, and all earlier windows are below it (WindowInv).  A table whose boot CPU comes
after NCPU others is included, although the code then writes past cpus[].  LapicInv says
that `lapic`, once it is set, and `base`, while a CPU has mapped it and not moved it yet,
are mapped to the local APIC; that boot_aps is reached only if mmio_map_region returns the
base; and that `lapic` is set exactly if mp_init found a table, which is when cpunum() may
be asked for.  The parts are proved together (BootInvariant): a window lasts because
`base` only grows, and `base` only grows because no CPU is between its two steps when
another takes it.

*BootMem.*  MemInv follows mem_init.  PhaseInv and AllocInv say what each statement
finds: which directory is in use, what boot_alloc has given away, and in which order.
TablesInv says which directory entries have a page table, and that all of these are below
4 MB.  The heart is ListInv: `Stock(list, r, n)` is a free list without a page in use or
a page twice, whose first r pages are below 4 MB, with three pages more and a page on both
sides of the I/O hole behind them.  `Reserve`, the number of page tables that mem_init
will still take, is the r that holds at each phase; it is established when
check_page_free_list(1) reorders the list, and a call of boot_map_region that takes k
tables finds r >= k.  MemoryReady alone is not inductive, as it says nothing before
kern_pgdir is in use; PteInv says what each of the first `region` calls has left in the
tables, BaseInv where mmio_map_region stands.  ReadyInv carries it through the
boot: after mem_init only lapic_init touches the memory, and `base` is at most `Taken`,
the number of CPUs that have had their window, behind check_page's three pages.

*TrapFrame.*  TrapInv says that between the entry into the kernel and trap() the
seventeen words on the stack hold the interrupted registers and the vector at the
offsets of struct Trapframe (IsFrame), that `env_tf` does before env_pop_tf, and that a
stub's arguments are in the registers the dispatcher reads (Passes).  The lemmas
compute the layouts: every entry point has pushed an error code or a 0, whichever the
CPU did not, and _alltraps and env_pop_tf go through the offsets in opposite order.

*Console.*  InOrder and ModifiersTrack are about what has been decoded; what still
waits in the keyboard controller must be related to what was meant as well.  DecodeInv
says that there is a sequence of values of `shift`, one between any two waiting bytes,
that begins with the present one, ends with the modifiers that are down now, and
along which kbd_proc_data makes of every byte what its key meant.  A key adds to its
end and kbd_intr takes from its beginning.

*Readline.*  EditInv adds to ScreenShowsLine that the line does not begin above
the window.  It is why erasing finds the character before the cursor: cga_putc ignores a
backspace at position 0.  It is kept when the screen scrolls because a line that may still
grow leaves a row free.

### Model-checked only

* The liveness properties LockHandedOn, BootFinishes and Preempted: the proof system does
  not do fairness.
* ArgvSplit, StringResults, Formatted, Encloses and UserMemExact: Monitor, Strings,
  Printfmt, Kdebug, UserMem and Library use RECURSIVE operators, which the proof system
  does not support, and what a recursive definition computes for every input needs an
  induction it cannot do.  For the same reason ScreenShowsTheLine is a theorem of EditSpec
  and not of Monitor's specification.
* The disagreements with a run, which are violations.

## Disagreements between the code and its comments

With a run that shows them:

* sched_preempt: kern/trap.c:267 says not to forget lapic_eoi().  It is called
  nowhere, so no second timer interrupt comes.
* ipc_utop: lib/ipc.c:27 has its test the wrong way round and passes UTOP when a
  page is wanted; kern/syscall.c:344 takes every address but 0 for a wish.
* startup_checks: kern/pmap.c:604 says that mmio_map_region returns the base of the
  region.  It returns the end, and check_page's assertion at line 1102 fails: the
  kernel as committed panics while it boots.

Seen while modelling, without a run:

* kern/syscall.c:150-152 says that sys_page_alloc allocates a page and
  clears it.  Lines 187-190 insert an uninitialised pointer.  (The call of page_alloc
  does not fit its prototype either: with -Werror, GNUmakefile:86, the file would be
  refused.)
* lib/fork.c:31-34 says to move the new page, with three system calls.
  pgfault makes two and leaves the page at PFTEMP too.
* kern/kdebug.c:203-205 announces the search for the line number and -1 when
  there is none.  There is no search, and the result is 0.
* kern/kdebug.c:29-30 says that the search finds the stab that contains the address.
  With a stab at the next address it finds that one (line 89).
* kern/sched.c:22 says that the environment that was running may be chosen again
  when no other is runnable.  The code does not look at it and enters the monitor
  for good (line 47), so that NoneRunnableLeft speaks of ENV_RUNNABLE only.
* kern/syscall.c:278 says that a send fails unless the target is blocked.  Line 323
  tests `env_ipc_recving`, which stays set when the parent makes the receiver
  runnable.
* lib/readline.c:22-26: a DEL at the start of a line is not below ' ' and is stored.
* kern/console.c:297: ctlmap has KEY_HOME at 0x97, the other maps at 0xC7.
* kern/pmap.c:525: `pp_ref++` is unchecked and wraps after 65536 mappings
  (inc/memlayout.h:182 calls it the count of pointers).
* kern/env.c:315: region_alloc ignores page_insert's result and loses the page,
  where line 296 says "Panic if any allocation attempt fails".
* kern/sched.c:33,37: the search wraps to envs + 1, and starts from the bottom
  when curenv is null, where lines 18-20 say "in circular fashion starting just
  after the env this CPU was last running".  RoundRobin states what does hold.
* kern/env.c:243: the generation wraps, and a slot then repeats old ids
  (inc/env.h:21).  StaleIdRefused holds as long as it does not.
* kern/syscall.c:347: `env_ipc_perm` is never cleared, against line 288.
* kern/mpconfig.c:185: `bootcpu` points past cpus[] if the boot CPU is listed after
  NCPU others.
* kern/trap.c:187-195: all CPUs load one global TSS, against line 164.
* kern/pmap.c:635: mmio_map_region does not check MMIOLIM, against lines 627-629.
* kern/pmap.c:347: page_init begins extended memory at page 700, whatever `up`, which
  it computes in line 337, says.  FirstFreeAssumption of BootMem is what this needs.
* kern/pmap.c:667: `va + len` may wrap in user_mem_check.
* kern/kdebug.c:41 says that left > right means no match.  When every stab of the
  type begins after the address, stab_binsearch leaves left where it was and
  debuginfo_eip takes the file's stab for the function.  Encloses speaks of addresses
  behind the beginning of some function.
* kern/kdebug.c:155 passes numbers of stabs where user_mem_check takes bytes, and line
  231 stops before the last stab of the function, which may be a parameter.
* lib/printfmt.c:12 says that width and padding are for numbers only; %s has them.
  '-' on a number pads with '-' on the left, zeros come between the sign and the
  digits and blanks too ("-   5"), and %o prints XXX.
* lib/printfmt.c:183: %.*s reads the character after the last one it prints.
* kern/printf.c:13: `*cnt++` counts nothing; the kernel's cprintf returns 0.
* kern/trap.c:121: a line that begins with # and is no directive does not compile.

As committed the kernel does not get this far by itself: kern/syscall.c does not
compile (lines 247, 333), its dispatcher routes only four of the calls, lib/fork.c
uses names that no longer exist, and mem_init's own check fails on the result of
mmio_map_region (run startup_checks).  The models take each function as it is written and assume
that it is built and called, as the comments and the user programs intend.

## Not modelled

* mon_backtrace's walk along the frame pointers, print_trapframe and the texts that
  the monitor's commands print.
* console output to the serial and parallel ports, and the initialisation of the
  devices: register writes.
* boot.S and bootmain, pic_init, the CMOS clock, what lapic_init writes to the
  registers (that it reaches them is modelled): hardware programming on one CPU with nothing else running.
* the bytes of the firmware's tables and their checksums: Boot takes every outcome of
  the tests.
* the segment descriptors: NewTf has the selectors, their contents never change.
* a second CPU running environments: mp_main stops before the scheduler.

## Plan

Done, in this order: Pmap with AddressSpaces, Sched, Ipc, Spinlock, Boot, Upcall,
Fork, Console, Readline and the first theorems; then BootMem, TrapFrame, Startup,
Strings, Printfmt, Kdebug, UserMem, Monitor and Library; then the theorems on the
safety invariants of Pmap, Sched, Ipc, Upcall, Fork, Boot and Console and the
refinement of AddressSpaces; then those on BootMem, TrapFrame and Readline.

Of the code, the boot loader's readseg, which writes whole sectors over the end of the
segment before, is the last algorithm without a model.
