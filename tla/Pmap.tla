-------------------------------- MODULE Pmap --------------------------------
(***************************************************************************)
(* Physical pages and page tables: kern/pmap.c with its callers in         *)
(* kern/env.c and kern/syscall.c, on the one CPU that runs environments.   *)
(*                                                                         *)
(* All of it runs with interrupts off and the big kernel lock held, so a   *)
(* system call is one step.  The exception is env_free, whose loop is      *)
(* followed one page at a time in the code's order: its intermediate       *)
(* states must be consistent too.                                          *)
(***************************************************************************)
EXTENDS Integers, Sequences, FiniteSets

CONSTANTS
  NPages,     \* pages that page_init put on the free list, numbered from 1
  NIdx,       \* entries of a page table (and of the user half of a directory)
  RefMod,     \* pp_ref is a uint16_t: arithmetic on it is modulo RefMod
  Env,        \* the slots of envs[]
  NoEnv,      \* a null struct Env pointer
  VA,         \* the user virtual pages in use, as pairs <<PDX, PTX>>
  StoreWord   \* the words that user code writes into its pages

Page == 1 .. NPages
Idx == 0 .. NIdx - 1

\* A page-table word: the page it points at and PTE_W; PTE_P is clear iff pp = 0.
\* (Page 0 is never allocated.)  User data are words too: a page that is reused
\* as a page table without being cleared is read as page-table entries.
Word == [pp : 0 .. NPages, w : BOOLEAN]
NotPresent == [pp |-> 0, w |-> FALSE]
Present(word) == word.pp # 0
ZeroPage == [i \in Idx |-> NotPresent]

ASSUME PagesAssumption == NPages \in Nat \ {0} /\ NIdx \in Nat \ {0}
ASSUME RefAssumption == RefMod \in Nat /\ RefMod > 1
ASSUME EnvAssumption == IsFiniteSet(Env) /\ NoEnv \notin Env
ASSUME StoreAssumption == VA \subseteq Idx \X Idx /\ StoreWord \subseteq Word

VARIABLES
  k,        \* the kernel's memory: page_free_list, pp_ref, mem, env_pgdir
  curenv,   \* the current environment, or NoEnv
  cr3,      \* the loaded page directory; 0 is kern_pgdir
  tlb,      \* the translations this CPU has cached
  mode,     \* what the kernel is doing
  target,   \* the environment being loaded or freed, or NoEnv
  lost      \* pages that region_alloc took and then could not insert

vars == <<k, curenv, cr3, tlb, mode, target, lost>>

KMem == [page_free_list : Seq(Page),
         pp_ref : [Page -> 0 .. RefMod - 1],
         mem : [Page -> [Idx -> Word]],
         env_pgdir : [Env -> 0 .. NPages]]

EmptyTlb == [va \in VA |-> NotPresent]

-----------------------------------------------------------------------------
(* The page allocator.  Every caller in the tree passes ALLOC_ZERO (or 1).   *)

page_alloc_NoZero(m) == [m EXCEPT !.page_free_list = Tail(@)]
page_alloc(m) ==
  [m EXCEPT !.page_free_list = Tail(@),
            !.mem[Head(m.page_free_list)] = ZeroPage]

page_free(m, p) ==
  IF m.pp_ref[p] = 0 THEN [m EXCEPT !.page_free_list = <<p>> \o @] ELSE m

\* The two updates of a PageInfo's counter and of a word that the functions share.
Increment(m, p) == [m EXCEPT !.pp_ref[p] = (@ + 1) % RefMod]
Decrement(m, p) == [m EXCEPT !.pp_ref[p] = (@ + RefMod - 1) % RefMod]
PutEntry(m, q, i, word) == [m EXCEPT !.mem[q][i] = word]

page_decref_NoFree(m, p) == Decrement(m, p)
page_decref(m, p) ==
  LET n == Decrement(m, p) IN IF n.pp_ref[p] = 0 THEN page_free(n, p) ELSE n

-----------------------------------------------------------------------------
(* Page tables.  A directory is named by its page; va is <<PDX, PTX>>.       *)

\* pgdir_walk with create = 1: the table exists afterwards unless memory ran out.
pgdir_walk(m, d, x) ==
  IF Present(m.mem[d][x]) \/ m.page_free_list = <<>> THEN m
  ELSE LET t == Head(m.page_free_list)
       IN  PutEntry([page_alloc(m) EXCEPT !.pp_ref[t] = 1], d, x, [pp |-> t, w |-> TRUE])

\* The word pgdir_walk (create = 0) leads to; NotPresent when there is no table.
page_lookup(m, d, va) ==
  IF Present(m.mem[d][va[1]]) THEN m.mem[m.mem[d][va[1]].pp][va[2]] ELSE NotPresent

page_remove(m, d, va) ==
  LET old == page_lookup(m, d, va)
  IN  IF Present(old)
      THEN PutEntry(page_decref(m, old.pp), m.mem[d][va[1]].pp, va[2], NotPresent)
      ELSE m

page_insert_NoRemove(m, p, d, va, w) ==
  LET n == pgdir_walk(m, d, va[1])
  IN  IF Present(n.mem[d][va[1]])
      THEN PutEntry(Increment(n, p), n.mem[d][va[1]].pp, va[2], [pp |-> p, w |-> w])
      ELSE n

\* Returns m itself when the walk fails (-E_NO_MEM).
page_insert(m, p, d, va, w) ==
  LET n == pgdir_walk(m, d, va[1])
      old == page_lookup(n, d, va)
      cleared == IF old.pp = p THEN Decrement(n, p) ELSE page_remove(n, d, va)
  IN  IF Present(n.mem[d][va[1]])
      THEN PutEntry(Increment(cleared, p), n.mem[d][va[1]].pp, va[2], [pp |-> p, w |-> w])
      ELSE n

tlb_invalidate(d, va) ==
  IF \/ curenv = NoEnv
     \/ k.env_pgdir[curenv] = d
  THEN [tlb EXCEPT ![va] = NotPresent]
  ELSE tlb

\* What the TLB may hold after page_insert or page_remove on va of directory d.  Both
\* flush va first and rewrite the entry afterwards, so the processor may load the old
\* entry of the directory in cr3 once more in between.
TlbAfter(d, va) ==
  LET old == page_lookup(k, d, va)
      flushed == tlb_invalidate(d, va)
  IN  IF ~Present(old) THEN {tlb}
      ELSE IF cr3 = d THEN {flushed, [flushed EXCEPT ![va] = old]}
      ELSE {flushed}

-----------------------------------------------------------------------------
(* kern/env.c on top of it.                                                  *)

env_setup_vm(m, e) ==
  LET p == Head(m.page_free_list)
  IN  [Increment(page_alloc(m), p) EXCEPT !.env_pgdir[e] = p]

\* One page of region_alloc; the result of page_insert is ignored by the code.
region_alloc(m, d, va) ==
  page_insert(page_alloc(m), Head(m.page_free_list), d, va, TRUE)

Live(e) == k.env_pgdir[e] # 0

Init ==
  /\ k = [page_free_list |-> [i \in Page |-> NPages + 1 - i],
          pp_ref |-> [p \in Page |-> 0],
          mem |-> [p \in Page |-> ZeroPage],
          env_pgdir |-> [e \in Env |-> 0]]
  /\ curenv = NoEnv /\ cr3 = 0 /\ tlb = EmptyTlb
  /\ mode = "boot" /\ target = NoEnv /\ lost = {}

\* env_create, up to load_icode's lcr3(PADDR(e->env_pgdir)).
EnvCreate(e) ==
  /\ mode = "boot"
  /\ k' = env_setup_vm(k, e)
  /\ cr3' = k'.env_pgdir[e] /\ tlb' = EmptyTlb
  /\ mode' = "load" /\ target' = e
  /\ UNCHANGED <<curenv, lost>>

\* A one-page ELF segment: region_alloc, then memset and memmove through the new
\* mapping.  Out of memory is a panic; so is the kernel-mode fault of the memset
\* when page_insert failed.  The images that are loaded have their segments on
\* different pages (user/user.ld), so nothing is mapped at va yet.
LoadSegment(va) ==
  /\ mode = "load"
  /\ ~Present(page_lookup(k, k.env_pgdir[target], va))
  /\ LET d == k.env_pgdir[target]
         n == region_alloc(k, d, va)
         mapped == Present(page_lookup(n, d, va))
     IN  IF k.page_free_list = <<>>
         THEN mode' = "halt" /\ UNCHANGED <<k, lost>>
         ELSE /\ k' = n
              /\ mode' = IF mapped THEN "load" ELSE "halt"
              /\ lost' = IF mapped THEN lost ELSE lost \cup {Head(k.page_free_list)}
  /\ UNCHANGED <<curenv, cr3, tlb, target>>

\* The end of load_icode: back to kern_pgdir, then the initial stack page.
LoadStack(va) ==
  /\ mode = "load"
  /\ LET d == k.env_pgdir[target]
         n == region_alloc(k, d, va)
     IN  IF k.page_free_list = <<>>
         THEN mode' = "halt" /\ UNCHANGED <<k, lost>>
         ELSE /\ k' = n
              /\ mode' = "ready"
              /\ lost' = IF Present(page_lookup(n, d, va)) THEN lost
                         ELSE lost \cup {Head(k.page_free_list)}
  /\ cr3' = 0 /\ tlb' = EmptyTlb
  /\ target' = NoEnv /\ UNCHANGED curenv

\* A trap that leaves memory alone: the timer, sys_yield, a system call that fails.
Trap ==
  /\ mode = "run"
  /\ mode' = "kernel"
  /\ UNCHANGED <<k, curenv, cr3, tlb, target, lost>>

\* env_run: the first one, from boot_aps, and the end of every trap, for the
\* environment that trapped or for another that the scheduler chose.  lcr3 flushes
\* the TLB, also when the directory is the one already loaded.
env_run_SameSpace(e) ==
  /\ mode \in {"ready", "kernel"} /\ Live(e)
  /\ mode' = "run"
  /\ curenv' = e /\ cr3' = k.env_pgdir[e]
  /\ tlb' = IF cr3 = k.env_pgdir[e] THEN tlb ELSE EmptyTlb
  /\ UNCHANGED <<k, target, lost>>
env_run(e) ==
  /\ mode \in {"ready", "kernel"} /\ Live(e)
  /\ mode' = "run"
  /\ curenv' = e /\ cr3' = k.env_pgdir[e] /\ tlb' = EmptyTlb
  /\ UNCHANGED <<k, target, lost>>

\* sched_yield finds nothing to run and enters the monitor for good.
Monitor ==
  /\ mode = "kernel"
  /\ mode' = "halt"
  /\ UNCHANGED <<k, curenv, cr3, tlb, target, lost>>

Halted == mode = "halt" /\ UNCHANGED vars

-----------------------------------------------------------------------------
(* System calls of the current environment.  Each leaves the kernel in mode  *)
(* "kernel", from where trap() goes on to env_run or to the monitor.         *)

Syscalls == mode = "run" /\ mode' = "kernel"

sys_exofork(e) ==
  /\ Syscalls /\ ~Live(e) /\ k.page_free_list # <<>>
  /\ k' = env_setup_vm(k, e)
  /\ UNCHANGED <<curenv, cr3, tlb, target, lost>>

\* From environment s at va sv to environment e at va dv.
sys_page_map_NoCheck(s, sv, e, dv, w) ==
  /\ Syscalls /\ Live(s) /\ Live(e)
  /\ LET src == page_lookup(k, k.env_pgdir[s], sv)
         d == k.env_pgdir[e]
     IN  /\ Present(src)
         /\ k' = page_insert(k, src.pp, d, dv, w)
         /\ tlb' \in TlbAfter(d, dv)
  /\ UNCHANGED <<curenv, cr3, target, lost>>
sys_page_map(s, sv, e, dv, w) ==
  /\ Syscalls /\ Live(s) /\ Live(e)
  /\ LET src == page_lookup(k, k.env_pgdir[s], sv)
         d == k.env_pgdir[e]
     IN  /\ Present(src)
         /\ w => src.w
         /\ k' = page_insert(k, src.pp, d, dv, w)
         /\ tlb' \in TlbAfter(d, dv)
  /\ UNCHANGED <<curenv, cr3, target, lost>>

sys_page_unmap(e, va) ==
  /\ Syscalls /\ Live(e)
  /\ LET d == k.env_pgdir[e]
     IN  /\ k' = page_remove(k, d, va)
         /\ tlb' \in TlbAfter(d, va)
  /\ UNCHANGED <<curenv, cr3, target, lost>>

-----------------------------------------------------------------------------
(* env_destroy and env_free, one page at a time.                             *)

env_destroy(e) ==
  /\ mode = "run" /\ Live(e)
  /\ mode' = "free" /\ target' = e
  /\ IF e = curenv THEN cr3' = 0 /\ tlb' = EmptyTlb ELSE UNCHANGED <<cr3, tlb>>
  /\ UNCHANGED <<k, curenv, lost>>

FreeDir == k.env_pgdir[target]

\* x is the directory entry the loop over pdeno stands at.
AtPde(x) == /\ Present(k.mem[FreeDir][x])
            /\ \A j \in Idx : j < x => ~Present(k.mem[FreeDir][j])

EnvFreePte(x, y) ==
  /\ mode = "free" /\ AtPde(x)
  /\ LET pt == k.mem[k.mem[FreeDir][x].pp]
     IN  Present(pt[y]) /\ \A j \in Idx : j < y => ~Present(pt[j])
  /\ k' = page_remove(k, FreeDir, <<x, y>>)
  /\ tlb' \in TlbAfter(FreeDir, <<x, y>>)
  /\ UNCHANGED <<curenv, cr3, mode, target, lost>>

EnvFreeTable(x) ==
  /\ mode = "free" /\ AtPde(x)
  /\ LET t == k.mem[FreeDir][x].pp
     IN  /\ \A y \in Idx : ~Present(k.mem[t][y])
         /\ k' = page_decref(PutEntry(k, FreeDir, x, NotPresent), t)
  /\ UNCHANGED <<curenv, cr3, tlb, mode, target, lost>>

EnvFreeDir_KeepCurenv ==
  /\ mode = "free"
  /\ \A x \in Idx : ~Present(k.mem[FreeDir][x])
  /\ k' = page_decref([k EXCEPT !.env_pgdir[target] = 0], FreeDir)
  /\ mode' = "kernel" /\ target' = NoEnv
  /\ UNCHANGED <<curenv, cr3, tlb, lost>>
EnvFreeDir ==
  /\ mode = "free"
  /\ \A x \in Idx : ~Present(k.mem[FreeDir][x])
  /\ k' = page_decref([k EXCEPT !.env_pgdir[target] = 0], FreeDir)
  /\ curenv' = IF curenv = target THEN NoEnv ELSE curenv
  /\ mode' = "kernel" /\ target' = NoEnv
  /\ UNCHANGED <<cr3, tlb, lost>>

-----------------------------------------------------------------------------
(* The processor: it may cache any translation the loaded directory gives,   *)
(* and stores (of user code, or of load_icode's memset) go through the cache.*)

TlbFill(va) ==
  /\ cr3 # 0 /\ mode # "halt"
  /\ Present(page_lookup(k, cr3, va))
  /\ tlb' = [tlb EXCEPT ![va] = page_lookup(k, cr3, va)]
  /\ UNCHANGED <<k, curenv, cr3, mode, target, lost>>

Store(va, i, word) ==
  /\ mode \in {"load", "run"}
  /\ Present(tlb[va]) /\ tlb[va].w
  /\ k' = PutEntry(k, tlb[va].pp, i, word)
  /\ UNCHANGED <<curenv, cr3, tlb, mode, target, lost>>

-----------------------------------------------------------------------------
Boot == \/ \E e \in Env : EnvCreate(e)
        \/ \E va \in VA : LoadSegment(va) \/ LoadStack(va)

Syscall ==
  \/ \E e \in Env : sys_exofork(e) \/ env_destroy(e)
  \/ \E s \in Env, sv \in VA, e \in Env, dv \in VA, w \in BOOLEAN : sys_page_map(s, sv, e, dv, w)
  \/ \E e \in Env, va \in VA : sys_page_unmap(e, va)

Free == \/ \E x \in Idx, y \in Idx : EnvFreePte(x, y)
        \/ \E x \in Idx : EnvFreeTable(x)
        \/ EnvFreeDir

Cpu == \/ \E va \in VA : TlbFill(va)
       \/ \E va \in VA, i \in Idx, word \in StoreWord : Store(va, i, word)

Next == Boot \/ (\E e \in Env : env_run(e)) \/ Trap \/ Monitor \/ Halted \/ Syscall \/ Free \/ Cpu

Spec == Init /\ [][Next]_vars

-----------------------------------------------------------------------------
(* Properties.                                                               *)

\* The roles that pages play in the memory m.
Dirs(m) == {m.env_pgdir[e] : e \in Env} \ {0}
Tables(m) == {m.mem[d][x].pp : d \in Dirs(m), x \in Idx} \ {0}
Frames(m) == {m.mem[t][y].pp : t \in Tables(m), y \in Idx} \ {0}

\* Types, and the pointers that must not dangle: curenv (kern/env.c) is null or a
\* live environment, and so is the environment load_icode or env_free works on.
TypeOK ==
  /\ k \in KMem
  /\ curenv \in Env \cup {NoEnv}
  /\ cr3 \in 0 .. NPages
  /\ tlb \in [VA -> Word]
  /\ mode \in {"boot", "load", "ready", "run", "kernel", "free", "halt"}
  /\ target \in Env \cup {NoEnv}
  /\ lost \subseteq Page
  /\ curenv # NoEnv => Live(curenv)
  /\ mode \in {"run", "free"} => curenv # NoEnv
  /\ mode \in {"load", "free"} => target # NoEnv
  /\ target # NoEnv => Live(target)

\* The pointers to page p: from struct Envs, and from words of page tables.
DirRefs(m, p) == {e \in Env : m.env_pgdir[e] = p}
EntryRefs(m, p) ==
  {s \in (Dirs(m) \cup Tables(m)) \X Idx : m.mem[s[1]][s[2]].pp = p}

RefCountOf(m) == \A p \in Page :
  m.pp_ref[p] = Cardinality(DirRefs(m, p)) + Cardinality(EntryRefs(m, p))

\* pp_ref is what inc/memlayout.h says it is: the number of pointers to the page,
\* from env_pgdir, from directory entries and from page-table entries together.
RefCount == RefCountOf(k)

OnList(m) == {m.page_free_list[i] : i \in DOMAIN m.page_free_list}

FreeListOf(m, out) ==
  /\ \A i, j \in DOMAIN m.page_free_list :
       m.page_free_list[i] = m.page_free_list[j] => i = j
  /\ OnList(m) \cap out = {}
  /\ \A p \in Page : m.pp_ref[p] = 0 <=> p \in OnList(m) \cup out

\* The free list holds every unreferenced page exactly once, but for the pages
\* region_alloc lost: nothing leaks, nothing is freed twice or while in use.
FreeListExact == FreeListOf(k, lost)

RolesOf(m) ==
  /\ \A e, f \in Env : m.env_pgdir[e] # 0 /\ m.env_pgdir[e] = m.env_pgdir[f] => e = f
  /\ \A c, d \in Dirs(m), x, y \in Idx :
       Present(m.mem[c][x]) /\ m.mem[c][x].pp = m.mem[d][y].pp => c = d /\ x = y
  /\ Dirs(m) \cap Tables(m) = {}
  /\ Frames(m) \cap (Dirs(m) \cup Tables(m)) = {}

\* A directory belongs to one environment and a page table to one directory entry,
\* and neither is ever a page that user code can reach: page_alloc, page_insert and
\* env_free never let one page play two roles.
RolesDisjoint == RolesOf(k)

\* The directory in cr3 is live, and whenever memory is reached through user addresses
\* (user code runs, or load_icode fills a segment) every cached translation is the one
\* the loaded page tables give.  page_remove and page_insert flush before they rewrite
\* the entry, so inside a system call an old entry may come back into the TLB; what
\* keeps user code from it is that env_run loads cr3 on every way out of the kernel.
TlbCoherent ==
  /\ cr3 # 0 => cr3 \in Dirs(k)
  /\ \A va \in VA : Present(tlb[va]) =>
       /\ cr3 # 0
       /\ mode \in {"load", "run"} => tlb[va] = page_lookup(k, cr3, va)

Writable(p) == \E t \in Tables(k), y \in Idx : k.mem[t][y] = [pp |-> p, w |-> TRUE]

\* No step makes a mapped page writable that nobody could write: sys_page_map may
\* not grant write access to a read-only page, not even by way of another mapping.
ReadOnlyStays == [][\A p \in Frames(k) \cap Frames(k)' : ~Writable(p) => ~Writable(p)']_vars

\* What user code can see of the memory: the abstract state.
space == [e \in Env |-> [va \in VA |->
            IF Live(e) THEN page_lookup(k, k.env_pgdir[e], va) ELSE NotPresent]]
data == LET frames == Frames(k)
        IN  [p \in Page |-> IF p \in frames THEN k.mem[p] ELSE ZeroPage]

Spaces == INSTANCE AddressSpaces WITH Frame <- Page, Zero <- NotPresent

\* Page tables, reference counts, reuse of freed pages and the TLB are invisible:
\* pmap.c implements the address spaces of AddressSpaces.
ImplementsSpaces == Spaces!SpaceSpec
=============================================================================
