------------------------------ MODULE BootMem ------------------------------
(***************************************************************************)
(* Boot-time memory: entry_pgdir (kern/entrypgdir.c), and mem_init with    *)
(* boot_alloc, page_init, boot_map_region, mem_init_mp, mmio_map_region    *)
(* and its checks (kern/pmap.c), from the entry code's 4 MB of mapped      *)
(* memory to the kernel's own page directory.                              *)
(*                                                                         *)
(* Memory is counted in pages.  Virtual pages are numbered from UTOP up,   *)
(* NPT to a page table; a page table's contents are kept in pte, under the *)
(* virtual page they translate.  A kernel page fault before any handler is *)
(* there ends the boot: phase "fault"; a failed assertion: "panic".        *)
(***************************************************************************)
EXTENDS Integers, Sequences, FiniteSets, SequencesExt

CONSTANTS
  NPT,          \* NPTENTRIES: what entry_pgdir maps, and what one page table maps
  KernTables,   \* page tables between KERNBASE and 4 GB
  IOHole, Ext,  \* the pages of IOPHYSMEM and EXTPHYSMEM
  MPEntry,      \* the page of MPENTRY_PADDR
  FirstFree,    \* 700: where page_init takes extended memory to be free
  NCPU, KSTKSIZE, KSTKGAP,
  PerPage,      \* struct PageInfo's in a page
  EnvPages,     \* pages of the envs array
  Ends,         \* possible ends of the kernel image
  ExtMem,       \* possible amounts of extended memory
  Bootstack, Kstacks,  \* bootstack and percpu_kstacks, pages of the image
  MmioReturns   \* what mmio_map_region returns, see Returned: "end" is the code as it stands

Up(n, d) == (n + d - 1) \div d

PDX(v) == v \div NPT
UENVS == 0
UPAGES == NPT
UVPT == 2 * NPT
MMIOBASE == 3 * NPT
MMIOLIM == 4 * NPT
KSTACKTOP == 5 * NPT
KERNBASE == KSTACKTOP
Dir == 0 .. 4 + KernTables
VPage == 0 .. (5 + KernTables) * NPT - 1

ASSUME SizeAssumption ==
  /\ {NPT, PerPage, EnvPages, NCPU, KSTKSIZE} \subseteq Nat \ {0}
  /\ {KernTables, IOHole, Ext, MPEntry, FirstFree, KSTKGAP, Bootstack, Kstacks} \subseteq Nat
  /\ Ends \subseteq Nat /\ ExtMem \subseteq Nat
ASSUME MmioReturnsAssumption == MmioReturns \in {"base", "end"}
ASSUME ImageAssumption ==
  /\ 0 < MPEntry /\ MPEntry < IOHole /\ 2 < IOHole /\ IOHole < Ext
  /\ {Bootstack} \cup (Kstacks .. Kstacks + NCPU * KSTKSIZE - 1) \subseteq Ext .. NPT - 1
  /\ \A e \in Ends : Kstacks + NCPU * KSTKSIZE <= e /\ Bootstack + KSTKSIZE <= e
\* The literal 700 of page_init is right only while the kernel and what boot_alloc
\* gave away end before it, and there is memory between it and 4 MB for the page tables
\* of mem_init, and some more behind them; the checks borrow three pages at the end.
ASSUME FirstFreeAssumption ==
  \A e \in Ends, x \in ExtMem :
    /\ e + 1 + Up(Ext + x, PerPage) + EnvPages <= FirstFree
    /\ Ext + x <= KernTables * NPT
    /\ KernTables + 4 <= NPT - FirstFree /\ KernTables + 4 < (Ext + x) - FirstFree
    /\ KernTables + 4 + 3 <= ((Ext + x) - FirstFree) + (IOHole - 2)
\* The arrays fit into the page table each has, the stacks into theirs.
ASSUME RegionAssumption ==
  /\ \A x \in ExtMem : Up(Ext + x, PerPage) <= NPT
  /\ EnvPages <= NPT /\ NCPU * (KSTKSIZE + KSTKGAP) <= NPT

VARIABLES
  m,      \* the kernel's memory: see NoMem
  phase,  \* the next statement of mem_init
  cr3,    \* "entry" or "kern": the directory in use
  region  \* how many of mem_init's boot_map_region calls are done

memVars == <<m, phase, cr3, region>>

NoPte == [pp |-> -1, u |-> FALSE, w |-> FALSE]
NoTable == -1

MemInit ==
  /\ \E e \in Ends :
       m = [npages |-> 0, nextfree |-> e, kern_pgdir |-> 0, pages |-> 0, envs |-> 0,
            page_free_list |-> <<>>, tables |-> [d \in Dir |-> NoTable],
            pte |-> [v \in VPage |-> NoPte], base |-> MMIOBASE]
  /\ phase = "i386_detect_memory" /\ cr3 = "entry" /\ region = 0

-----------------------------------------------------------------------------
(* What the kernel can reach through KERNBASE.                               *)

\* entry_pgtable: entry p maps page p, writable, for every one of its entries.
entry_pgtable == [p \in 0 .. NPT - 1 |-> [pp |-> p, u |-> FALSE, w |-> TRUE]]

\* entry_pgdir maps that table at KERNBASE (and at 0, for the jump in entry.S).
Translate(p) ==
  IF cr3 = "kern" THEN m.pte[KERNBASE + p]
  ELSE IF p \in DOMAIN entry_pgtable THEN entry_pgtable[p] ELSE NoPte

Reach(pages) == \A p \in pages : Translate(p).pp = p /\ Translate(p).w

\* A statement that writes to pages and takes mem_init on to its next statement.
Do(here, pages, new, next) ==
  /\ phase = here
  /\ IF Reach(pages) THEN m' = new /\ phase' = next ELSE phase' = "fault" /\ m' = m
  /\ UNCHANGED <<cr3, region>>

-----------------------------------------------------------------------------
(* mem_init, up to the free list.                                            *)

\* Without extended memory there is only the base memory below the I/O hole.
i386_detect_memory ==
  \E x \in ExtMem :
    Do("i386_detect_memory", {}, [m EXCEPT !.npages = IF x # 0 THEN Ext + x ELSE IOHole], "kern_pgdir")

\* boot_alloc(n), for n pages: the new nextfree.
boot_alloc(n) == m.nextfree + n

\* The directory, cleared, with itself as the table of UVPT.
KernPgdir ==
  Do("kern_pgdir", {m.nextfree},
     [m EXCEPT !.kern_pgdir = m.nextfree, !.nextfree = boot_alloc(1),
               !.tables[PDX(UVPT)] = m.nextfree], "pages")

Pages ==
  Do("pages", {},
     [m EXCEPT !.pages = m.nextfree, !.nextfree = boot_alloc(Up(m.npages, PerPage))], "envs")

Envs ==
  Do("envs", {}, [m EXCEPT !.envs = m.nextfree, !.nextfree = boot_alloc(EnvPages)], "page_init")

\* The numbers from b down to a.
Down(a, b) == [i \in 1 .. b - a + 1 |-> b - i + 1]

\* Pages are pushed in increasing order, so the list comes out decreasing.
PageInitList_KeepsMPEntry(npages) == Down(FirstFree, npages - 1) \o Down(1, IOHole - 1)
PageInitList(npages) ==
  Down(FirstFree, npages - 1) \o Down(MPEntry + 1, IOHole - 1) \o Down(1, MPEntry - 1)

page_init ==
  Do("page_init", m.pages .. m.envs - 1,
     [m EXCEPT !.page_free_list = PageInitList(m.npages)], "check_page_free_list(1)")

-----------------------------------------------------------------------------
(* The checks that change the free list.                                     *)

Low(p) == p < NPT

\* The elements of list whose positions are in I, in their order.
Select(list, I) ==
  [k \in 1 .. Cardinality(I) |-> list[CHOOSE i \in I : Cardinality({j \in I : j <= i}) = k]]

\* check_page_free_list(1): the pages that entry_pgdir maps first.
LowFirst_Not(list) == list
LowFirst(list) ==
  LET low == {i \in DOMAIN list : Low(list[i])}
  IN  Select(list, low) \o Select(list, DOMAIN list \ low)

\* The assertions of check_page_free_list.
ListOk(list) ==
  /\ \A i \in DOMAIN list :
       /\ list[i] \in 1 .. m.npages - 1
       /\ list[i] \notin {IOHole, Ext - 1, Ext, MPEntry}
       /\ list[i] >= Ext => list[i] >= m.nextfree
  /\ \E i \in DOMAIN list : list[i] < Ext
  /\ \E i \in DOMAIN list : list[i] >= Ext

check_page_free_list(only_low_memory, here, next) ==
  LET list == IF only_low_memory THEN LowFirst(m.page_free_list) ELSE m.page_free_list
      poisoned == {p \in ToSet(list) : only_low_memory => Low(p)}
  IN  Do(here, poisoned \cup (m.pages .. m.envs - 1), [m EXCEPT !.page_free_list = list],
         IF ListOk(list) THEN next ELSE "panic")

\* The first three pages of the free list, which the tests take, use and give back in
\* the order given.
Borrow(list, order) ==
  [i \in DOMAIN list |-> IF i <= 3 THEN list[order[i]] ELSE list[i]]

Borrowed == {m.page_free_list[i] : i \in 1 .. 3}

check_page_alloc ==
  Do("check_page_alloc", Borrowed,
     [m EXCEPT !.page_free_list = Borrow(@, <<1, 2, 3>>)], "check_page")

-----------------------------------------------------------------------------
(* Mappings.                                                                 *)

\* The directory entries of [va, va + n) that have no page table yet; pgdir_walk takes
\* pages for them in their order.
Missing(s, va, n) == {d \in PDX(va) .. PDX(va + n - 1) : s.tables[d] = NoTable}
Walked(s, va, n) ==
  LET need == Missing(s, va, n)
  IN  [d \in Dir |-> IF d \in need THEN s.page_free_list[Cardinality({e \in need : e <= d})]
                     ELSE s.tables[d]]

\* boot_map_region: pgdir_walk, and an entry, for every page.
boot_map_region(s, va, n, pa, u, w) ==
  [s EXCEPT
    !.page_free_list = SubSeq(@, Cardinality(Missing(s, va, n)) + 1, Len(@)),
    !.tables = Walked(s, va, n),
    !.pte = [v \in DOMAIN @ \cup (va .. va + n - 1) |->
               IF v \in va .. va + n - 1 THEN [pp |-> pa + v - va, u |-> u, w |-> w] ELSE @[v]]]

\* The page tables a call writes to; without memory for one, pgdir_walk returns NULL
\* and the call writes through it.
Written(s, va, n) ==
  IF Cardinality(Missing(s, va, n)) > Len(s.page_free_list) THEN {-1}
  ELSE {Walked(s, va, n)[d] : d \in PDX(va) .. PDX(va + n - 1)}

\* mmio_map_region, for a region of n pages.
mmio_map_region(s, pa, n) ==
  [boot_map_region(s, s.base, n, pa, FALSE, TRUE) EXCEPT !.base = s.base + n]

\* What it returns for a region of n pages at base: as the code stands, base after it was
\* moved, the end of the region; "base" is what its comment and check_page ask for.
Returned(base, n) == IF MmioReturns = "end" THEN base + n ELSE base

\* check_va2pa(v), -1 for an address that is not mapped.
check_va2pa(v) == IF m.tables[PDX(v)] = NoTable THEN -1 ELSE m.pte[v].pp

\* check_page takes three pages too; then it reserves two regions, of 4097 and 4096
\* bytes, ...
check_page ==
  Do("check_page", Borrowed, [m EXCEPT !.page_free_list = Borrow(@, <<3, 2, 1>>)], "mm1")
CheckMm1 == Do("mm1", Written(m, m.base, 2), mmio_map_region(m, 0, 2), "mm2")
CheckMm2 == Do("mm2", Written(m, m.base, 1), mmio_map_region(m, 0, 1), "unmap")

\* ... makes its assertions about the addresses it was given (that 8096 bytes from them on
\* are below MMIOLIM is that two pages are), ...
mm1 == Returned(MMIOBASE, 2)
mm2 == Returned(MMIOBASE + 2, 1)
MmioOk ==
  /\ {mm1, mm2} \subseteq MMIOBASE .. MMIOLIM - 2
  /\ check_va2pa(mm1) = 0 /\ check_va2pa(mm1 + 1) = 1
  /\ check_va2pa(mm2) = 0 /\ check_va2pa(mm2 + 1) = -1
  /\ m.pte[mm1].w /\ ~m.pte[mm1].u

\* ... and clears the entries of the regions.
CheckUnmap ==
  Do("unmap", {m.tables[PDX(MMIOBASE)]},
     IF MmioOk THEN [m EXCEPT !.pte = [v \in DOMAIN @ |-> IF v \in {mm1, mm1 + 1, mm2} THEN NoPte ELSE @[v]]]
     ELSE m,
     IF MmioOk THEN "boot_map_region" ELSE "panic")

\* The calls of boot_map_region in mem_init, and then in mem_init_mp.  The last size in
\* mem_init, 0xfffffff, is a byte short of 256 MB and still reaches its last page.
Call(va, n, pa, u, w) == [va |-> va, n |-> n, pa |-> pa, u |-> u, w |-> w]
MpCall(i) ==
  Call(KSTACKTOP - i * (KSTKSIZE + KSTKGAP) - KSTKSIZE, KSTKSIZE, Kstacks + i * KSTKSIZE, FALSE, TRUE)
Calls ==
  << Call(UPAGES, Up(m.npages, PerPage), m.pages, TRUE, FALSE),
     Call(UENVS, EnvPages, m.envs, TRUE, FALSE),
     Call(KSTACKTOP - KSTKSIZE, KSTKSIZE, Bootstack, FALSE, TRUE),
     Call(KERNBASE, KernTables * NPT, 0, FALSE, TRUE) >> \o [i \in 1 .. NCPU |-> MpCall(i - 1)]

MapRegion ==
  LET c == Calls[region + 1]
      new == boot_map_region(m, c.va, c.n, c.pa, c.u, c.w)
      ok == Reach(Written(m, c.va, c.n))
  IN  /\ phase = "boot_map_region"
      /\ m' = IF ok THEN new ELSE m
      /\ region' = region + 1
      /\ phase' = IF ~ok THEN "fault"
                  ELSE IF region + 1 = Len(Calls) THEN "check_kern_pgdir" ELSE phase
      /\ UNCHANGED cr3

-----------------------------------------------------------------------------
(* The end of mem_init.                                                      *)

KernPgdirOk ==
  /\ \A i \in 0 .. Up(m.npages, PerPage) - 1 : check_va2pa(UPAGES + i) = m.pages + i
  /\ \A i \in 0 .. EnvPages - 1 : check_va2pa(UENVS + i) = m.envs + i
  /\ \A p \in 0 .. m.npages - 1 : check_va2pa(KERNBASE + p) = p
  /\ \A n \in 0 .. NCPU - 1 :
       LET bottom == KSTACKTOP - (KSTKSIZE + KSTKGAP) * (n + 1)
       IN  /\ \A i \in 0 .. KSTKSIZE - 1 :
                check_va2pa(bottom + KSTKGAP + i) = Kstacks + n * KSTKSIZE + i
           /\ \A i \in 0 .. KSTKGAP - 1 : check_va2pa(bottom + i) = -1
  /\ \A d \in Dir : m.tables[d] # NoTable

check_kern_pgdir ==
  Do("check_kern_pgdir", ToSet(m.tables), m, IF KernPgdirOk THEN "lcr3" ELSE "panic")

\* The switch of directories: the statements around it run in the image.
lcr3 ==
  /\ phase = "lcr3"
  /\ cr3' = "kern"
  /\ phase' = IF \A p \in Ext .. m.nextfree - 1 : m.pte[KERNBASE + p].pp = p
              THEN "check_page_free_list(0)" ELSE "fault"
  /\ UNCHANGED <<m, region>>

check_page_installed_pgdir ==
  Do("check_page_installed_pgdir", Borrowed,
     [m EXCEPT !.page_free_list = Borrow(@, <<1, 3, 2>>)], "done")

mem_init ==
  \/ i386_detect_memory \/ KernPgdir \/ Pages \/ Envs \/ page_init
  \/ check_page_free_list(TRUE, "check_page_free_list(1)", "check_page_alloc")
  \/ check_page_alloc \/ check_page \/ CheckMm1 \/ CheckMm2 \/ CheckUnmap \/ MapRegion \/ check_kern_pgdir \/ lcr3
  \/ check_page_free_list(FALSE, "check_page_free_list(0)", "check_page_installed_pgdir")
  \/ check_page_installed_pgdir

-----------------------------------------------------------------------------
(* Properties.                                                               *)

\* Pages that hold something: page 0, the I/O hole, the kernel and what boot_alloc gave
\* away, the code for the other CPUs, and the page tables.
InUse ==
  {0, MPEntry} \cup (IOHole .. Ext - 1) \cup (Ext .. m.nextfree - 1)
  \cup (ToSet(m.tables) \ {NoTable})

\* page_init, which does not use the limit it computes, and everything that takes pages
\* after it never leave a page on the free list that holds something, or one twice.
FreeListSafe ==
  /\ ToSet(m.page_free_list) \cap InUse = {}
  /\ Cardinality(ToSet(m.page_free_list)) = Len(m.page_free_list)

Stack(i) == KSTACKTOP - i * (KSTKSIZE + KSTKGAP) - KSTKSIZE .. KSTACKTOP - i * (KSTKSIZE + KSTKGAP) - 1

\* mem_init gets from the 4 MB of entry_pgdir to kern_pgdir without touching a page
\* that is not mapped yet, and the one assertion of its checks that can fail is that of
\* check_page about what mmio_map_region returned.  In kern_pgdir every page of memory is
\* at KERNBASE, every CPU has its own stack under an unmapped gap, a region given out by
\* mmio_map_region lies between MMIOBASE and MMIOLIM, and what is mapped for user code is
\* the arrays pages and envs, read-only.  (Through UVPT user code reads the page tables
\* as well: the directory's entry for UVPT is the directory, and pte has no entries
\* for it.)
MemoryReady ==
  /\ phase # "fault" /\ (phase = "panic" => MmioReturns = "end")
  /\ cr3 = "kern" =>
       /\ \A p \in 0 .. m.npages - 1 : Translate(p) = [pp |-> p, u |-> FALSE, w |-> TRUE]
       /\ \A i \in 0 .. NCPU - 1 : \A v \in Stack(i) :
            /\ m.pte[v].pp \in Kstacks + i * KSTKSIZE .. Kstacks + (i + 1) * KSTKSIZE - 1
            /\ m.pte[v].w
       /\ \A v \in MMIOLIM .. KSTACKTOP - 1 :
            v \notin UNION {Stack(i) : i \in 0 .. NCPU - 1} => m.pte[v] = NoPte
       /\ m.base \in MMIOBASE .. MMIOLIM
       /\ \A v \in VPage : m.pte[v].u =>
            ~m.pte[v].w /\ m.pte[v].pp \in m.pages .. m.nextfree - 1

\* The checks that mem_init makes of itself all pass.
ChecksPass == phase # "panic"
=============================================================================
