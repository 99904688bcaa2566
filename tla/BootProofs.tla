----------------------------- MODULE BootProofs -----------------------------
(***************************************************************************)
(* mem_init and the bringing up of the other CPUs, for every size of       *)
(* memory, every kernel image, every MP table and every NCPU.              *)
(***************************************************************************)
EXTENDS Startup, FiniteSetTheorems, TLAPS

-----------------------------------------------------------------------------
(* The memory.                                                               *)

Allocating == {"i386_detect_memory", "kern_pgdir", "pages", "envs"}
Unlisted == Allocating \cup {"page_init"}
Untested == Unlisted \cup {"check_page_free_list(1)"}
Unmapped == Untested \cup {"check_page_alloc", "check_page", "mm1"}
Unbased == Unmapped \cup {"mm2", "unmap", "panic"}
Installed == {"check_page_free_list(0)", "check_page_installed_pgdir", "done"}
Phase == Unbased \cup {"boot_map_region", "check_kern_pgdir", "lcr3"} \cup Installed

Regions == 4 + NCPU

\* Types, and where mem_init is.
PhaseInv ==
  /\ phase \in Phase /\ region \in 0 .. Regions
  /\ cr3 = IF phase \in Installed THEN "kern" ELSE "entry"
  /\ phase \in Unbased => region = 0
  /\ phase = "boot_map_region" => region < Regions
  /\ phase \notin Unbased \cup {"boot_map_region"} => region = Regions
  /\ phase \notin Unbased => MmioReturns = "base"
  /\ phase = "panic" => MmioReturns = "end"

Entry == [pp : Int, u : BOOLEAN, w : BOOLEAN]
Memory == [npages : Nat, nextfree : Nat, kern_pgdir : Nat, pages : Nat, envs : Nat,
           page_free_list : Seq(Nat), tables : [Dir -> Int], pte : [VPage -> Entry], base : Nat]

Size(n) == \E x \in ExtMem : n = Ext + x

\* What boot_alloc has given away.
AllocInv ==
  /\ phase \in {"i386_detect_memory", "kern_pgdir"} => m.nextfree \in Ends
  /\ phase # "i386_detect_memory" => Size(m.npages)
  /\ phase \notin {"i386_detect_memory", "kern_pgdir"} =>
       m.kern_pgdir \in Ends /\ m.tables[2] = m.kern_pgdir
  /\ phase = "pages" => m.nextfree = m.kern_pgdir + 1
  /\ phase \in Phase \ {"i386_detect_memory", "kern_pgdir", "pages"} => m.pages = m.kern_pgdir + 1
  /\ phase = "envs" => m.nextfree = m.pages + Up(m.npages, PerPage)
  /\ phase \notin Allocating =>
       /\ m.envs = m.pages + Up(m.npages, PerPage)
       /\ m.nextfree = m.envs + EnvPages

\* The directory entries that have a page table, which entry_pgdir maps.
Present ==
  (IF phase \in {"i386_detect_memory", "kern_pgdir"} THEN {} ELSE {2})
  \cup (IF phase \in Unmapped THEN {} ELSE {3})
  \cup (IF region >= 1 THEN {1} ELSE {}) \cup (IF region >= 2 THEN {0} ELSE {})
  \cup (IF region >= 3 THEN {4} ELSE {}) \cup (IF region >= 4 THEN 5 .. 4 + KernTables ELSE {})
TablesInv ==
  \A d \in Dir : IF d \in Present THEN m.tables[d] \in Nat /\ Low(m.tables[d]) ELSE m.tables[d] = NoTable

\* The page tables that are still to come.
Reserve ==
  IF phase \in Unmapped THEN KernTables + 4 ELSE IF region >= 4 THEN 0 ELSE KernTables + 3 - region

Free(p, n) == p \in 1 .. n - 1 /\ p # MPEntry /\ (p < IOHole \/ p >= FirstFree)

\* The free list: no page that holds something, none twice, low ones in front for the page
\* tables to come, and behind these a page of each kind that check_page_free_list wants.
Stock(list, r, n) ==
  /\ \A i \in DOMAIN list : Free(list[i], n)
  /\ \A i, j \in DOMAIN list : list[i] = list[j] => i = j
  /\ r + 3 <= Len(list) /\ \A i \in 1 .. r : Low(list[i])
  /\ \E i \in r + 1 .. Len(list) : list[i] < Ext
  /\ \E i \in r + 1 .. Len(list) : list[i] >= Ext
ListInv ==
  /\ phase \in Unlisted => m.page_free_list = <<>>
  /\ phase = "check_page_free_list(1)" => m.page_free_list = PageInitList(m.npages)
  /\ phase \notin Untested => Stock(m.page_free_list, Reserve, m.npages)
  /\ \A d \in Dir, i \in DOMAIN m.page_free_list : m.tables[d] # m.page_free_list[i]

StackBottom(k) == KSTACKTOP - k * (KSTKSIZE + KSTKGAP) - KSTKSIZE

\* The page tables' contents: what user code may read, the arrays, all of memory, the stacks
\* of the CPUs, and nothing between these.
UserInv == \A v \in VPage : m.pte[v].u =>
  region >= 1 /\ ~m.pte[v].w /\ m.pte[v].pp \in m.pages .. m.nextfree - 1
ArrayInv ==
  /\ region >= 1 => \A i \in 0 .. Up(m.npages, PerPage) - 1 : m.pte[UPAGES + i].pp = m.pages + i
  /\ region >= 2 => \A i \in 0 .. EnvPages - 1 : m.pte[UENVS + i].pp = m.envs + i
KernInv == region >= 4 =>
  \A p \in 0 .. KernTables * NPT - 1 : m.pte[KERNBASE + p] = [pp |-> p, u |-> FALSE, w |-> TRUE]
KstackInv == \A k \in 0 .. NCPU - 1 : region >= 5 + k => \A i \in 0 .. KSTKSIZE - 1 :
  m.pte[StackBottom(k) + i] = [pp |-> Kstacks + k * KSTKSIZE + i, u |-> FALSE, w |-> TRUE]
GapInv == \A v \in MMIOLIM .. KSTACKTOP - 1 : (\A k \in 0 .. NCPU - 1 : v \notin Stack(k)) => m.pte[v] = NoPte
PteInv == UserInv /\ ArrayInv /\ KernInv /\ KstackInv /\ GapInv

\* The entries of the regions that check_page reserved, and the one after them.
MmioPage(p) == [pp |-> p, u |-> FALSE, w |-> TRUE]
MmioInv ==
  /\ phase \in Unmapped \cup {"mm2", "unmap"} => m.pte[MMIOBASE + 3] = NoPte
  /\ phase \in {"mm2", "unmap"} => m.pte[MMIOBASE] = MmioPage(0) /\ m.pte[MMIOBASE + 1] = MmioPage(1)
  /\ phase = "unmap" => m.pte[MMIOBASE + 2] = MmioPage(0)

\* What check_page left of the MMIO region.
BaseInv == m.base = IF phase \in Unmapped THEN MMIOBASE ELSE IF phase = "mm2" THEN MMIOBASE + 2 ELSE MMIOBASE + 3

MemInv == PhaseInv /\ m \in Memory /\ AllocInv /\ TablesInv /\ ListInv /\ PteInv /\ (phase \notin Installed => BaseInv)

-----------------------------------------------------------------------------
(* Numbers.                                                                  *)

\* The constants are numbers.
LEMMA Constants ==
  /\ NPT \in Nat /\ PerPage \in Nat /\ EnvPages \in Nat /\ NCPU \in Nat /\ KSTKSIZE \in Nat
  /\ NPT > 0 /\ PerPage > 0 /\ EnvPages > 0 /\ NCPU > 0 /\ KSTKSIZE > 0 /\ NPT > 4
  /\ KernTables \in Nat /\ IOHole \in Nat /\ Ext \in Nat /\ MPEntry \in Nat /\ FirstFree \in Nat
  /\ KSTKGAP \in Nat /\ Bootstack \in Nat /\ Kstacks \in Nat
BY SizeAssumption, MmioAssumption

\* The q-th page table.
LEMMA TableOf ==
  ASSUME NEW v \in Int, NEW q \in Int, q * NPT <= v, v < q * NPT + NPT
  PROVE  PDX(v) = q
BY Constants DEF PDX

\* There is a page of struct PageInfo's for memory that there is.
LEMMA UpPositive ==
  ASSUME NEW n \in Nat, n > 0
  PROVE  Up(n, PerPage) \in Nat /\ Up(n, PerPage) > 0
BY Constants DEF Up

\* The regions follow each other.
LEMMA Layout ==
  /\ UENVS = 0 /\ UPAGES = NPT /\ UVPT = 2 * NPT /\ MMIOBASE = 3 * NPT /\ MMIOLIM = 4 * NPT
  /\ KSTACKTOP = 5 * NPT /\ KERNBASE = 5 * NPT
  /\ KernTables * NPT \in Nat
  /\ VPage = 0 .. 5 * NPT + KernTables * NPT - 1
  /\ Dir = 0 .. 4 + KernTables
<1>1. KernTables * NPT \in Nat /\ (5 + KernTables) * NPT - 1 = 5 * NPT + KernTables * NPT - 1
  BY Constants
<1>2. VPage = 0 .. 5 * NPT + KernTables * NPT - 1
  BY <1>1, Zenon DEF VPage
<1> QED
  BY <1>1, <1>2 DEF UENVS, UPAGES, UVPT, MMIOBASE, MMIOLIM, KSTACKTOP, KERNBASE, Dir

\* PDX of the regions.
LEMMA Pdxs ==
  /\ PDX(UVPT) = 2
  /\ \A v \in 0 .. NPT - 1 : PDX(v) = 0
  /\ \A v \in NPT .. 2 * NPT - 1 : PDX(v) = 1
  /\ \A v \in 3 * NPT .. 4 * NPT - 1 : PDX(v) = 3
  /\ \A v \in 4 * NPT .. 5 * NPT - 1 : PDX(v) = 4
  /\ \A v \in 5 * NPT .. 5 * NPT + KernTables * NPT - 1 : PDX(v) \in 5 .. 4 + KernTables
  /\ PDX(5 * NPT) = 5
  /\ KernTables > 0 => PDX(5 * NPT + KernTables * NPT - 1) = 4 + KernTables
<1> USE Constants
<1>1. PDX(UVPT) = 2
  BY TableOf DEF UVPT
<1>2. \A v \in 0 .. NPT - 1 : PDX(v) = 0
  BY TableOf
<1>3. \A v \in NPT .. 2 * NPT - 1 : PDX(v) = 1
  BY TableOf
<1>4. \A v \in 3 * NPT .. 4 * NPT - 1 : PDX(v) = 3
  BY TableOf
<1>5. \A v \in 4 * NPT .. 5 * NPT - 1 : PDX(v) = 4
  BY TableOf
<1>6. PDX(5 * NPT) = 5
  BY TableOf
<1>7. ASSUME KernTables > 0 PROVE PDX(5 * NPT + KernTables * NPT - 1) = 4 + KernTables
  <2>1. (4 + KernTables) * NPT = 4 * NPT + KernTables * NPT /\ KernTables * NPT \in Nat
    OBVIOUS
  <2>2. KernTables * NPT >= NPT
    BY <1>7
  <2> QED
    BY <2>1, <2>2, TableOf
<1>8. ASSUME NEW v \in 5 * NPT .. 5 * NPT + KernTables * NPT - 1 PROVE PDX(v) \in 5 .. 4 + KernTables
  <2>1. KernTables * NPT \in Nat /\ v \in Int
    OBVIOUS
  <2>2. PDX(v) \in Int /\ PDX(v) * NPT <= v /\ v < PDX(v) * NPT + NPT
    BY <2>1 DEF PDX
  <2>3. PDX(v) * NPT + NPT = (PDX(v) + 1) * NPT /\ (5 + KernTables) * NPT = 5 * NPT + KernTables * NPT
    BY <2>2
  <2>4. PDX(v) + 1 > 5
    BY <2>2, <2>3
  <2>5. PDX(v) < 5 + KernTables
    BY <2>2, <2>3
  <2> QED
    BY <2>2, <2>4, <2>5
<1> QED
  BY <1>1, <1>2, <1>3, <1>4, <1>5, <1>6, <1>7, <1>8

\* FirstFreeAssumption for one kernel and one size of memory.
LEMMA FirstFreeFacts ==
  ASSUME NEW e \in Ends, NEW x \in ExtMem
  PROVE  /\ e + 1 + Up(Ext + x, PerPage) + EnvPages <= FirstFree
         /\ Ext + x <= KernTables * NPT
         /\ KernTables + 4 <= NPT - FirstFree /\ KernTables + 4 < (Ext + x) - FirstFree
         /\ KernTables + 4 + 3 <= ((Ext + x) - FirstFree) + (IOHole - 2)
BY FirstFreeAssumption, Zenon

\* What the assumptions say about a machine that has a kernel and memory.
LEMMA Machine ==
  ASSUME NEW e \in Ends, NEW n, Size(n)
  PROVE  /\ e \in Nat /\ n \in Nat /\ Ext <= n
         /\ 0 < MPEntry /\ MPEntry < IOHole /\ 2 < IOHole /\ IOHole < Ext
         /\ Ext < e /\ e + 1 + Up(n, PerPage) + EnvPages <= FirstFree
         /\ Up(n, PerPage) \in Nat /\ Up(n, PerPage) > 0 /\ Up(n, PerPage) <= NPT
         /\ n <= KernTables * NPT /\ KernTables > 0
         /\ KernTables + 4 <= NPT - FirstFree /\ KernTables + 4 < n - FirstFree
         /\ KernTables + 4 + 3 <= (n - FirstFree) + (IOHole - 2)
         /\ EnvPages <= NPT /\ NCPU * (KSTKSIZE + KSTKGAP) <= NPT
         /\ Ext <= Kstacks /\ Ext <= Bootstack
<1> USE Constants
<1>1. PICK x \in ExtMem : n = Ext + x
  BY DEF Size
<1>2. x \in Nat /\ e \in Nat
  BY SizeAssumption
<1>3. 0 < MPEntry /\ MPEntry < IOHole /\ 2 < IOHole /\ IOHole < Ext
  BY ImageAssumption
<1>4. NCPU * KSTKSIZE \in Nat /\ NCPU * KSTKSIZE > 0
  OBVIOUS
<1>5. Kstacks \in Kstacks .. Kstacks + NCPU * KSTKSIZE - 1
  BY <1>4
<1>6. Kstacks \in Ext .. NPT - 1 /\ Bootstack \in Ext .. NPT - 1
  BY <1>5, ImageAssumption
<1>7. Kstacks + NCPU * KSTKSIZE <= e
  BY ImageAssumption
<1>8. Ext < e
  BY <1>2, <1>4, <1>6, <1>7
<1>9. Up(n, PerPage) \in Nat /\ Up(n, PerPage) > 0
  BY <1>1, <1>2, <1>3, UpPositive
<1>10. /\ e + 1 + Up(n, PerPage) + EnvPages <= FirstFree /\ n <= KernTables * NPT
       /\ KernTables + 4 <= NPT - FirstFree /\ KernTables + 4 < n - FirstFree
       /\ KernTables + 4 + 3 <= (n - FirstFree) + (IOHole - 2)
  BY <1>1, FirstFreeFacts, Zenon
<1>11. Up(n, PerPage) <= NPT /\ EnvPages <= NPT /\ NCPU * (KSTKSIZE + KSTKGAP) <= NPT
  BY <1>1, RegionAssumption, Zenon
<1>12. KernTables > 0
  <2>1. n > 0
    BY <1>1, <1>2, <1>3
  <2>2. KernTables = 0 => KernTables * NPT = 0
    OBVIOUS
  <2> QED
    BY <1>10, <1>1, <1>2, <2>1, <2>2
<1> QED
  BY <1>1, <1>2, <1>3, <1>6, <1>8, <1>9, <1>10, <1>11, <1>12

-----------------------------------------------------------------------------
(* Operators on lists.                                                       *)

\* A list without duplicates has as many members as cells.
LEMMA AsManyMembers ==
  ASSUME NEW list \in Seq(Nat), \A i, j \in DOMAIN list : list[i] = list[j] => i = j
  PROVE  Cardinality(ToSet(list)) = Len(list)
<1>1. Len(list) \in Nat /\ DOMAIN list = 1 .. Len(list)
  OBVIOUS
<1>2. ToSet(list) = {list[i] : i \in DOMAIN list}
  BY DEF ToSet
<1>3. list \in Bijection(1 .. Len(list), ToSet(list))
  BY <1>1, <1>2 DEF Bijection, Injection, Surjection, IsInjective
<1>4. ExistsBijection(1 .. Len(list), ToSet(list))
  BY <1>3 DEF ExistsBijection
<1> QED
  BY <1>1, <1>4, FS_CountingElements

\* An interval's size.
LEMMA Interval ==
  ASSUME NEW a \in Int, NEW b \in Int, a <= b + 1
  PROVE  Cardinality(a .. b) = b - a + 1
<1>1. Cardinality(a .. b) = IF a > b THEN 0 ELSE b - a + 1
  BY FS_Interval, Zenon
<1> QED
  BY <1>1

\* The numbers of an interval up to one of them.
LEMMA UpTo ==
  ASSUME NEW a \in Int, NEW b \in Int, NEW i \in a .. b
  PROVE  Cardinality({j \in a .. b : j <= i}) = i - a + 1
<1>1. {j \in a .. b : j <= i} = a .. i
  OBVIOUS
<1>2. Cardinality(a .. i) = i - a + 1
  BY Interval
<1> QED
  BY <1>1, <1>2, Zenon

\* Select of a run of positions.
LEMMA SelectRun ==
  ASSUME NEW list \in Seq(Nat), NEW a \in Nat, NEW b \in Nat, a <= b + 1, a > 0, b <= Len(list)
  PROVE  /\ Select(list, a .. b) \in Seq(Nat) /\ Len(Select(list, a .. b)) = b - a + 1
         /\ \A k \in 1 .. b - a + 1 : Select(list, a .. b)[k] = list[a + k - 1]
<1>1. Cardinality(a .. b) = b - a + 1
  BY Interval
<1> DEFINE Nth(k) == CHOOSE i \in a .. b : Cardinality({j \in a .. b : j <= i}) = k
<1>2. ASSUME NEW k \in 1 .. b - a + 1 PROVE Nth(k) = a + k - 1
  <2>1. \A i \in a .. b : Cardinality({j \in a .. b : j <= i}) = i - a + 1
    <3>1. a \in Int /\ b \in Int
      OBVIOUS
    <3> QED
      BY <3>1, UpTo, Zenon
  <2>2. \A i \in a .. b : Cardinality({j \in a .. b : j <= i}) = k <=> i = a + k - 1
    <3> DEFINE C(i) == Cardinality({j \in a .. b : j <= i})
    <3>1. \A i \in a .. b : C(i) = i - a + 1
      BY <2>1
    <3> HIDE DEF C
    <3>2. \A i \in a .. b : C(i) = k <=> i = a + k - 1
      BY <3>1
    <3> QED
      BY <3>2 DEF C
  <2>3. a + k - 1 \in a .. b
    OBVIOUS
  <2> QED
    BY <2>2, <2>3, Zenon
<1>3. Select(list, a .. b) = [k \in 1 .. b - a + 1 |-> list[Nth(k)]]
  BY <1>1, Zenon DEF Select
<1> HIDE DEF Nth
<1> DEFINE s == Select(list, a .. b)
<1> HIDE DEF s
<1>4. s = [k \in 1 .. b - a + 1 |-> list[Nth(k)]]
  BY <1>3 DEF s
<1>5. \A k \in 1 .. b - a + 1 : a + k - 1 \in DOMAIN list /\ list[a + k - 1] \in Nat
  OBVIOUS
<1>6. s \in [1 .. b - a + 1 -> Nat] /\ \A k \in 1 .. b - a + 1 : s[k] = list[a + k - 1]
  BY <1>2, <1>4, <1>5
<1>7. b - a + 1 \in Nat
  OBVIOUS
<1>8. s \in Seq(Nat) /\ Len(s) = b - a + 1
  <2> DEFINE z == b - a + 1
  <2>1. z \in Nat /\ s \in [1 .. z -> Nat]
    BY <1>6, <1>7
  <2> HIDE DEF z
  <2>2. s \in Seq(Nat) /\ Len(s) = z
    BY <2>1
  <2> QED
    BY <2>2 DEF z
<1> QED
  BY <1>6, <1>8 DEF s

\* Concatenation.
LEMMA Concat ==
  ASSUME NEW S, NEW s \in Seq(S), NEW t \in Seq(S)
  PROVE  /\ s \o t \in Seq(S) /\ Len(s \o t) = Len(s) + Len(t)
         /\ \A i \in 1 .. Len(s) : (s \o t)[i] = s[i]
         /\ \A i \in Len(s) + 1 .. Len(s) + Len(t) : (s \o t)[i] = t[i - Len(s)]
OBVIOUS

\* Concatenation of three sequences.
LEMMA ConcatThree ==
  ASSUME NEW s \in Seq(Int), NEW t \in Seq(Int), NEW w \in Seq(Int)
  PROVE  /\ s \o t \o w \in Seq(Int) /\ Len(s \o t \o w) = Len(s) + Len(t) + Len(w)
         /\ \A i \in 1 .. Len(s) : (s \o t \o w)[i] = s[i]
         /\ \A i \in Len(s) + 1 .. Len(s) + Len(t) : (s \o t \o w)[i] = t[i - Len(s)]
         /\ \A i \in Len(s) + Len(t) + 1 .. Len(s) + Len(t) + Len(w) : (s \o t \o w)[i] = w[i - (Len(s) + Len(t))]
<1> DEFINE y == s \o t
           z == y \o w
<1>1. y \in Seq(Int) /\ Len(y) = Len(s) + Len(t) /\ (\A i \in 1 .. Len(s) : y[i] = s[i])
      /\ \A i \in Len(s) + 1 .. Len(s) + Len(t) : y[i] = t[i - Len(s)]
  BY Concat
<1> HIDE DEF y
<1>2. y \in Seq(Int)
  BY <1>1
<1>3. /\ z \in Seq(Int) /\ Len(z) = Len(y) + Len(w)
      /\ \A i \in 1 .. Len(y) : z[i] = y[i]
      /\ \A i \in Len(y) + 1 .. Len(y) + Len(w) : z[i] = w[i - Len(y)]
  BY <1>2, Concat
<1> HIDE DEF z
<1>4. Len(s) \in Nat /\ Len(t) \in Nat /\ Len(w) \in Nat
  OBVIOUS
<1>5. z \in Seq(Int) /\ Len(z) = Len(s) + Len(t) + Len(w)
  BY <1>1, <1>3
<1>6. \A i \in 1 .. Len(s) : z[i] = s[i]
  BY <1>1, <1>3, <1>4
<1>7. \A i \in Len(s) + 1 .. Len(s) + Len(t) : z[i] = t[i - Len(s)]
  BY <1>1, <1>3, <1>4
<1>8. \A i \in Len(s) + Len(t) + 1 .. Len(s) + Len(t) + Len(w) : z[i] = w[i - (Len(s) + Len(t))]
  BY <1>1, <1>3, <1>4
<1> QED
  BY <1>5, <1>6, <1>7, <1>8, Zenon DEF z, y

\* Counting down.
LEMMA DownIs ==
  ASSUME NEW a \in Nat, NEW b \in Int, a <= b + 1
  PROVE  /\ Down(a, b) \in Seq(Int) /\ Len(Down(a, b)) = b - a + 1
         /\ \A i \in 1 .. b - a + 1 : Down(a, b)[i] = b - i + 1
<1>1. b - a + 1 \in Nat
  OBVIOUS
<1> QED
  BY <1>1 DEF Down

\* page_init's list.
LEMMA PageInitListIs ==
  ASSUME NEW e \in Ends, NEW n, Size(n),
         NEW list, list = PageInitList(n), NEW a, a = n - FirstFree
  PROVE  /\ a \in Nat /\ a + IOHole - 2 \in Nat
         /\ list \in Seq(Nat) /\ Len(list) = a + IOHole - 2
         /\ \A i \in 1 .. a : list[i] = n - i
         /\ \A i \in a + 1 .. a + IOHole - 1 - MPEntry : list[i] = a + IOHole - i
         /\ \A i \in a + IOHole - MPEntry .. a + IOHole - 2 : list[i] = a + IOHole - 1 - i
<1> DEFINE A == Down(FirstFree, n - 1)
           B == Down(MPEntry + 1, IOHole - 1)
           C == Down(1, MPEntry - 1)
<1> USE Constants
<1>1. /\ n \in Nat /\ 0 < MPEntry /\ MPEntry < IOHole /\ 2 < IOHole /\ FirstFree < n
  BY Machine
<1>2. a \in Nat /\ a > 0 /\ a + IOHole - 2 \in Nat
  BY <1>1
<1>3. A \in Seq(Int) /\ Len(A) = a /\ \A i \in 1 .. a : A[i] = n - i
  <2>1. FirstFree <= (n - 1) + 1 /\ n - 1 \in Int /\ (n - 1) - FirstFree + 1 = a
    BY <1>1
  <2>2. A \in Seq(Int) /\ Len(A) = (n - 1) - FirstFree + 1 /\ \A i \in 1 .. (n - 1) - FirstFree + 1 : A[i] = (n - 1) - i + 1
    BY <2>1, DownIs, Zenon
  <2> HIDE DEF A
  <2> QED
    BY <1>1, <2>1, <2>2
<1>4. B \in Seq(Int) /\ Len(B) = IOHole - 1 - MPEntry /\ \A i \in 1 .. IOHole - 1 - MPEntry : B[i] = IOHole - i
  <2>1. MPEntry + 1 <= (IOHole - 1) + 1 /\ MPEntry + 1 \in Nat /\ IOHole - 1 \in Int
    BY <1>1
  <2>2. B \in Seq(Int) /\ Len(B) = (IOHole - 1) - (MPEntry + 1) + 1
        /\ \A i \in 1 .. (IOHole - 1) - (MPEntry + 1) + 1 : B[i] = (IOHole - 1) - i + 1
    BY <2>1, DownIs, Zenon
  <2> HIDE DEF B
  <2> QED
    BY <1>1, <2>1, <2>2
<1>5. C \in Seq(Int) /\ Len(C) = MPEntry - 1 /\ \A i \in 1 .. MPEntry - 1 : C[i] = MPEntry - i
  <2>1. 1 <= (MPEntry - 1) + 1 /\ 1 \in Nat /\ MPEntry - 1 \in Int
    BY <1>1
  <2>2. C \in Seq(Int) /\ Len(C) = (MPEntry - 1) - 1 + 1
        /\ \A i \in 1 .. (MPEntry - 1) - 1 + 1 : C[i] = (MPEntry - 1) - i + 1
    BY <2>1, DownIs, Zenon
  <2> HIDE DEF C
  <2> QED
    BY <1>1, <2>1, <2>2
<1>6. list = A \o B \o C
  BY DEF PageInitList
<1> HIDE DEF A, B, C
<1> DEFINE k == IOHole - 1 - MPEntry
           l == MPEntry - 1
<1>7. k \in Nat /\ l \in Nat
  BY <1>1
<1> HIDE DEF k, l
<1>8. A \in Seq(Int) /\ B \in Seq(Int) /\ C \in Seq(Int) /\ Len(A) = a /\ Len(B) = k /\ Len(C) = l
  BY <1>3, <1>4, <1>5 DEF k, l
<1>9. /\ A \o B \o C \in Seq(Int) /\ Len(A \o B \o C) = Len(A) + Len(B) + Len(C)
      /\ \A i \in 1 .. Len(A) : (A \o B \o C)[i] = A[i]
      /\ \A i \in Len(A) + 1 .. Len(A) + Len(B) : (A \o B \o C)[i] = B[i - Len(A)]
      /\ \A i \in Len(A) + Len(B) + 1 .. Len(A) + Len(B) + Len(C) : (A \o B \o C)[i] = C[i - (Len(A) + Len(B))]
  BY ONLY <1>8, ConcatThree, Zenon
<1>10. /\ list \in Seq(Int) /\ Len(list) = a + k + l
       /\ \A i \in 1 .. a : list[i] = A[i]
       /\ \A i \in a + 1 .. a + k : list[i] = B[i - a]
       /\ \A i \in a + k + 1 .. a + k + l : list[i] = C[i - (a + k)]
  BY <1>6, <1>8, <1>9, Zenon
<1>11. list \in Seq(Int) /\ Len(list) = a + IOHole - 2
  BY <1>1, <1>2, <1>10 DEF k, l
<1>12. \A i \in 1 .. a : list[i] = n - i
  BY <1>3, <1>10
<1>13. \A i \in a + 1 .. a + IOHole - 1 - MPEntry : list[i] = a + IOHole - i
  <2> SUFFICES ASSUME NEW i \in a + 1 .. a + IOHole - 1 - MPEntry PROVE list[i] = a + IOHole - i
    OBVIOUS
  <2>1. i \in a + 1 .. a + k /\ i - a \in 1 .. IOHole - 1 - MPEntry
    BY <1>1, <1>2 DEF k
  <2>2. list[i] = B[i - a] /\ B[i - a] = IOHole - (i - a)
    BY <1>4, <1>10, <2>1
  <2> QED
    BY <1>2, <2>1, <2>2
<1>14. \A i \in a + IOHole - MPEntry .. a + IOHole - 2 : list[i] = a + IOHole - 1 - i
  <2> SUFFICES ASSUME NEW i \in a + IOHole - MPEntry .. a + IOHole - 2 PROVE list[i] = a + IOHole - 1 - i
    OBVIOUS
  <2>1. i \in a + k + 1 .. a + k + l /\ i - (a + k) \in 1 .. MPEntry - 1 /\ a + k = a + IOHole - 1 - MPEntry
    BY <1>1, <1>2 DEF k, l
  <2>2. list[i] = C[i - (a + k)] /\ C[i - (a + k)] = MPEntry - (i - (a + k))
    BY <1>5, <1>10, <2>1
  <2> QED
    BY <1>1, <1>2, <2>1, <2>2
<1>15. \A i \in 1 .. a + IOHole - 2 : list[i] \in Nat
  <2>1. \A i \in 1 .. a : n - i \in Nat
    BY <1>1, <1>2
  <2>2. \A i \in a + 1 .. a + IOHole - 1 - MPEntry : a + IOHole - i \in Nat
    BY <1>1, <1>2
  <2>3. \A i \in a + IOHole - MPEntry .. a + IOHole - 2 : a + IOHole - 1 - i \in Nat
    BY <1>1, <1>2
  <2>4. \A i \in 1 .. a + IOHole - 2 : \/ i \in 1 .. a \/ i \in a + 1 .. a + IOHole - 1 - MPEntry
                                      \/ i \in a + IOHole - MPEntry .. a + IOHole - 2
    BY <1>1, <1>2
  <2> QED
    BY <1>12, <1>13, <1>14, <2>1, <2>2, <2>3, <2>4
<1>16. list \in Seq(Nat)
  <2>1. list \in [1 .. a + IOHole - 2 -> Nat]
    BY <1>11, <1>15
  <2> QED
    BY <1>2, <2>1
<1> QED
  BY <1>2, <1>11, <1>12, <1>13, <1>14, <1>16

\* The list after check_page_free_list(1): h pages that entry_pgdir does not map are last.
LEMMA LowFirstIs ==
  ASSUME NEW list \in Seq(Nat), NEW h \in Nat, h <= Len(list),
         \A i \in DOMAIN list : Low(list[i]) <=> i > h
  PROVE  /\ LowFirst(list) \in Seq(Nat) /\ Len(LowFirst(list)) = Len(list)
         /\ \A i \in 1 .. Len(list) - h : LowFirst(list)[i] = list[h + i]
         /\ \A i \in Len(list) - h + 1 .. Len(list) : LowFirst(list)[i] = list[i - (Len(list) - h)]
<1> DEFINE L == Len(list)
           S == Select(list, h + 1 .. L)
           T == Select(list, 1 .. h)
<1>1. L \in Nat /\ DOMAIN list = 1 .. L
  OBVIOUS
<1>2. {i \in DOMAIN list : Low(list[i])} = h + 1 .. L
  BY <1>1
<1>3. DOMAIN list \ (h + 1 .. L) = 1 .. h
  BY <1>1
<1>4. LowFirst(list) = S \o T
  BY <1>2, <1>3, Zenon DEF LowFirst
<1>5. S \in Seq(Nat) /\ Len(S) = L - (h + 1) + 1 /\ \A k \in 1 .. L - (h + 1) + 1 : S[k] = list[(h + 1) + k - 1]
  <2>1. h + 1 \in Nat /\ h + 1 <= L + 1 /\ h + 1 > 0 /\ L <= Len(list) /\ L \in Nat
    BY <1>1
  <2> QED
    BY <2>1, SelectRun
<1>6. T \in Seq(Nat) /\ Len(T) = h - 1 + 1 /\ \A k \in 1 .. h - 1 + 1 : T[k] = list[1 + k - 1]
  <2>1. 1 \in Nat /\ 1 <= h + 1 /\ 1 > 0
    OBVIOUS
  <2> QED
    BY <2>1, SelectRun
<1> HIDE DEF S, T
<1>7. S \in Seq(Nat) /\ Len(S) = L - h /\ \A i \in 1 .. L - h : S[i] = list[h + i]
  <2>1. L - h \in Nat /\ L - (h + 1) + 1 = L - h
    BY <1>1
  <2>2. \A k \in 1 .. L - h : (h + 1) + k - 1 = h + k
    BY <1>1
  <2> HIDE DEF L
  <2> QED
    BY <1>5, <2>1, <2>2
<1>8. T \in Seq(Nat) /\ Len(T) = h /\ \A i \in 1 .. h : T[i] = list[i]
  <2>1. \A k \in 1 .. h : 1 + k - 1 = k
    OBVIOUS
  <2>2. h - 1 + 1 = h
    OBVIOUS
  <2> QED
    BY <1>6, <2>1, <2>2
<1>9. L - h \in Nat /\ L = (L - h) + h
  BY <1>1
<1> DEFINE R == LowFirst(list)
           k == L - h
<1> HIDE DEF R, k, L
<1>10. k \in Nat /\ L = k + h /\ Len(S) = k
  BY <1>7, <1>9 DEF k
<1>11. /\ R \in Seq(Nat) /\ Len(R) = k + h
       /\ \A i \in 1 .. k : R[i] = S[i]
       /\ \A i \in k + 1 .. k + h : R[i] = T[i - k]
  <2>1. /\ S \o T \in Seq(Nat) /\ Len(S \o T) = Len(S) + Len(T)
        /\ \A i \in 1 .. Len(S) : (S \o T)[i] = S[i]
        /\ \A i \in Len(S) + 1 .. Len(S) + Len(T) : (S \o T)[i] = T[i - Len(S)]
    BY <1>7, <1>8, Concat, ZenonT(30)
  <2> QED
    BY <1>4, <1>8, <1>10, <2>1, Zenon DEF R
<1>12. \A i \in 1 .. k : R[i] = list[h + i]
  BY <1>7, <1>11 DEF k
<1>13. \A i \in k + 1 .. L : R[i] = list[i - k]
  <2>1. \A i \in k + 1 .. k + h : i - k \in 1 .. h
    BY ONLY <1>10, h \in Nat
  <2>2. \A i \in 1 .. h : T[i] = list[i]
    BY ONLY <1>8
  <2>3. \A i \in k + 1 .. k + h : R[i] = T[i - k]
    BY ONLY <1>11
  <2>4. \A i \in k + 1 .. k + h : R[i] = list[i - k]
    BY ONLY <2>1, <2>2, <2>3, Zenon
  <2> QED
    BY ONLY <1>10, <2>4, Zenon
<1> QED
  BY <1>10, <1>11, <1>12, <1>13, Zenon DEF R, k, L

\* Once the low pages are in front, there are enough of them for the page tables.
LEMMA StockInit ==
  ASSUME NEW e \in Ends, NEW n, Size(n), NEW list, list = PageInitList(n)
  PROVE  /\ LowFirst(list) \in Seq(Nat) /\ Stock(LowFirst(list), KernTables + 4, n)
         /\ list \in Seq(Nat) /\ \A i \in DOMAIN list : Free(list[i], n)
         /\ \A i, j \in DOMAIN list : list[i] = list[j] => i = j
<1> DEFINE a == n - FirstFree
           h == IF n > NPT THEN n - NPT ELSE 0
           L == Len(list)
           R == LowFirst(list)
           r == KernTables + 4
<1> USE Constants
<1>1. /\ n \in Nat /\ 0 < MPEntry /\ MPEntry < IOHole /\ 2 < IOHole /\ IOHole < Ext /\ Ext < FirstFree
      /\ r <= NPT - FirstFree /\ r < n - FirstFree /\ r + 3 <= (n - FirstFree) + (IOHole - 2)
  <2>1. /\ e \in Nat /\ n \in Nat
        /\ 0 < MPEntry /\ MPEntry < IOHole /\ 2 < IOHole /\ IOHole < Ext
        /\ Ext < e /\ e + 1 + Up(n, PerPage) + EnvPages <= FirstFree
        /\ Up(n, PerPage) \in Nat
        /\ KernTables + 4 <= NPT - FirstFree /\ KernTables + 4 < n - FirstFree
        /\ KernTables + 4 + 3 <= (n - FirstFree) + (IOHole - 2)
    BY Machine
  <2> QED
    BY <2>1
<1>2. /\ a \in Nat /\ L = a + IOHole - 2 /\ list \in Seq(Nat) /\ L \in Nat
      /\ \A i \in 1 .. a : list[i] = n - i
      /\ \A i \in a + 1 .. a + IOHole - 1 - MPEntry : list[i] = a + IOHole - i
      /\ \A i \in a + IOHole - MPEntry .. a + IOHole - 2 : list[i] = a + IOHole - 1 - i
  BY PageInitListIs
<1>3. a \in Nat /\ L \in Nat /\ L = a + IOHole - 2
  BY <1>2
<1> HIDE DEF L
<1>4. /\ h \in Nat /\ h < a /\ r <= a - h /\ r < L - h /\ (h = 0 => r < a /\ n <= NPT) /\ (h > 0 => h = n - NPT)
      /\ r \in Nat /\ r >= 4 /\ NPT > FirstFree /\ a = n - FirstFree /\ h < L /\ L > 0 /\ a < L
      /\ L \in Nat /\ a \in Nat
  BY <1>1, <1>3
<1>5. DOMAIN list = 1 .. L
  BY <1>2 DEF L
<1> HIDE DEF a, h, R, r
\* Where a page is says what it is.
<1>6. \A i \in 1 .. L : \/ i \in 1 .. a /\ list[i] = n - i
                        \/ i \in a + 1 .. a + IOHole - 1 - MPEntry /\ list[i] = a + IOHole - i
                        \/ i \in a + IOHole - MPEntry .. a + IOHole - 2 /\ list[i] = a + IOHole - 1 - i
  BY <1>1, <1>2
<1>7. \A i \in 1 .. L : Low(list[i]) <=> i > h
  BY <1>1, <1>2, <1>4, <1>6 DEF Low
<1>8. \A i \in 1 .. L : list[i] \in 1 .. n - 1 /\ list[i] # MPEntry /\ (list[i] < IOHole \/ list[i] >= FirstFree)
  BY <1>1, <1>2, <1>4, <1>6
<1>9. \A i, j \in 1 .. L : list[i] = list[j] => i = j
  <2> SUFFICES ASSUME NEW i \in 1 .. L, NEW j \in 1 .. L, list[i] = list[j] PROVE i = j
    OBVIOUS
  <2>1. \/ i \in 1 .. a /\ list[i] = n - i
        \/ i \in a + 1 .. a + IOHole - 1 - MPEntry /\ list[i] = a + IOHole - i
        \/ i \in a + IOHole - MPEntry .. a + IOHole - 2 /\ list[i] = a + IOHole - 1 - i
    BY <1>6
  <2>2. \/ j \in 1 .. a /\ list[j] = n - j
        \/ j \in a + 1 .. a + IOHole - 1 - MPEntry /\ list[j] = a + IOHole - j
        \/ j \in a + IOHole - MPEntry .. a + IOHole - 2 /\ list[j] = a + IOHole - 1 - j
    BY <1>6
  <2> QED
    BY <1>1, <1>4, <2>1, <2>2
<1>10. /\ R \in Seq(Nat) /\ Len(R) = L
       /\ \A i \in 1 .. L - h : R[i] = list[h + i]
       /\ \A i \in L - h + 1 .. L : R[i] = list[i - (L - h)]
  <2>1. h <= Len(list) /\ \A i \in DOMAIN list : Low(list[i]) <=> i > h
    BY <1>4, <1>5, <1>7 DEF L
  <2> QED
    BY <1>2, <1>4, <2>1, LowFirstIs DEF L, R
<1>11. \A i \in 1 .. L : R[i] = list[IF i <= L - h THEN h + i ELSE i - (L - h)]
  <2> SUFFICES ASSUME NEW i \in 1 .. L PROVE R[i] = list[IF i <= L - h THEN h + i ELSE i - (L - h)]
    OBVIOUS
  <2>1. i <= L - h => i \in 1 .. L - h
    BY <1>4
  <2>2. ~(i <= L - h) => i \in L - h + 1 .. L
    BY <1>4
  <2> QED
    BY <1>10, <2>1, <2>2, Zenon
<1>12. \A i \in 1 .. L : (IF i <= L - h THEN h + i ELSE i - (L - h)) \in 1 .. L
  BY <1>4
<1>13. \A i \in DOMAIN R : Free(R[i], n)
  BY <1>8, <1>10, <1>11, <1>12 DEF Free
<1>14. \A i, j \in DOMAIN R : R[i] = R[j] => i = j
  <2>1. DOMAIN R = 1 .. L
    BY <1>2, <1>10
  <2>2. ASSUME NEW i \in 1 .. L, NEW j \in 1 .. L, R[i] = R[j] PROVE i = j
    <3>1. (IF i <= L - h THEN h + i ELSE i - (L - h)) = IF j <= L - h THEN h + j ELSE j - (L - h)
      BY <1>9, <1>11, <1>12, <2>2
    <3> QED
      BY <1>4, <3>1
  <2> QED
    BY <2>1, <2>2
<1>15. r + 3 <= Len(R)
  BY <1>1, <1>2, <1>4, <1>10
<1>16. \A i \in 1 .. r : Low(R[i])
  <2>1. \A i \in 1 .. r : i \in 1 .. L - h /\ h + i \in 1 .. L /\ h + i > h
    BY <1>4
  <2> QED
    BY <1>7, <1>10, <2>1
<1>17. \E i \in r + 1 .. Len(R) : R[i] < Ext
  <2>1. L - h \in r + 1 .. Len(R) /\ L - h \in 1 .. L - h /\ h + (L - h) = L /\ L \in 1 .. L
    <3>1. Len(R) = L
      BY <1>10
    <3> QED
      BY <1>4, <3>1
  <2>2. R[L - h] = list[L]
    BY <1>10, <2>1
  <2>3. list[L] < IOHole
    BY <1>1, <1>2, <1>4, <1>6, <2>1, SMTT(30)
  <2>4. R[L - h] < Ext
    BY <1>1, <1>2, <2>2, <2>3, <1>8
  <2> QED
    BY <2>1, <2>4
<1>18. \E i \in r + 1 .. Len(R) : R[i] >= Ext
  <2>1. CASE h = 0
    <3>1. r + 1 \in r + 1 .. Len(R) /\ r + 1 \in 1 .. L - h /\ h + (r + 1) = r + 1 /\ r + 1 \in 1 .. a
      <4>1. Len(R) = L
        BY <1>10
      <4> QED
        BY <1>4, <2>1, <4>1
    <3>2. R[r + 1] = n - (r + 1)
      BY <1>2, <1>10, <3>1
    <3>3. n - (r + 1) >= Ext
      BY <1>1, <1>4, <2>1, <3>1
    <3> QED
      BY <3>1, <3>2, <3>3
  <2>2. CASE h > 0
    <3>1. L \in r + 1 .. Len(R) /\ L \in L - h + 1 .. L /\ L - (L - h) = h /\ h \in 1 .. a
      <4>1. Len(R) = L
        BY <1>10
      <4> QED
        BY <1>4, <2>2, <4>1
    <3>2. R[L] = n - h
      BY <1>2, <1>10, <3>1
    <3>3. n - h >= Ext
      BY <1>1, <1>4, <2>2
    <3> QED
      BY <3>1, <3>2, <3>3
  <2> QED
    BY <1>4, <2>1, <2>2
<1> QED
  <2>1. \A i \in DOMAIN list : Free(list[i], n)
    BY <1>5, <1>8 DEF Free
  <2>2. \A i, j \in DOMAIN list : list[i] = list[j] => i = j
    BY <1>5, <1>9
  <2>3. list \in Seq(Nat)
    BY <1>2
  <2> QED
    BY <1>10, <1>13, <1>14, <1>15, <1>16, <1>17, <1>18, <2>1, <2>2, <2>3, Zenon DEF Stock, R, r

\* The tests give back what they borrowed.
LEMMA BorrowKeeps ==
  ASSUME NEW list \in Seq(Nat), NEW r \in Nat, NEW n, Stock(list, r, n), r = 0 \/ r >= 3,
         NEW order \in {<<1, 2, 3>>, <<3, 2, 1>>, <<1, 3, 2>>}
  PROVE  /\ Borrow(list, order) \in Seq(Nat) /\ Stock(Borrow(list, order), r, n)
         /\ \A i \in DOMAIN Borrow(list, order) : \E j \in DOMAIN list : Borrow(list, order)[i] = list[j]
<1> DEFINE b == Borrow(list, order)
           L == Len(list)
           P(i) == IF i <= 3 THEN order[i] ELSE i
<1>1. L \in Nat /\ DOMAIN list = 1 .. L /\ L >= r + 3
  BY DEF Stock
<1>2. \A i \in 1 .. L : P(i) \in 1 .. L /\ P(P(i)) = i /\ (i > r => P(i) > r) /\ (i <= r => P(i) <= r)
  <2>1. /\ order[1] \in 1 .. 3 /\ order[2] \in 1 .. 3 /\ order[3] \in 1 .. 3
        /\ order[order[1]] = 1 /\ order[order[2]] = 2 /\ order[order[3]] = 3
    OBVIOUS
  <2>2. \A i \in 1 .. 3 : order[i] \in 1 .. 3 /\ order[order[i]] = i
    BY <2>1
  <2>3. \A i \in 1 .. L : IF i <= 3 THEN P(i) \in 1 .. 3 /\ P(P(i)) = i ELSE P(i) = i
    BY <1>1, <2>2, SMTT(30)
  <2> HIDE DEF P, L
  <2> QED
    BY <1>1, <2>3, SMTT(30)
<1>3. b = [i \in 1 .. L |-> list[P(i)]]
  BY <1>1 DEF Borrow
<1> HIDE DEF P, b, L
<1>4. b \in [1 .. L -> Nat] /\ \A i \in 1 .. L : b[i] = list[P(i)]
  BY <1>1, <1>2, <1>3, SMTT(30)
<1>5. b \in Seq(Nat) /\ Len(b) = L /\ DOMAIN b = 1 .. L
  BY <1>1, <1>4
<1>6. \A i \in DOMAIN b : Free(b[i], n)
  BY <1>1, <1>2, <1>4, <1>5 DEF Stock
<1>7. \A i, j \in DOMAIN b : b[i] = b[j] => i = j
  BY <1>1, <1>2, <1>4, <1>5 DEF Stock
<1>8. \A i \in 1 .. r : Low(b[i])
  <2>1. \A i \in 1 .. r : i \in 1 .. L /\ P(i) \in 1 .. r
    BY <1>1, <1>2
  <2>2. \A i \in 1 .. r : Low(list[i])
    BY DEF Stock
  <2> QED
    BY <1>4, <2>1, <2>2
<1>9. \A i \in r + 1 .. L : P(i) \in r + 1 .. L /\ b[P(i)] = list[i]
  <2>1. \A i \in r + 1 .. L : i \in 1 .. L /\ i > r
    BY <1>1
  <2>2. \A i \in 1 .. L : i > r => i \in r + 1 .. L
    BY <1>1
  <2> QED
    BY <1>2, <1>4, <2>1, <2>2
<1>10. \E i \in r + 1 .. Len(b) : b[i] < Ext
  BY <1>5, <1>9 DEF Stock, L
<1>11. \E i \in r + 1 .. Len(b) : b[i] >= Ext
  BY <1>5, <1>9 DEF Stock, L
<1>12. r + 3 <= Len(b)
  BY <1>1, <1>5
<1>13. Stock(b, r, n)
  BY <1>6, <1>7, <1>8, <1>10, <1>11, <1>12, Zenon DEF Stock
<1>14. \A i \in DOMAIN b : \E j \in DOMAIN list : b[i] = list[j]
  BY <1>1, <1>2, <1>4, <1>5
<1> QED
  BY <1>5, <1>13, <1>14 DEF b

\* A list without its first k elements.
LEMMA Suffix ==
  ASSUME NEW list \in Seq(Nat), NEW k \in Nat, k <= Len(list)
  PROVE  /\ SubSeq(list, k + 1, Len(list)) \in Seq(Nat)
         /\ Len(SubSeq(list, k + 1, Len(list))) = Len(list) - k
         /\ DOMAIN SubSeq(list, k + 1, Len(list)) = 1 .. Len(list) - k
         /\ \A i \in 1 .. Len(list) - k : SubSeq(list, k + 1, Len(list))[i] = list[k + i]
<1>1. Len(list) \in Nat
  OBVIOUS
<1>2. SubSeq(list, k + 1, Len(list)) = [i \in 1 .. Len(list) - k |-> list[k + i]]
  OBVIOUS
<1>3. [i \in 1 .. Len(list) - k |-> list[k + i]] \in [1 .. Len(list) - k -> Nat]
  BY <1>1
<1> QED
  BY <1>1, <1>2, <1>3

\* pgdir_walk takes pages from the front.
LEMMA TakeKeeps ==
  ASSUME NEW list \in Seq(Nat), NEW r \in Nat, NEW n, Stock(list, r, n), NEW k \in Nat, k <= r
  PROVE  LET rest == SubSeq(list, k + 1, Len(list))
         IN  /\ rest \in Seq(Nat) /\ Stock(rest, r - k, n) /\ k <= Len(list)
             /\ \A i \in DOMAIN rest : \E j \in DOMAIN list : rest[i] = list[j] /\ j > k
<1> DEFINE L == Len(list)
           rest == SubSeq(list, k + 1, Len(list))
<1>1. L \in Nat /\ DOMAIN list = 1 .. L /\ L >= r + 3
  BY DEF Stock
<1>2. /\ rest \in Seq(Nat) /\ Len(rest) = L - k /\ DOMAIN rest = 1 .. L - k
      /\ \A i \in 1 .. L - k : rest[i] = list[k + i]
  <2>1. k <= Len(list)
    BY <1>1
  <2> QED
    BY <2>1, Suffix
<1>3. \A i \in 1 .. L - k : k + i \in 1 .. L /\ k + i > k
  BY <1>1
<1> HIDE DEF L, rest
<1>4. \A i \in DOMAIN rest : Free(rest[i], n)
  BY <1>1, <1>2, <1>3 DEF Stock
<1>5. \A i, j \in DOMAIN rest : rest[i] = rest[j] => i = j
  <2> SUFFICES ASSUME NEW i \in 1 .. L - k, NEW j \in 1 .. L - k, rest[i] = rest[j] PROVE i = j
    BY <1>2
  <2>1. list[k + i] = list[k + j]
    BY <1>2
  <2>2. k + i \in DOMAIN list /\ k + j \in DOMAIN list
    BY <1>1, <1>3
  <2>3. k + i = k + j
    BY <2>1, <2>2 DEF Stock
  <2>4. i \in Int /\ j \in Int
    BY <1>1
  <2> QED
    BY <2>3, <2>4
<1>6. \A i \in 1 .. r - k : Low(rest[i])
  <2>1. \A i \in 1 .. r - k : i \in 1 .. L - k /\ k + i \in 1 .. r
    BY <1>1
  <2>2. \A i \in 1 .. r : Low(list[i])
    BY DEF Stock
  <2> QED
    BY <1>2, <2>1, <2>2
<1>7. \A i \in r + 1 .. L : i - k \in (r - k) + 1 .. L - k /\ rest[i - k] = list[i]
  <2>1. \A i \in r + 1 .. L : i - k \in (r - k) + 1 .. L - k /\ i - k \in 1 .. L - k /\ k + (i - k) = i
    BY <1>1
  <2> QED
    BY <1>2, <2>1
<1>8. \E i \in (r - k) + 1 .. Len(rest) : rest[i] < Ext
  BY <1>2, <1>7 DEF Stock, L
<1>9. \E i \in (r - k) + 1 .. Len(rest) : rest[i] >= Ext
  BY <1>2, <1>7 DEF Stock, L
<1>10. (r - k) + 3 <= Len(rest)
  BY <1>1, <1>2
<1>11. Stock(rest, r - k, n)
  BY <1>4, <1>5, <1>6, <1>8, <1>9, <1>10, Zenon DEF Stock
<1>12. \A i \in DOMAIN rest : \E j \in DOMAIN list : rest[i] = list[j] /\ j > k
  BY <1>1, <1>2, <1>3
<1>13. k <= Len(list)
  BY <1>1 DEF L
<1> QED
  BY <1>2, <1>11, <1>12, <1>13 DEF rest

-----------------------------------------------------------------------------
(* mem_init, up to the free list.                                            *)

\* The fields of the memory.
LEMMA Fields ==
  ASSUME m \in Memory
  PROVE  /\ m.npages \in Nat /\ m.nextfree \in Nat /\ m.kern_pgdir \in Nat /\ m.pages \in Nat /\ m.envs \in Nat
         /\ m.page_free_list \in Seq(Nat) /\ m.tables \in [Dir -> Int] /\ m.pte \in [VPage -> Entry] /\ m.base \in Nat
BY DEF Memory

\* entry_pgdir maps the first 4 MB.
LEMMA EntryReach ==
  ASSUME PhaseInv, phase \notin Installed, NEW pages, \A p \in pages : p \in Nat /\ Low(p)
  PROVE  Reach(pages)
<1>1. cr3 = "entry"
  BY DEF PhaseInv
<1> SUFFICES ASSUME NEW p \in pages PROVE Translate(p).pp = p /\ Translate(p).w
  BY DEF Reach
<1>2. p \in 0 .. NPT - 1
  BY Constants DEF Low
<1>3. Translate(p) = [pp |-> p, u |-> FALSE, w |-> TRUE]
  BY <1>1, <1>2 DEF Translate, entry_pgtable
<1> QED
  BY <1>3

\* A statement whose pages are mapped.
LEMMA Done ==
  ASSUME NEW here, NEW pages, NEW new, NEW next, Do(here, pages, new, next), Reach(pages)
  PROVE  phase = here /\ m' = new /\ phase' = next /\ cr3' = cr3 /\ region' = region
BY DEF Do

\* What the statements up to page_init have in common.
LEMMA EarlyKeeps ==
  ASSUME MemInv, phase \in Allocating, phase' \in Unlisted, cr3' = cr3, region' = region,
         m'.page_free_list = m.page_free_list, m'.pte = m.pte, m'.base = m.base
  PROVE  PhaseInv' /\ ListInv' /\ PteInv' /\ BaseInv'
<1>1. region = 0
  BY DEF MemInv, PhaseInv, Unbased, Unmapped, Untested, Unlisted
<1>2. PhaseInv'
  BY <1>1 DEF MemInv, PhaseInv, Phase, Installed, Unbased, Unmapped, Untested, Unlisted, Allocating
<1>3. ListInv'
  <2>1. m.page_free_list = << >>
    BY DEF MemInv, ListInv, Unlisted
  <2>2. phase' \in Untested /\ phase' # "check_page_free_list(1)"
    BY DEF Untested, Unlisted, Allocating
  <2> QED
    BY <2>1, <2>2 DEF ListInv
<1>4. PteInv'
  BY <1>1, Constants DEF MemInv, PteInv, UserInv, ArrayInv, KernInv, KstackInv, GapInv
<1>5. BaseInv'
  BY DEF MemInv, BaseInv, Unmapped, Untested, Unlisted, Allocating, Installed
<1> QED
  BY <1>2, <1>3, <1>4, <1>5

\* i386_detect_memory: m.npages is a size of memory.
LEMMA DetectKeeps ==
  ASSUME MemInv, i386_detect_memory
  PROVE  MemInv'
<1>1. PICK x \in ExtMem :
        Do("i386_detect_memory", {}, [m EXCEPT !.npages = IF x # 0 THEN Ext + x ELSE IOHole], "kern_pgdir")
  BY DEF i386_detect_memory
<1> DEFINE n == IF x # 0 THEN Ext + x ELSE IOHole
<1>2. Reach({})
  BY DEF Reach
<1>3. /\ phase = "i386_detect_memory" /\ phase' = "kern_pgdir" /\ cr3' = cr3 /\ region' = region
      /\ m' = [m EXCEPT !.npages = n]
  BY <1>1, <1>2, Done
<1>4. n \in Nat /\ Size(n)
  <2>1. m.nextfree \in Ends
    BY <1>3 DEF MemInv, AllocInv
  <2>2. Size(Ext + x) /\ x \in Nat
    BY SizeAssumption DEF Size
  <2> DEFINE k == Ext + x
  <2>3. KernTables + 4 < k - FirstFree /\ Ext < m.nextfree /\ k \in Nat /\ m.nextfree \in Nat
        /\ m.nextfree + 1 + Up(k, PerPage) + EnvPages <= FirstFree /\ Up(k, PerPage) \in Nat
    <3>1. Size(k)
      BY <2>2
    <3> HIDE DEF k
    <3> QED
      BY <2>1, <3>1, Machine
  <2>4. x # 0
    BY <2>2, <2>3, Constants
  <2> QED
    BY <2>2, <2>4, Constants
<1> HIDE DEF n
<1>5. m \in Memory
  BY DEF MemInv
<1>6. m' \in Memory
  BY <1>3, <1>4, <1>5 DEF Memory
<1>7. /\ m'.npages = n /\ m'.nextfree = m.nextfree /\ m'.kern_pgdir = m.kern_pgdir /\ m'.pages = m.pages
      /\ m'.envs = m.envs /\ m'.page_free_list = m.page_free_list /\ m'.tables = m.tables /\ m'.pte = m.pte
      /\ m'.base = m.base
  BY <1>3, <1>5 DEF Memory
<1>8. PhaseInv' /\ ListInv' /\ PteInv' /\ BaseInv'
  BY <1>3, <1>7, EarlyKeeps DEF Unlisted, Allocating
<1>9. AllocInv'
  BY <1>3, <1>4, <1>7 DEF MemInv, AllocInv, Allocating, Phase, Installed, Unbased, Unmapped, Untested, Unlisted
<1>10. TablesInv'
  <2>1. Present' = Present
    BY <1>3 DEF Present, Unmapped, Untested, Unlisted, Allocating
  <2> QED
    BY <1>7, <2>1 DEF MemInv, TablesInv
<1> QED
  BY <1>6, <1>8, <1>9, <1>10 DEF MemInv

\* The directory is the page behind the kernel, and its own page table at UVPT.
LEMMA KernPgdirKeeps ==
  ASSUME MemInv, KernPgdir
  PROVE  MemInv'
<1> USE Constants
<1>1. phase = "kern_pgdir" /\ region = 0
  BY DEF KernPgdir, Do, MemInv, PhaseInv, Unbased, Unmapped, Untested, Unlisted, Allocating
<1>2. m \in Memory /\ m.nextfree \in Ends /\ Size(m.npages)
  BY <1>1 DEF MemInv, AllocInv
<1>3. m.nextfree \in Nat /\ Low(m.nextfree)
  <2>1. /\ m.nextfree \in Nat /\ m.nextfree + 1 + Up(m.npages, PerPage) + EnvPages <= FirstFree
        /\ KernTables + 4 <= NPT - FirstFree /\ Up(m.npages, PerPage) \in Nat
    BY <1>2, Machine
  <2> QED
    BY <2>1 DEF Low
<1>4. Reach({m.nextfree})
  BY <1>1, <1>3, EntryReach DEF MemInv, Installed
<1> DEFINE e == m.nextfree
           f == m.nextfree + 1
<1>5. /\ phase' = "pages" /\ cr3' = cr3 /\ region' = region
      /\ m' = [m EXCEPT !.kern_pgdir = e, !.nextfree = f, !.tables[2] = e]
  BY <1>4, Done, Pdxs DEF KernPgdir, boot_alloc
<1>6. 2 \in Dir
  BY Layout
<1>7. m' \in Memory
  <2>1. e \in Nat /\ f \in Nat /\ e \in Int /\ m.tables \in [Dir -> Int]
    BY <1>2, <1>3, Fields
  <2> HIDE DEF e, f
  <2>2. [m.tables EXCEPT ![2] = e] \in [Dir -> Int]
    BY <2>1
  <2> QED
    BY <1>2, <1>5, <2>1, <2>2 DEF Memory
<1>8. /\ m'.npages = m.npages /\ m'.nextfree = f /\ m'.kern_pgdir = e /\ m'.page_free_list = m.page_free_list
      /\ m'.tables = [m.tables EXCEPT ![2] = e] /\ m'.pte = m.pte /\ m'.base = m.base
  BY <1>2, <1>5 DEF Memory
<1>9. PhaseInv' /\ ListInv' /\ PteInv' /\ BaseInv'
  BY <1>1, <1>5, <1>8, EarlyKeeps DEF Unlisted, Allocating
<1>10. m.tables \in [Dir -> Int]
  BY <1>2, Fields
<1>11. m'.tables[2] = e /\ \A d \in Dir : d # 2 => m'.tables[d] = m.tables[d]
  BY <1>6, <1>8, <1>10
<1>12. AllocInv'
  BY <1>2, <1>5, <1>8, <1>11 DEF AllocInv, Allocating, Phase
<1>13. TablesInv'
  <2>1. Present = {} /\ Present' = {2}
    BY <1>1, <1>5 DEF Present, Unmapped, Untested, Unlisted, Allocating
  <2> QED
    BY <1>3, <1>11, <2>1 DEF MemInv, TablesInv
<1> QED
  BY <1>7, <1>9, <1>12, <1>13 DEF MemInv

\* The array pages is behind the directory, and the array envs behind that.
LEMMA ArraysKeep ==
  ASSUME MemInv, Pages \/ Envs
  PROVE  MemInv'
<1> USE Constants
<1>1. Reach({})
  BY DEF Reach
<1>2. phase \in {"pages", "envs"} /\ m \in Memory
  BY DEF Pages, Envs, Do, MemInv
<1>3. m.nextfree \in Nat /\ Up(m.npages, PerPage) \in Nat /\ Size(m.npages)
  <2>1. m.kern_pgdir \in Ends /\ Size(m.npages)
    BY <1>2 DEF MemInv, AllocInv
  <2> QED
    BY <1>2, <2>1, Fields, Machine
<1> DEFINE f == m.nextfree
           g == m.nextfree + (IF phase = "pages" THEN Up(m.npages, PerPage) ELSE EnvPages)
<1>4. f \in Nat /\ g \in Nat
  BY <1>3
<1>5. /\ cr3' = cr3 /\ region' = region
      /\ \/ phase = "pages" /\ phase' = "envs" /\ m' = [m EXCEPT !.pages = f, !.nextfree = g]
         \/ phase = "envs" /\ phase' = "page_init" /\ m' = [m EXCEPT !.envs = f, !.nextfree = g]
  <2>1. CASE Pages
    <3> DEFINE u == Up(m.npages, PerPage)
               s == [m EXCEPT !.pages = m.nextfree, !.nextfree = m.nextfree + u]
    <3>1. Do("pages", {}, s, "envs")
      BY <2>1 DEF Pages, boot_alloc
    <3> HIDE DEF s
    <3>2. phase = "pages" /\ m' = s /\ phase' = "envs" /\ cr3' = cr3 /\ region' = region
      BY <1>1, <3>1, Done
    <3> QED
      BY <3>2 DEF s
  <2>2. CASE Envs
    <3> DEFINE s == [m EXCEPT !.envs = m.nextfree, !.nextfree = m.nextfree + EnvPages]
    <3>1. Do("envs", {}, s, "page_init")
      BY <2>2 DEF Envs, boot_alloc
    <3> HIDE DEF s
    <3>2. phase = "envs" /\ m' = s /\ phase' = "page_init" /\ cr3' = cr3 /\ region' = region
      BY <1>1, <3>1, Done
    <3> QED
      BY <3>2 DEF s
  <2> QED
    BY <2>1, <2>2
<1> HIDE DEF f, g
<1>6. m' \in Memory
  BY <1>2, <1>4, <1>5 DEF Memory
<1>7. /\ m'.npages = m.npages /\ m'.kern_pgdir = m.kern_pgdir /\ m'.nextfree = g
      /\ m'.page_free_list = m.page_free_list /\ m'.tables = m.tables /\ m'.pte = m.pte /\ m'.base = m.base
      /\ m'.pages = (IF phase = "pages" THEN f ELSE m.pages) /\ m'.envs = (IF phase = "envs" THEN f ELSE m.envs)
  BY <1>2, <1>5 DEF Memory
<1>8. PhaseInv' /\ ListInv' /\ PteInv' /\ BaseInv'
  BY <1>2, <1>5, <1>7, EarlyKeeps DEF Unlisted, Allocating
<1>9. AllocInv'
  <2>1. phase \in Phase
    BY DEF MemInv, PhaseInv
  <2>2. CASE phase = "pages"
    BY <1>3, <1>5, <1>7, <2>1, <2>2 DEF f, g, MemInv, AllocInv, Allocating, Phase, Unbased, Unmapped, Untested, Unlisted
  <2>3. CASE phase = "envs"
    BY <1>3, <1>5, <1>7, <2>1, <2>3 DEF f, g, MemInv, AllocInv, Allocating, Phase, Unbased, Unmapped, Untested, Unlisted
  <2> QED
    BY <1>2, <2>2, <2>3
<1>10. TablesInv'
  <2>1. Present' = Present
    BY <1>5 DEF Present, Unmapped, Untested, Unlisted, Allocating
  <2> QED
    BY <1>7, <2>1 DEF MemInv, TablesInv
<1> QED
  BY <1>6, <1>8, <1>9, <1>10 DEF MemInv

-----------------------------------------------------------------------------
(* The free list, and the checks that borrow from it.                        *)

\* Where boot_alloc put the arrays.
LEMMA Arrays ==
  ASSUME MemInv, phase \notin Allocating
  PROVE  /\ m.kern_pgdir \in Ends /\ Size(m.npages)
         /\ m.kern_pgdir \in Nat /\ m.npages \in Nat /\ m.pages \in Nat /\ m.envs \in Nat /\ m.nextfree \in Nat
         /\ m.tables[2] = m.kern_pgdir
         /\ Ext < m.kern_pgdir /\ m.pages = m.kern_pgdir + 1 /\ m.pages < m.envs
         /\ m.envs = m.pages + Up(m.npages, PerPage) /\ m.nextfree = m.envs + EnvPages
         /\ m.nextfree <= FirstFree /\ FirstFree < NPT /\ FirstFree < m.npages
         /\ m.npages <= KernTables * NPT
         /\ 0 < MPEntry /\ MPEntry < IOHole /\ IOHole < Ext
<1> USE Constants
<1>1. m.kern_pgdir \in Ends /\ Size(m.npages) /\ m.tables[2] = m.kern_pgdir
  BY DEF MemInv, AllocInv, Allocating
<1>2. phase \in Phase \ {"i386_detect_memory", "kern_pgdir", "pages"} /\ phase \in Phase
  BY DEF MemInv, PhaseInv, Allocating
<1>3. /\ m.pages = m.kern_pgdir + 1
      /\ m.envs = m.pages + Up(m.npages, PerPage) /\ m.nextfree = m.envs + EnvPages
  BY <1>2 DEF MemInv, AllocInv
<1>4. /\ m.kern_pgdir \in Nat /\ m.npages \in Nat /\ Ext <= m.npages
      /\ 0 < MPEntry /\ MPEntry < IOHole /\ 2 < IOHole /\ IOHole < Ext
      /\ Ext < m.kern_pgdir /\ m.kern_pgdir + 1 + Up(m.npages, PerPage) + EnvPages <= FirstFree
      /\ Up(m.npages, PerPage) \in Nat /\ Up(m.npages, PerPage) > 0
      /\ m.npages <= KernTables * NPT
      /\ KernTables + 4 <= NPT - FirstFree /\ KernTables + 4 < m.npages - FirstFree
  BY <1>1, Machine
<1> QED
  BY <1>1, <1>3, <1>4

\* The pages of the array pages, which page_init and the checks write to.
LEMMA ArrayLow ==
  ASSUME MemInv, phase \notin Allocating, NEW p \in m.pages .. m.envs - 1
  PROVE  p \in Nat /\ Low(p) /\ p < m.npages
<1>1. /\ m.pages \in Nat /\ m.envs \in Nat /\ m.nextfree = m.envs + EnvPages
      /\ m.nextfree <= FirstFree /\ FirstFree < NPT /\ FirstFree < m.npages /\ m.npages \in Nat
  BY Arrays
<1> QED
  BY <1>1, Constants DEF Low

\* kern_pgdir maps all of memory at KERNBASE.
LEMMA KernReach ==
  ASSUME MemInv, phase \in Installed, NEW pages, \A p \in pages : p \in Nat /\ p < m.npages
  PROVE  Reach(pages)
<1> USE Constants
<1>1. cr3 = "kern" /\ region = Regions /\ phase \notin Allocating
  BY DEF MemInv, PhaseInv, Installed, Allocating, Unbased, Unmapped, Untested, Unlisted
<1>2. region >= 4
  BY <1>1 DEF Regions
<1>3. m.npages \in Nat /\ m.npages <= KernTables * NPT /\ KernTables * NPT \in Nat
  BY <1>1, Arrays, Layout
<1> SUFFICES ASSUME NEW p \in pages PROVE Translate(p).pp = p /\ Translate(p).w
  BY DEF Reach
<1>4. p \in 0 .. KernTables * NPT - 1
  BY <1>3
<1>5. m.pte[KERNBASE + p] = [pp |-> p, u |-> FALSE, w |-> TRUE]
  BY <1>2, <1>4, Zenon DEF MemInv, PteInv, KernInv
<1>6. Translate(p) = [pp |-> p, u |-> FALSE, w |-> TRUE]
  BY <1>1, <1>5 DEF Translate
<1> QED
  BY <1>6

\* While the directory is the only page table, free pages hold none.
LEMMA NoTableFree ==
  ASSUME MemInv, phase \in Unmapped \ Allocating, NEW l, \A i \in DOMAIN l : Free(l[i], m.npages)
  PROVE  \A d \in Dir, i \in DOMAIN l : m.tables[d] # l[i]
<1> USE Constants
<1>1. /\ m.tables[2] = m.kern_pgdir /\ m.kern_pgdir \in Nat /\ IOHole < Ext /\ Ext < m.kern_pgdir
      /\ m.pages = m.kern_pgdir + 1 /\ m.pages < m.envs /\ m.nextfree = m.envs + EnvPages
      /\ m.nextfree <= FirstFree /\ m.envs \in Nat /\ m.npages \in Nat
  BY Arrays
<1>2. IOHole <= m.kern_pgdir /\ m.kern_pgdir < FirstFree
  BY <1>1
<1>3. region = 0
  BY DEF MemInv, PhaseInv, Unbased
<1>4. Present = {2}
  BY <1>3 DEF Present, Unmapped, Untested, Unlisted, Allocating
<1>5. \A d \in Dir : d # 2 => m.tables[d] = -1
  BY <1>4 DEF MemInv, TablesInv, NoTable
<1> SUFFICES ASSUME NEW d \in Dir, NEW i \in DOMAIN l PROVE m.tables[d] # l[i]
  OBVIOUS
<1>6. l[i] \in 1 .. m.npages - 1 /\ (l[i] < IOHole \/ l[i] >= FirstFree)
  BY DEF Free
<1> QED
  BY <1>1, <1>2, <1>5, <1>6

\* After boot_alloc's calls nothing of the kind changes.
LEMMA AllocStays ==
  ASSUME MemInv, phase \notin Allocating, phase' \notin Allocating, m'.tables[2] = m.tables[2],
         m'.npages = m.npages, m'.nextfree = m.nextfree, m'.kern_pgdir = m.kern_pgdir, m'.pages = m.pages, m'.envs = m.envs
  PROVE  AllocInv'
<1>1. phase' \notin {"i386_detect_memory", "kern_pgdir", "pages", "envs"}
  BY DEF Allocating
<1>2. /\ m.kern_pgdir \in Ends /\ Size(m.npages) /\ m.tables[2] = m.kern_pgdir /\ m.pages = m.kern_pgdir + 1
      /\ m.envs = m.pages + Up(m.npages, PerPage) /\ m.nextfree = m.envs + EnvPages
  BY Arrays
<1> QED
  BY <1>1, <1>2 DEF AllocInv

\* A statement that changes the free list and nothing else.
LEMMA ListStep ==
  ASSUME MemInv, NEW l \in Seq(Nat), m' = [m EXCEPT !.page_free_list = l], region' = region, cr3' = cr3,
         phase' \in Phase,
         \/ phase \in Unmapped \ Allocating /\ phase' \in Unmapped \ Unlisted
         \/ phase \in Installed /\ phase' \in Installed,
         phase' = "check_page_free_list(1)" => l = PageInitList(m.npages),
         phase' \notin Untested => Stock(l, Reserve, m.npages),
         \A d \in Dir, i \in DOMAIN l : m.tables[d] # l[i]
  PROVE  MemInv'
<1>1. m \in Memory
  BY DEF MemInv
<1>2. m' \in Memory
  BY <1>1 DEF Memory
<1>3. /\ m'.npages = m.npages /\ m'.nextfree = m.nextfree /\ m'.kern_pgdir = m.kern_pgdir /\ m'.pages = m.pages
      /\ m'.envs = m.envs /\ m'.page_free_list = l /\ m'.tables = m.tables /\ m'.pte = m.pte
      /\ m'.base = m.base
  BY <1>1 DEF Memory
<1>4. phase' \notin Unlisted /\ (phase \in Unmapped <=> phase' \in Unmapped) /\ phase \notin Allocating
  BY DEF Unmapped, Untested, Unlisted, Allocating, Installed
<1>5. PhaseInv'
  <2>1. (phase \in Installed <=> phase' \in Installed) /\ (phase \in Unbased <=> phase' \in Unbased)
        /\ phase' # "boot_map_region"
    BY DEF Unbased, Unmapped, Untested, Unlisted, Allocating, Installed
  <2>2. (phase \notin Unbased \cup {"boot_map_region"}) <=> (phase' \notin Unbased \cup {"boot_map_region"})
    BY DEF Unbased, Unmapped, Untested, Unlisted, Allocating, Installed
  <2>3. phase' # "panic"
    BY DEF Unmapped, Untested, Unlisted, Allocating, Installed
  <2> QED
    BY <2>1, <2>2, <2>3 DEF MemInv, PhaseInv
<1>6. AllocInv'
  <2>1. phase' \notin Allocating
    BY <1>4 DEF Unlisted
  <2> QED
    BY <1>3, <1>4, <2>1, AllocStays
<1>7. Present' = Present /\ Reserve' = Reserve
  BY <1>4 DEF Present, Reserve, Unlisted, Allocating
<1>8. TablesInv'
  BY <1>3, <1>7 DEF MemInv, TablesInv
<1>9. ListInv'
  BY <1>3, <1>4, <1>7 DEF ListInv
<1>10. PteInv'
  BY <1>3 DEF MemInv, PteInv, UserInv, ArrayInv, KernInv, KstackInv, GapInv
<1>11. phase' \notin Installed => BaseInv'
  <2>1. phase' \notin Installed => phase \in Unmapped /\ phase' \in Unmapped /\ phase \notin Installed
    BY DEF Unmapped, Untested, Unlisted, Allocating, Installed
  <2> QED
    BY <1>3, <2>1 DEF MemInv, BaseInv
<1> QED
  BY <1>2, <1>5, <1>6, <1>8, <1>9, <1>10, <1>11 DEF MemInv

\* page_init writes to the array pages only.
LEMMA PageInitKeeps ==
  ASSUME MemInv, page_init
  PROVE  MemInv'
<1>1. phase = "page_init" /\ phase \notin Allocating /\ phase \notin Installed
  BY DEF page_init, Do, Allocating, Installed
<1>2. Reach(m.pages .. m.envs - 1)
  <2>1. \A p \in m.pages .. m.envs - 1 : p \in Nat /\ Low(p)
    BY <1>1, ArrayLow
  <2> QED
    BY <1>1, <2>1, EntryReach DEF MemInv
<1> DEFINE l == PageInitList(m.npages)
<1>3. /\ m' = [m EXCEPT !.page_free_list = l] /\ phase' = "check_page_free_list(1)"
      /\ cr3' = cr3 /\ region' = region
  BY <1>2, Done DEF page_init
<1>4. m.kern_pgdir \in Ends /\ Size(m.npages)
  BY <1>1, Arrays
<1>5. l \in Seq(Nat) /\ \A i \in DOMAIN l : Free(l[i], m.npages)
  BY <1>4, StockInit
<1>6. phase \in Unmapped \ Allocating /\ phase' \in Unmapped \ Unlisted /\ phase' \in Phase /\ phase' \in Untested
  BY <1>1, <1>3 DEF Phase, Unbased, Unmapped, Untested, Unlisted, Allocating
<1>7. \A d \in Dir, i \in DOMAIN l : m.tables[d] # l[i]
  BY <1>5, <1>6, NoTableFree
<1>8. l = PageInitList(m.npages)
  OBVIOUS
<1> HIDE DEF l
<1> QED
  BY <1>3, <1>5, <1>6, <1>7, <1>8, ListStep

\* The assertions of check_page_free_list hold for a list that is stocked.
LEMMA StockOk ==
  ASSUME MemInv, phase \notin Allocating, NEW l \in Seq(Nat), NEW r \in Nat, Stock(l, r, m.npages)
  PROVE  ListOk(l)
<1> USE Constants
<1>1. /\ m.nextfree \in Nat /\ m.npages \in Nat /\ m.nextfree <= FirstFree
      /\ Ext < m.kern_pgdir /\ m.pages = m.kern_pgdir + 1 /\ m.pages < m.envs /\ m.nextfree = m.envs + EnvPages
      /\ m.kern_pgdir \in Nat /\ m.pages \in Nat /\ m.envs \in Nat
      /\ 0 < MPEntry /\ MPEntry < IOHole /\ IOHole < Ext
  BY Arrays
<1>2. Ext < FirstFree
  BY <1>1
<1>3. Len(l) \in Nat /\ DOMAIN l = 1 .. Len(l) /\ r + 1 .. Len(l) \subseteq DOMAIN l
  OBVIOUS
<1>4. ASSUME NEW i \in DOMAIN l
      PROVE  /\ l[i] \in 1 .. m.npages - 1
             /\ l[i] \notin {IOHole, Ext - 1, Ext, MPEntry}
             /\ l[i] >= Ext => l[i] >= m.nextfree
  <2>1. l[i] \in 1 .. m.npages - 1 /\ l[i] # MPEntry /\ (l[i] < IOHole \/ l[i] >= FirstFree)
    BY DEF Stock, Free
  <2> DEFINE p == l[i]
  <2>2. p \in 1 .. m.npages - 1 /\ p # MPEntry /\ (p < IOHole \/ p >= FirstFree)
    BY <2>1
  <2> HIDE DEF p
  <2>3. p \notin {IOHole, Ext - 1, Ext, MPEntry} /\ (p >= Ext => p >= m.nextfree)
    BY <1>1, <1>2, <2>2, SMTT(30)
  <2> QED
    BY <2>1, <2>3 DEF p
<1>5. \E i \in DOMAIN l : l[i] < Ext
  BY <1>3 DEF Stock
<1>6. \E i \in DOMAIN l : l[i] >= Ext
  BY <1>3 DEF Stock
<1> QED
  BY <1>4, <1>5, <1>6 DEF ListOk

\* What is on a stocked list.
LEMMA StockFree ==
  ASSUME NEW l, NEW r, NEW n \in Nat, Stock(l, r, n), NEW p \in ToSet(l)
  PROVE  p \in Nat /\ p < n
<1>1. PICK i \in DOMAIN l : p = l[i]
  BY DEF ToSet
<1>2. p \in 1 .. n - 1
  BY <1>1 DEF Stock, Free
<1> QED
  BY <1>2

\* check_page_free_list(1), which puts the low pages in front and poisons them.
LEMMA CheckLowKeeps ==
  ASSUME MemInv, check_page_free_list(TRUE, "check_page_free_list(1)", "check_page_alloc")
  PROVE  MemInv'
<1> USE Constants
<1> DEFINE l == LowFirst(m.page_free_list)
           pages == {p \in ToSet(l) : TRUE => Low(p)} \cup (m.pages .. m.envs - 1)
<1>1. phase = "check_page_free_list(1)" /\ phase \notin Allocating /\ phase \notin Installed
  BY DEF check_page_free_list, Do, Allocating, Installed
<1>2. m.kern_pgdir \in Ends /\ Size(m.npages) /\ m.npages \in Nat
  BY <1>1, Arrays
<1>3. m.page_free_list = PageInitList(m.npages)
  BY <1>1 DEF MemInv, ListInv
<1>4. l \in Seq(Nat) /\ Stock(l, KernTables + 4, m.npages)
  BY <1>2, <1>3, StockInit
<1>5. ListOk(l)
  <2>1. KernTables + 4 \in Nat
    OBVIOUS
  <2> QED
    BY <1>1, <1>4, <2>1, StockOk
<1>6. Do("check_page_free_list(1)", pages, [m EXCEPT !.page_free_list = l], "check_page_alloc")
  BY <1>5 DEF check_page_free_list
<1>7. Reach(pages)
  <2>1. \A p \in pages : p \in Nat /\ Low(p)
    <3>1. \A p \in m.pages .. m.envs - 1 : p \in Nat /\ Low(p)
      BY <1>1, ArrayLow
    <3>2. \A p \in ToSet(l) : p \in Nat
      BY <1>2, <1>4, StockFree
    <3> QED
      BY <3>1, <3>2
  <2> QED
    BY <1>1, <2>1, EntryReach DEF MemInv
<1> HIDE DEF l, pages
<1>8. /\ m' = [m EXCEPT !.page_free_list = l] /\ phase' = "check_page_alloc"
      /\ cr3' = cr3 /\ region' = region
  BY <1>6, <1>7, Done
<1>9. phase \in Unmapped \ Allocating /\ phase' \in Unmapped \ Unlisted /\ phase' \in Phase
  BY <1>1, <1>8 DEF Phase, Unbased, Unmapped, Untested, Unlisted, Allocating
<1>10. \A d \in Dir, i \in DOMAIN l : m.tables[d] # l[i]
  <2>1. \A i \in DOMAIN l : Free(l[i], m.npages)
    BY <1>4 DEF Stock
  <2> QED
    BY <1>9, <2>1, NoTableFree
<1>11. Reserve = KernTables + 4
  BY <1>9 DEF Reserve
<1>12. phase' # "check_page_free_list(1)" /\ Stock(l, Reserve, m.npages)
  BY <1>4, <1>8, <1>11
<1> QED
  BY <1>4, <1>8, <1>9, <1>10, <1>12, ListStep

\* check_page_free_list(0), which poisons all of the list, in kern_pgdir.
LEMMA CheckAllKeeps ==
  ASSUME MemInv, check_page_free_list(FALSE, "check_page_free_list(0)", "check_page_installed_pgdir")
  PROVE  MemInv'
<1> USE Constants
<1> DEFINE l == m.page_free_list
           pages == {p \in ToSet(l) : FALSE => Low(p)} \cup (m.pages .. m.envs - 1)
<1>1. phase = "check_page_free_list(0)" /\ phase \notin Allocating /\ phase \in Installed /\ phase \notin Untested
      /\ phase \notin Unmapped /\ phase \notin Unbased \cup {"boot_map_region"}
  BY DEF check_page_free_list, Do, Allocating, Installed, Untested, Unlisted, Unmapped, Unbased
<1>2. m.npages \in Nat /\ l \in Seq(Nat)
  BY <1>1, Arrays, Fields DEF MemInv
<1>3. Stock(l, Reserve, m.npages) /\ \A d \in Dir, i \in DOMAIN l : m.tables[d] # l[i]
  BY <1>1 DEF MemInv, ListInv
<1>4. Reserve \in Nat
  BY <1>1 DEF MemInv, PhaseInv, Reserve, Regions
<1>5. ListOk(l)
  BY <1>1, <1>2, <1>3, <1>4, StockOk
<1>6. Do("check_page_free_list(0)", pages, [m EXCEPT !.page_free_list = l], "check_page_installed_pgdir")
  BY <1>5 DEF check_page_free_list
<1>7. Reach(pages)
  <2>1. \A p \in pages : p \in Nat /\ p < m.npages
    <3>1. \A p \in m.pages .. m.envs - 1 : p \in Nat /\ p < m.npages
      BY <1>1, ArrayLow
    <3>2. \A p \in ToSet(l) : p \in Nat /\ p < m.npages
      BY <1>2, <1>3, StockFree
    <3> QED
      BY <3>1, <3>2
  <2> QED
    BY <1>1, <2>1, KernReach
<1> HIDE DEF l, pages
<1>8. /\ m' = [m EXCEPT !.page_free_list = l] /\ phase' = "check_page_installed_pgdir"
      /\ cr3' = cr3 /\ region' = region
  BY <1>6, <1>7, Done
<1>9. phase' \in Installed /\ phase' \in Phase /\ phase' # "check_page_free_list(1)"
  BY <1>8 DEF Phase, Installed
<1> QED
  BY <1>1, <1>2, <1>3, <1>8, <1>9, ListStep

\* The tests that borrow three pages.
LEMMA BorrowersKeep ==
  ASSUME MemInv, check_page_alloc \/ check_page \/ check_page_installed_pgdir
  PROVE  MemInv'
<1> USE Constants
<1>1. PICK next \in Phase, order \in {<<1, 2, 3>>, <<3, 2, 1>>, <<1, 3, 2>>} :
        /\ \E here : Do(here, Borrowed, [m EXCEPT !.page_free_list = Borrow(@, order)], next)
        /\ \/ phase \in Unmapped \ Untested /\ next \in Unmapped \ Untested
           \/ phase \in Installed /\ next \in Installed
  <2>1. CASE check_page_alloc
    <3>1. Do("check_page_alloc", Borrowed, [m EXCEPT !.page_free_list = Borrow(@, <<1, 2, 3>>)], "check_page")
      BY <2>1 DEF check_page_alloc
    <3>2. phase = "check_page_alloc" /\ "check_page" \in Phase
      BY <3>1 DEF Do, Phase, Unbased, Unmapped
    <3> QED
      BY <3>1, <3>2 DEF Unmapped, Untested, Unlisted, Allocating
  <2>2. CASE check_page
    <3>1. Do("check_page", Borrowed, [m EXCEPT !.page_free_list = Borrow(@, <<3, 2, 1>>)], "mm1")
      BY <2>2 DEF check_page
    <3>2. phase = "check_page" /\ "mm1" \in Phase
      BY <3>1 DEF Do, Phase, Unbased, Unmapped
    <3> QED
      BY <3>1, <3>2 DEF Unmapped, Untested, Unlisted, Allocating
  <2>3. CASE check_page_installed_pgdir
    <3>1. Do("check_page_installed_pgdir", Borrowed, [m EXCEPT !.page_free_list = Borrow(@, <<1, 3, 2>>)], "done")
      BY <2>3 DEF check_page_installed_pgdir
    <3>2. phase = "check_page_installed_pgdir" /\ "done" \in Phase
      BY <3>1 DEF Do, Phase, Installed
    <3> QED
      BY <3>1, <3>2 DEF Installed
  <2> QED
    BY <2>1, <2>2, <2>3
<1> DEFINE l == m.page_free_list
           b == Borrow(l, order)
<1>2. phase \notin Untested /\ phase \notin Allocating /\ next \notin Unlisted /\ next # "check_page_free_list(1)"
  BY <1>1 DEF Unmapped, Untested, Unlisted, Allocating, Installed
<1>3. Stock(l, Reserve, m.npages) /\ \A d \in Dir, i \in DOMAIN l : m.tables[d] # l[i]
  BY <1>2 DEF MemInv, ListInv
<1>4. l \in Seq(Nat) /\ m.npages \in Nat
  BY <1>2, Arrays, Fields DEF MemInv
<1>5. Reserve \in Nat /\ (Reserve = 0 \/ Reserve >= 3) /\ (phase \in Unmapped => Reserve >= 3)
  <2>1. CASE phase \in Unmapped
    BY <2>1 DEF Reserve
  <2>2. CASE phase \in Installed
    <3>1. phase \notin Unmapped /\ phase \notin Unbased \cup {"boot_map_region"}
      BY <2>2 DEF Installed, Unmapped, Unbased, Untested, Unlisted, Allocating
    <3> QED
      BY <3>1 DEF MemInv, PhaseInv, Reserve, Regions
  <2> QED
    BY <1>1, <2>1, <2>2
<1>6. /\ b \in Seq(Nat) /\ Stock(b, Reserve, m.npages)
      /\ \A i \in DOMAIN b : \E j \in DOMAIN l : b[i] = l[j]
  BY <1>3, <1>4, <1>5, BorrowKeeps, ZenonT(30)
<1>7. Reach(Borrowed)
  <2>1. Len(l) \in Nat /\ Len(l) >= 3 /\ DOMAIN l = 1 .. Len(l)
    <3>1. Reserve + 3 <= Len(l)
      BY ONLY <1>3, Zenon DEF Stock
    <3> QED
      BY ONLY <1>4, <1>5, <3>1
  <2>2. \A p \in Borrowed : \E i \in 1 .. 3 : p = l[i]
    BY DEF Borrowed
  <2>3. \A i \in 1 .. 3 : l[i] \in Nat /\ l[i] \in ToSet(l)
    <3>1. \A i \in 1 .. 3 : i \in DOMAIN l
      BY <2>1
    <3>2. \A i \in DOMAIN l : l[i] \in Nat
      BY <1>4
    <3>3. ToSet(l) = {l[i] : i \in DOMAIN l}
      BY DEF ToSet
    <3> QED
      BY ONLY <3>1, <3>2, <3>3
  <2>4. \A p \in Borrowed : p \in Nat /\ p < m.npages
    BY <1>3, <1>4, <2>2, <2>3, StockFree
  <2>5. CASE phase \in Unmapped
    <3>1. phase \notin Installed
      BY <2>5 DEF Installed, Unmapped, Untested, Unlisted, Allocating
    <3>2. \A i \in 1 .. 3 : i \in 1 .. Reserve
      BY <1>5, <2>5
    <3>3. \A p \in Borrowed : Low(p)
      BY <1>3, <2>2, <3>2 DEF Stock
    <3> QED
      BY <2>4, <3>1, <3>3, EntryReach DEF MemInv
  <2>6. CASE phase \in Installed
    BY <2>4, <2>6, KernReach
  <2> QED
    BY <1>1, <2>5, <2>6
<1>8. PICK here : Do(here, Borrowed, [m EXCEPT !.page_free_list = Borrow(@, order)], next)
  BY <1>1
<1>9. Do(here, Borrowed, [m EXCEPT !.page_free_list = b], next)
  BY <1>8
<1>10. \A d \in Dir, i \in DOMAIN b : m.tables[d] # b[i]
  BY <1>3, <1>6
<1> HIDE DEF l, b
<1>11. m' = [m EXCEPT !.page_free_list = b] /\ phase' = next /\ cr3' = cr3 /\ region' = region
  BY <1>7, <1>9, Done
<1>12. \/ phase \in Unmapped \ Allocating /\ phase' \in Unmapped \ Unlisted
       \/ phase \in Installed /\ phase' \in Installed
  BY <1>1, <1>2, <1>11
<1> QED
  BY <1>1, <1>2, <1>6, <1>10, <1>11, <1>12, ListStep

-----------------------------------------------------------------------------
(* Mappings.                                                                 *)

\* The stacks are in the page table below KSTACKTOP, one below the other.
LEMMA StackPlace ==
  ASSUME NEW k \in 0 .. NCPU - 1
  PROVE  /\ StackBottom(k) \in Nat /\ 4 * NPT + KSTKGAP <= StackBottom(k) /\ StackBottom(k) + KSTKSIZE <= 5 * NPT
         /\ Stack(k) = StackBottom(k) .. StackBottom(k) + KSTKSIZE - 1
         /\ \A j \in 0 .. k - 1 : StackBottom(k) + KSTKSIZE + KSTKGAP <= StackBottom(j)
<1> DEFINE s == KSTKSIZE + KSTKGAP
<1> USE Constants
<1>1. s \in Nat /\ NCPU * s <= NPT
  BY RegionAssumption
<1>2. KSTACKTOP = 5 * NPT
  BY Layout
<1>3. StackBottom(k) = 5 * NPT - k * s - KSTKSIZE /\ Stack(k) = 5 * NPT - k * s - KSTKSIZE .. 5 * NPT - k * s - 1
  BY <1>2 DEF StackBottom, Stack
<1>4. k \in Nat /\ k + 1 <= NCPU
  OBVIOUS
<1>5. \A j \in 0 .. k - 1 : StackBottom(j) = 5 * NPT - j * s - KSTKSIZE
  BY <1>2 DEF StackBottom
<1> DEFINE t == k * s
<1> HIDE DEF s
<1>6. t \in Nat /\ t + s <= NPT
  <2>1. (k + 1) * s <= NCPU * s
    BY <1>1, <1>4
  <2>2. (k + 1) * s = k * s + s
    BY <1>1, <1>4
  <2>3. k * s \in Nat
    BY <1>1, <1>4
  <2> QED
    BY <1>1, <2>1, <2>2, <2>3
<1>7. \A j \in 0 .. k - 1 : j * s \in Int /\ j * s + s <= t
  BY <1>1, <1>4
<1> HIDE DEF t
<1>8. /\ StackBottom(k) = 5 * NPT - t - KSTKSIZE /\ Stack(k) = 5 * NPT - t - KSTKSIZE .. 5 * NPT - t - 1
  BY <1>3 DEF t
<1>9. s = KSTKSIZE + KSTKGAP
  BY DEF s
<1>10. /\ StackBottom(k) \in Nat /\ 4 * NPT + KSTKGAP <= StackBottom(k) /\ StackBottom(k) + KSTKSIZE <= 5 * NPT
       /\ StackBottom(k) + KSTKSIZE - 1 = 5 * NPT - t - 1
  BY <1>6, <1>8, <1>9
<1>11. \A j \in 0 .. k - 1 : StackBottom(k) + KSTKSIZE + KSTKGAP <= StackBottom(j)
  <2> SUFFICES ASSUME NEW j \in 0 .. k - 1 PROVE StackBottom(k) + KSTKSIZE + KSTKGAP <= StackBottom(j)
    OBVIOUS
  <2> DEFINE q == j * s
  <2>1. q \in Int /\ q + s <= t /\ StackBottom(j) = 5 * NPT - q - KSTKSIZE
    BY <1>5, <1>7
  <2> HIDE DEF q
  <2> QED
    BY <1>6, <1>8, <1>9, <2>1
<1> QED
  BY <1>8, <1>10, <1>11

\* What boot_map_region does to the entries, and what it leaves alone.
IsRegion(new, va, n, pa, u, w) ==
  /\ new.npages = m.npages /\ new.nextfree = m.nextfree /\ new.kern_pgdir = m.kern_pgdir
  /\ new.pages = m.pages /\ new.envs = m.envs /\ new.base = m.base
  /\ new.page_free_list = SubSeq(m.page_free_list, Cardinality(Missing(m, va, n)) + 1, Len(m.page_free_list))
  /\ new.tables = Walked(m, va, n)
  /\ new.pte \in [VPage -> Entry]
  /\ \A v \in va .. va + n - 1 : new.pte[v] = [pp |-> pa + v - va, u |-> u, w |-> w]
  /\ \A v \in VPage \ (va .. va + n - 1) : new.pte[v] = m.pte[v]
  /\ new.page_free_list \in Seq(Nat) /\ new.tables \in [Dir -> Int] => new \in Memory

\* boot_map_region writes the entries of its region.
LEMMA RegionEntries ==
  ASSUME m \in Memory, NEW va \in Nat, NEW n \in Nat, NEW pa \in Nat, NEW u \in BOOLEAN, NEW w \in BOOLEAN,
         va .. va + n - 1 \subseteq VPage
  PROVE  IsRegion(boot_map_region(m, va, n, pa, u, w), va, n, pa, u, w)
<1> DEFINE new == boot_map_region(m, va, n, pa, u, w)
           p == [v \in DOMAIN m.pte \cup (va .. va + n - 1) |->
                   IF v \in va .. va + n - 1 THEN [pp |-> pa + v - va, u |-> u, w |-> w] ELSE m.pte[v]]
           l == SubSeq(m.page_free_list, Cardinality(Missing(m, va, n)) + 1, Len(m.page_free_list))
           t == Walked(m, va, n)
<1>1. new = [m EXCEPT !.page_free_list = l, !.tables = t, !.pte = p]
  BY DEF boot_map_region
<1>2. m.pte \in [VPage -> Entry]
  BY Fields
<1>3. DOMAIN m.pte \cup (va .. va + n - 1) = VPage
  BY <1>2
<1>4. /\ \A v \in va .. va + n - 1 : p[v] = [pp |-> pa + v - va, u |-> u, w |-> w]
      /\ \A v \in VPage \ (va .. va + n - 1) : p[v] = m.pte[v]
      /\ DOMAIN p = VPage
  BY <1>3
<1>5. p \in [VPage -> Entry]
  <2>1. \A v \in va .. va + n - 1 : pa + v - va \in Int
    OBVIOUS
  <2>2. \A v \in VPage : (IF v \in va .. va + n - 1 THEN [pp |-> pa + v - va, u |-> u, w |-> w] ELSE m.pte[v]) \in Entry
    BY <1>2, <2>1 DEF Entry
  <2> QED
    BY <1>3, <2>2
<1> HIDE DEF p, l, t, new
<1>6. /\ new.npages = m.npages /\ new.nextfree = m.nextfree /\ new.kern_pgdir = m.kern_pgdir
      /\ new.pages = m.pages /\ new.envs = m.envs /\ new.base = m.base
      /\ new.page_free_list = l /\ new.tables = t /\ new.pte = p
  BY <1>1 DEF Memory
<1>7. l \in Seq(Nat) /\ t \in [Dir -> Int] => new \in Memory
  BY <1>1, <1>5 DEF Memory
<1> QED
  BY <1>4, <1>5, <1>6, <1>7 DEF l, t, new, IsRegion

\* The free list l and the page tables t, when pages from the list became tables a .. b.
IsWalk(l, t, r, a, b) ==
  /\ l \in Seq(Nat) /\ Stock(l, r - (b - a + 1), m.npages) /\ t \in [Dir -> Int]
  /\ \A d \in Dir : IF d \in a .. b THEN t[d] \in Nat /\ Low(t[d]) ELSE t[d] = m.tables[d]
  /\ \A d \in Dir, i \in DOMAIN l : t[d] # l[i]

\* boot_map_region takes low pages, which are then no longer on the list, and writes to
\* low pages.
LEMMA RegionTables ==
  ASSUME m \in Memory, TablesInv, NEW r \in Nat, Stock(m.page_free_list, r, m.npages),
         \A d \in Dir, i \in DOMAIN m.page_free_list : m.tables[d] # m.page_free_list[i],
         NEW va, NEW n, PDX(va) .. PDX(va + n - 1) \subseteq Dir,
         NEW a \in Nat, NEW b \in Int, a <= b + 1, Missing(m, va, n) = a .. b, b - a + 1 <= r
  PROVE  /\ IsWalk(SubSeq(m.page_free_list, Cardinality(Missing(m, va, n)) + 1, Len(m.page_free_list)),
                   Walked(m, va, n), r, a, b)
         /\ \A p \in Written(m, va, n) : p \in Nat /\ Low(p)
<1> DEFINE list == m.page_free_list
           l == SubSeq(m.page_free_list, Cardinality(Missing(m, va, n)) + 1, Len(m.page_free_list))
           t == Walked(m, va, n)
           k == b - a + 1
<1> USE Constants
<1>1. k \in Nat /\ k <= r /\ r \in Nat /\ a \in Int /\ b \in Int
  OBVIOUS
<1>2. Cardinality(Missing(m, va, n)) = k
  BY Interval
<1>3. list \in Seq(Nat) /\ m.tables \in [Dir -> Int]
  BY Fields
<1>4. l = SubSeq(list, k + 1, Len(list))
  BY <1>2
<1>5. Stock(list, r, m.npages)
  OBVIOUS
<1> HIDE DEF list, k, l, t
<1>6. /\ l \in Seq(Nat) /\ Stock(l, r - k, m.npages) /\ k <= Len(list)
      /\ \A i \in DOMAIN l : \E j \in DOMAIN list : l[i] = list[j] /\ j > k
  BY ONLY <1>1, <1>3, <1>4, <1>5, TakeKeeps
<1>7. \A d \in a .. b : Cardinality({e \in a .. b : e <= d}) = d - a + 1 /\ d - a + 1 \in 1 .. k
  <2> SUFFICES ASSUME NEW d \in a .. b PROVE Cardinality({e \in a .. b : e <= d}) = d - a + 1 /\ d - a + 1 \in 1 .. k
    OBVIOUS
  <2>1. Cardinality({e \in a .. b : e <= d}) = d - a + 1
    BY ONLY <1>1, UpTo, d \in a .. b, Zenon
  <2>2. d - a + 1 \in 1 .. k
    BY DEF k
  <2> QED
    BY <2>1, <2>2
<1>8. t = [d \in Dir |-> IF d \in a .. b THEN list[Cardinality({e \in a .. b : e <= d})] ELSE m.tables[d]]
  BY DEF Walked, list, t
<1>9. Len(list) \in Nat /\ DOMAIN list = 1 .. Len(list)
  BY <1>3
<1>10. \A i \in 1 .. k : i \in DOMAIN list /\ list[i] \in Nat /\ Low(list[i])
  <2>1. \A i \in 1 .. k : i \in DOMAIN list /\ i \in 1 .. r
    BY <1>1, <1>6, <1>9
  <2>2. \A i \in 1 .. r : Low(list[i])
    BY <1>5 DEF Stock
  <2> QED
    BY <1>3, <2>1, <2>2
<1>11. \A d \in Dir : IF d \in a .. b THEN t[d] = list[d - a + 1] ELSE t[d] = m.tables[d]
  BY <1>7, <1>8
<1>12. \A d \in Dir : IF d \in a .. b THEN t[d] \in Nat /\ Low(t[d]) ELSE t[d] = m.tables[d]
  BY <1>7, <1>10, <1>11
<1>13. t \in [Dir -> Int]
  <2>1. \A d \in Dir : t[d] \in Int
    BY <1>3, <1>12
  <2>2. t = [d \in Dir |-> t[d]]
    BY <1>8
  <2> QED
    BY <2>1, <2>2
<1>14. \A d \in Dir, i \in DOMAIN l : t[d] # l[i]
  <2> SUFFICES ASSUME NEW d \in Dir, NEW i \in DOMAIN l PROVE t[d] # l[i]
    OBVIOUS
  <2>1. PICK j \in DOMAIN list : l[i] = list[j] /\ j > k
    BY <1>6
  <2>2. CASE d \in a .. b
    <3>1. t[d] = list[d - a + 1] /\ d - a + 1 \in 1 .. k /\ d - a + 1 \in DOMAIN list
      BY <1>7, <1>10, <1>11, <2>2
    <3>2. d - a + 1 # j
      BY <1>1, <1>9, <2>1, <3>1
    <3> QED
      BY <1>5, <2>1, <3>1, <3>2 DEF Stock
  <2>3. CASE d \notin a .. b
    BY <1>11, <2>1, <2>3 DEF list
  <2> QED
    BY <2>2, <2>3
<1>15. \A p \in Written(m, va, n) : p \in Nat /\ Low(p)
  <2>1. ~(Cardinality(Missing(m, va, n)) > Len(m.page_free_list))
    BY <1>1, <1>2, <1>6, <1>9 DEF list
  <2>2. Written(m, va, n) = {t[d] : d \in PDX(va) .. PDX(va + n - 1)}
    BY <2>1 DEF Written, t
  <2>3. ASSUME NEW d \in PDX(va) .. PDX(va + n - 1) PROVE t[d] \in Nat /\ Low(t[d])
    <3>1. d \in Dir
      OBVIOUS
    <3>2. d \notin a .. b => m.tables[d] # NoTable
      BY DEF Missing
    <3>3. d \notin a .. b => m.tables[d] \in Nat /\ Low(m.tables[d])
      BY <3>1, <3>2 DEF TablesInv
    <3> QED
      BY <1>12, <3>1, <3>3
  <2> QED
    BY <2>2, <2>3
<1> QED
  BY <1>6, <1>12, <1>13, <1>14, <1>15 DEF k, l, t, IsWalk

\* Entries that change between MMIOBASE and MMIOLIM, where user code may read nothing.
LEMMA MmioPte ==
  ASSUME PteInv, region' = region, region \in Nat, m'.npages = m.npages, m'.nextfree = m.nextfree, m'.pages = m.pages,
         m'.envs = m.envs, m.npages \in Nat, Size(m.npages),
         \A v \in VPage \ (3 * NPT .. 4 * NPT - 1) : m'.pte[v] = m.pte[v],
         \A v \in 3 * NPT .. 4 * NPT - 1 : m'.pte[v] = m.pte[v] \/ m'.pte[v].u = FALSE
  PROVE  PteInv'
<1> USE Constants
<1>1. /\ UENVS = 0 /\ UPAGES = NPT /\ MMIOLIM = 4 * NPT /\ KSTACKTOP = 5 * NPT /\ KERNBASE = 5 * NPT
      /\ KernTables * NPT \in Nat /\ VPage = 0 .. 5 * NPT + KernTables * NPT - 1
  BY Layout
<1> DEFINE N == KernTables * NPT
           up == Up(m.npages, PerPage)
<1>2. up \in Nat /\ up <= NPT /\ EnvPages <= NPT
  <2>1. PICK x \in ExtMem : m.npages = Ext + x
    BY DEF Size
  <2>2. up <= NPT /\ EnvPages <= NPT
    BY <2>1, RegionAssumption
  <2>3. m.npages > 0
    BY <2>1, ImageAssumption, SizeAssumption
  <2> QED
    BY <2>2, <2>3, UpPositive
<1>3. N \in Nat
  BY <1>1
<1> HIDE DEF N, up
<1>4. \A v : v \in 0 .. 3 * NPT - 1 \/ v \in 4 * NPT .. 5 * NPT + N - 1 => m'.pte[v] = m.pte[v]
  <2> SUFFICES ASSUME NEW v, v \in 0 .. 3 * NPT - 1 \/ v \in 4 * NPT .. 5 * NPT + N - 1 PROVE m'.pte[v] = m.pte[v]
    OBVIOUS
  <2>1. v \in (0 .. 5 * NPT + N - 1) \ (3 * NPT .. 4 * NPT - 1)
    BY <1>3
  <2> QED
    BY <1>1, <2>1 DEF N
<1>5. UserInv'
  <2> SUFFICES ASSUME NEW v \in VPage, m'.pte[v].u
               PROVE  region' >= 1 /\ ~m'.pte[v].w /\ m'.pte[v].pp \in m'.pages .. m'.nextfree - 1
    BY DEF UserInv
  <2>1. m'.pte[v] = m.pte[v]
    OBVIOUS
  <2> QED
    BY <2>1 DEF PteInv, UserInv
<1>6. ArrayInv'
  <2>1. \A i \in 0 .. up - 1 : UPAGES + i \in 0 .. 3 * NPT - 1
    BY <1>1, <1>2
  <2>2. \A i \in 0 .. EnvPages - 1 : UENVS + i \in 0 .. 3 * NPT - 1
    BY <1>1, <1>2
  <2> QED
    BY <1>4, <2>1, <2>2 DEF PteInv, ArrayInv, up
<1>7. KernInv'
  <2>1. \A p \in 0 .. N - 1 : KERNBASE + p \in 4 * NPT .. 5 * NPT + N - 1
    BY <1>1, <1>3
  <2> QED
    BY <1>4, <2>1 DEF PteInv, KernInv, N
<1>8. KstackInv'
  <2> SUFFICES ASSUME NEW k \in 0 .. NCPU - 1, region' >= 5 + k, NEW i \in 0 .. KSTKSIZE - 1
               PROVE  m'.pte[StackBottom(k) + i] = [pp |-> Kstacks + k * KSTKSIZE + i, u |-> FALSE, w |-> TRUE]
    BY DEF KstackInv, StackBottom
  <2>1. m.pte[StackBottom(k) + i] = [pp |-> Kstacks + k * KSTKSIZE + i, u |-> FALSE, w |-> TRUE]
    BY DEF PteInv, KstackInv
  <2>2. StackBottom(k) + i \in 4 * NPT .. 5 * NPT + N - 1
    <3>1. StackBottom(k) \in Nat /\ 4 * NPT + KSTKGAP <= StackBottom(k) /\ StackBottom(k) + KSTKSIZE <= 5 * NPT
      BY StackPlace
    <3> QED
      BY <1>3, <3>1
  <2> QED
    BY <1>4, <2>1, <2>2
<1>9. GapInv'
  <2> SUFFICES ASSUME NEW v \in MMIOLIM .. KSTACKTOP - 1, \A k \in 0 .. NCPU - 1 : v \notin Stack(k)
               PROVE  m'.pte[v] = NoPte
    BY DEF GapInv
  <2>1. m.pte[v] = NoPte
    BY DEF PteInv, GapInv
  <2>2. v \in 4 * NPT .. 5 * NPT + N - 1
    BY <1>1, <1>3
  <2> QED
    BY <1>4, <2>1, <2>2
<1> QED
  BY <1>5, <1>6, <1>7, <1>8, <1>9 DEF PteInv

\* The memory with entries between MMIOBASE and MMIOLIM, and q page tables for them.
IsMmio(new, r, q) ==
  /\ new \in Memory
  /\ new.npages = m.npages /\ new.nextfree = m.nextfree /\ new.kern_pgdir = m.kern_pgdir
  /\ new.pages = m.pages /\ new.envs = m.envs /\ new.base = m.base
  /\ Stock(new.page_free_list, r - q, m.npages)
  /\ \A d \in Dir, i \in DOMAIN new.page_free_list : new.tables[d] # new.page_free_list[i]
  /\ \A d \in Dir : d # 3 => new.tables[d] = m.tables[d]
  /\ new.tables[3] \in Nat /\ Low(new.tables[3])
  /\ \A v \in VPage \ (3 * NPT .. 4 * NPT - 1) : new.pte[v] = m.pte[v]
  /\ \A v \in 3 * NPT .. 4 * NPT - 1 : new.pte[v] = m.pte[v] \/ new.pte[v].u = FALSE

\* boot_map_region below MMIOLIM, for pages at base.
LEMMA MmioMapped ==
  ASSUME m \in Memory, TablesInv, NEW r \in Nat, Stock(m.page_free_list, r, m.npages),
         \A d \in Dir, i \in DOMAIN m.page_free_list : m.tables[d] # m.page_free_list[i],
         NEW n \in Nat, n > 0, 3 * NPT <= m.base, m.base + n <= 4 * NPT,
         NEW q \in {0, 1}, q <= r, q = IF 3 \in Present THEN 0 ELSE 1, NEW pa \in Nat
  PROVE  /\ IsMmio(boot_map_region(m, m.base, n, pa, FALSE, TRUE), r, q)
         /\ \A p \in Written(m, m.base, n) : p \in Nat /\ Low(p)
<1> USE Constants
<1> DEFINE va == m.base
           new == boot_map_region(m, va, n, pa, FALSE, TRUE)
<1>1. va \in Nat /\ 3 * NPT <= va /\ va + n <= 4 * NPT
  BY Fields
<1> HIDE DEF va
<1>2. va .. va + n - 1 \subseteq 3 * NPT .. 4 * NPT - 1
  BY <1>1
<1>3. 3 * NPT .. 4 * NPT - 1 \subseteq VPage
  <2> DEFINE N == KernTables * NPT
  <2>1. N \in Nat /\ VPage = 0 .. 5 * NPT + N - 1
    BY Layout
  <2> HIDE DEF N
  <2> QED
    BY <2>1
<1>4. PDX(va) = 3 /\ PDX(va + n - 1) = 3
  <2>1. va \in 3 * NPT .. 4 * NPT - 1 /\ va + n - 1 \in 3 * NPT .. 4 * NPT - 1
    BY <1>1
  <2> QED
    BY <2>1, Pdxs
<1>5. 3 \in Dir
  BY Layout
<1>6. 3 .. 2 + q = IF q = 1 THEN {3} ELSE {}
  <2>1. CASE q = 1
    <3>1. 2 + q = 3 /\ 3 .. 3 = {3}
      BY ONLY <2>1
    <3> QED
      BY ONLY <2>1, <3>1
  <2>2. CASE q = 0
    BY ONLY <2>2
  <2> QED
    BY <2>1, <2>2
<1>7. Missing(m, va, n) = 3 .. 2 + q
  <2>1. q = 1 => m.tables[3] = NoTable
    BY <1>5 DEF TablesInv
  <2>2. q = 0 => m.tables[3] # NoTable
    BY <1>5 DEF TablesInv, NoTable
  <2>3. 3 .. 3 = {3}
    OBVIOUS
  <2>4. Missing(m, va, n) = IF q = 1 THEN {3} ELSE {}
    BY <1>4, <2>1, <2>2, <2>3 DEF Missing
  <2> QED
    BY <1>6, <2>4
<1>8. PDX(va) .. PDX(va + n - 1) \subseteq Dir
  BY <1>4, <1>5
<1>9. /\ va .. va + n - 1 \subseteq VPage /\ m \in Memory /\ n \in Nat /\ pa \in Nat /\ TRUE \in BOOLEAN /\ FALSE \in BOOLEAN
      /\ 3 \in Nat /\ 2 + q \in Int /\ 3 <= 2 + q + 1 /\ (2 + q) - 3 + 1 = q /\ q \in Nat /\ q <= r
  BY <1>2, <1>3
<1> DEFINE l == SubSeq(m.page_free_list, Cardinality(Missing(m, va, n)) + 1, Len(m.page_free_list))
           t == Walked(m, va, n)
<1>10. IsRegion(new, va, n, pa, FALSE, TRUE)
  BY ONLY <1>1, <1>9, RegionEntries
<1>11. /\ new.npages = m.npages /\ new.nextfree = m.nextfree /\ new.kern_pgdir = m.kern_pgdir
       /\ new.pages = m.pages /\ new.envs = m.envs /\ new.base = m.base
       /\ new.page_free_list = l /\ new.tables = t
       /\ \A v \in va .. va + n - 1 : new.pte[v] = [pp |-> pa + v - va, u |-> FALSE, w |-> TRUE]
       /\ \A v \in VPage \ (va .. va + n - 1) : new.pte[v] = m.pte[v]
       /\ new.page_free_list \in Seq(Nat) /\ new.tables \in [Dir -> Int] => new \in Memory
  BY ONLY <1>10, Zenon DEF IsRegion
<1>12. IsWalk(l, t, r, 3, 2 + q) /\ \A p \in Written(m, va, n) : p \in Nat /\ Low(p)
  <2>1. /\ TablesInv /\ r \in Nat /\ Stock(m.page_free_list, r, m.npages)
        /\ \A d \in Dir, i \in DOMAIN m.page_free_list : m.tables[d] # m.page_free_list[i]
        /\ (2 + q) - 3 + 1 <= r
    BY <1>9
  <2> QED
    BY ONLY <1>7, <1>8, <1>9, <2>1, RegionTables
<1>13. /\ l \in Seq(Nat) /\ Stock(l, r - ((2 + q) - 3 + 1), m.npages) /\ t \in [Dir -> Int]
       /\ \A d \in Dir : IF d \in 3 .. 2 + q THEN t[d] \in Nat /\ Low(t[d]) ELSE t[d] = m.tables[d]
       /\ \A d \in Dir, i \in DOMAIN l : t[d] # l[i]
       /\ \A p \in Written(m, va, n) : p \in Nat /\ Low(p)
  BY ONLY <1>12, Zenon DEF IsWalk
<1>14. Stock(l, r - q, m.npages)
  BY <1>9, <1>13
<1> HIDE DEF l, t, new
<1>15. \A d \in Dir : d # 3 => t[d] = m.tables[d]
  <2>1. \A d : d # 3 => d \notin 3 .. 2 + q
    BY <1>6
  <2> QED
    BY <1>13, <2>1
<1>16. t[3] \in Nat /\ Low(t[3])
  <2>1. q = 0 => m.tables[3] \in Nat /\ Low(m.tables[3])
    BY <1>5 DEF TablesInv
  <2>2. q = 1 => 3 \in 3 .. 2 + q
    OBVIOUS
  <2>3. q = 0 => 3 \notin 3 .. 2 + q
    OBVIOUS
  <2> QED
    BY <1>5, <1>13, <2>1, <2>2, <2>3
<1>17. \A v \in VPage \ (3 * NPT .. 4 * NPT - 1) : new.pte[v] = m.pte[v]
  BY <1>2, <1>11
<1>18. \A v \in 3 * NPT .. 4 * NPT - 1 : new.pte[v] = m.pte[v] \/ new.pte[v].u = FALSE
  <2> SUFFICES ASSUME NEW v \in 3 * NPT .. 4 * NPT - 1 PROVE new.pte[v] = m.pte[v] \/ new.pte[v].u = FALSE
    OBVIOUS
  <2>1. ASSUME v \in va .. va + n - 1 PROVE new.pte[v].u = FALSE
    <3>1. new.pte[v] = [pp |-> pa + v - va, u |-> FALSE, w |-> TRUE]
      BY <1>11, <2>1
    <3> QED
      BY ONLY <3>1
  <2>2. v \in VPage
    BY <1>3
  <2> QED
    BY <1>11, <2>1, <2>2
<1> QED
  BY <1>11, <1>13, <1>14, <1>15, <1>16, <1>17, <1>18 DEF va, new, IsMmio

\* The regions that check_page reserves; the first takes the page table.
LEMMA MmKeeps ==
  ASSUME MemInv, CheckMm1 \/ CheckMm2
  PROVE  MemInv'
<1> USE Constants
<1>1. PICK n \in {1, 2}, here \in {"mm1", "mm2"}, next \in {"mm2", "unmap"} :
        /\ Do(here, Written(m, m.base, n), mmio_map_region(m, 0, n), next)
        /\ (here = "mm1" <=> n = 2) /\ (here = "mm1" <=> next = "mm2")
  <2>1. CASE CheckMm1
    <3>1. Do("mm1", Written(m, m.base, 2), mmio_map_region(m, 0, 2), "mm2")
      BY <2>1 DEF CheckMm1
    <3> QED
      BY <3>1
  <2>2. CASE CheckMm2
    <3>1. Do("mm2", Written(m, m.base, 1), mmio_map_region(m, 0, 1), "unmap")
      BY <2>2 DEF CheckMm2
    <3> QED
      BY <3>1
  <2> QED
    BY <2>1, <2>2
<1> DEFINE q == IF here = "mm1" THEN 1 ELSE 0
           new == boot_map_region(m, m.base, n, 0, FALSE, TRUE)
           b == m.base + n
<1>2. phase = here /\ phase \in Phase /\ phase \notin Untested /\ phase \notin Allocating /\ phase \notin Installed
      /\ (phase \in Unmapped <=> here = "mm1") /\ phase \in Unbased
  BY <1>1 DEF Do, MemInv, PhaseInv, Phase, Unbased, Unmapped, Untested, Unlisted, Allocating, Installed
<1>3. region = 0
  BY <1>2 DEF MemInv, PhaseInv
<1>4. m.base = (IF here = "mm1" THEN 3 * NPT ELSE 3 * NPT + 2)
  BY <1>1, <1>2, Layout DEF MemInv, BaseInv
<1>5. /\ m \in Memory /\ TablesInv /\ PteInv /\ region \in Nat /\ Size(m.npages) /\ m.npages \in Nat
      /\ \A d \in Dir, i \in DOMAIN m.page_free_list : m.tables[d] # m.page_free_list[i]
      /\ Stock(m.page_free_list, Reserve, m.npages)
  BY <1>2, <1>3, Arrays DEF MemInv, ListInv
<1>6. Reserve = (IF here = "mm1" THEN KernTables + 4 ELSE KernTables + 3) /\ Reserve \in Nat /\ q <= Reserve
  BY <1>2, <1>3 DEF Reserve
<1>7. 3 \in Present <=> here # "mm1"
  BY <1>2, <1>3 DEF Present
<1>8. /\ n \in Nat /\ n > 0 /\ 3 * NPT <= m.base /\ m.base + n <= 4 * NPT /\ 0 \in Nat
      /\ q \in {0, 1} /\ q <= Reserve /\ q = IF 3 \in Present THEN 0 ELSE 1
  BY <1>1, <1>4, <1>6, <1>7
<1>9. IsMmio(new, Reserve, q) /\ \A p \in Written(m, m.base, n) : p \in Nat /\ Low(p)
  BY ONLY <1>5, <1>6, <1>8, MmioMapped
<1>10. /\ new \in Memory
       /\ new.npages = m.npages /\ new.nextfree = m.nextfree /\ new.kern_pgdir = m.kern_pgdir
       /\ new.pages = m.pages /\ new.envs = m.envs /\ new.base = m.base
       /\ Stock(new.page_free_list, Reserve - q, m.npages)
       /\ \A d \in Dir, i \in DOMAIN new.page_free_list : new.tables[d] # new.page_free_list[i]
       /\ \A d \in Dir : d # 3 => new.tables[d] = m.tables[d]
       /\ new.tables[3] \in Nat /\ Low(new.tables[3])
       /\ \A v \in VPage \ (3 * NPT .. 4 * NPT - 1) : new.pte[v] = m.pte[v]
       /\ \A v \in 3 * NPT .. 4 * NPT - 1 : new.pte[v] = m.pte[v] \/ new.pte[v].u = FALSE
  BY ONLY <1>9, Zenon DEF IsMmio
<1>11. Reach(Written(m, m.base, n))
  BY <1>2, <1>9, EntryReach DEF MemInv
<1>12. phase' = next /\ cr3' = cr3 /\ region' = region /\ m' = [new EXCEPT !.base = b]
  BY <1>1, <1>11, Done DEF mmio_map_region
<1>13. b \in Nat /\ b = IF here = "mm1" THEN 3 * NPT + 2 ELSE 3 * NPT + 3
  BY <1>1, <1>4
<1> HIDE DEF new, b, q
<1>14. m' \in Memory
  BY <1>10, <1>12, <1>13 DEF Memory
<1>15. /\ m'.npages = m.npages /\ m'.nextfree = m.nextfree /\ m'.kern_pgdir = m.kern_pgdir
       /\ m'.pages = m.pages /\ m'.envs = m.envs /\ m'.base = b
       /\ m'.page_free_list = new.page_free_list /\ m'.tables = new.tables /\ m'.pte = new.pte
  BY <1>10, <1>12 DEF Memory
<1>16. /\ phase' \in Phase /\ phase' \notin Installed /\ phase' \notin Allocating /\ phase' \in Unbased
       /\ phase' \notin Untested /\ phase' \notin Unmapped /\ phase' # "boot_map_region"
       /\ (phase' = "mm2" <=> here = "mm1")
  BY <1>1, <1>12 DEF Phase, Unbased, Unmapped, Untested, Unlisted, Allocating, Installed
<1>17. PhaseInv'
  BY <1>2, <1>3, <1>12, <1>16 DEF MemInv, PhaseInv
<1>18. 2 \in Dir /\ 3 \in Dir
  BY Layout
<1>19. AllocInv'
  BY <1>2, <1>10, <1>15, <1>16, <1>18, AllocStays
<1>20. TablesInv'
  <2>1. Present' = {2, 3} /\ 2 \in Present /\ Present \subseteq {2, 3}
    <3>1. phase \notin {"i386_detect_memory", "kern_pgdir"} /\ phase' \notin {"i386_detect_memory", "kern_pgdir"}
      BY <1>2, <1>16 DEF Allocating
    <3> QED
      BY <1>3, <1>12, <1>16, <3>1 DEF Present
  <2>2. \A d \in Dir : d # 3 => (d \in Present <=> d = 2)
    BY <2>1
  <2> QED
    BY <1>5, <1>10, <1>15, <2>1, <2>2 DEF TablesInv
<1>21. ListInv'
  <2>1. Reserve' = Reserve - q
    BY <1>3, <1>6, <1>12, <1>16 DEF Reserve, q
  <2>2. phase' \notin Unlisted /\ phase' # "check_page_free_list(1)"
    BY <1>16 DEF Untested
  <2> QED
    BY <1>10, <1>15, <2>1, <2>2 DEF ListInv
<1>22. PteInv'
  BY <1>5, <1>10, <1>12, <1>15, MmioPte
<1>23. BaseInv'
  BY <1>13, <1>15, <1>16, Layout DEF BaseInv
<1> QED
  BY <1>14, <1>17, <1>19, <1>20, <1>21, <1>22, <1>23 DEF MemInv

\* The addresses that check_page is given, and its assertions about them: they hold if these
\* are the beginnings of the regions, and not if they are their ends.
LEMMA Assertions ==
  ASSUME MemInv, MmioInv, phase = "unmap"
  PROVE  /\ MmioReturns = "base" => MmioOk /\ mm1 = 3 * NPT /\ mm2 = 3 * NPT + 2
         /\ MmioReturns = "end" => ~MmioOk
<1> USE Constants
<1>1. MMIOBASE = 3 * NPT /\ MMIOLIM = 4 * NPT
  BY Layout
<1>2. /\ m.pte[3 * NPT] = MmioPage(0) /\ m.pte[3 * NPT + 1] = MmioPage(1)
      /\ m.pte[3 * NPT + 2] = MmioPage(0) /\ m.pte[3 * NPT + 3] = NoPte
  BY <1>1 DEF MmioInv
<1>3. m.tables[3] # NoTable
  <2>1. 3 \in Present /\ 3 \in Dir
    BY Layout DEF Present, Unmapped, Untested, Unlisted, Allocating
  <2> QED
    BY <2>1 DEF MemInv, TablesInv, NoTable
<1>4. \A v \in 3 * NPT .. 4 * NPT - 1 : check_va2pa(v) = m.pte[v].pp
  BY <1>3, Pdxs DEF check_va2pa
<1> DEFINE a == 3 * NPT
<1>5. /\ a \in 3 * NPT .. 4 * NPT - 1 /\ a + 1 \in 3 * NPT .. 4 * NPT - 1
      /\ a + 2 \in 3 * NPT .. 4 * NPT - 1 /\ a + 3 \in 3 * NPT .. 4 * NPT - 1
  OBVIOUS
<1>6. check_va2pa(a) = 0 /\ check_va2pa(a + 1) = 1 /\ check_va2pa(a + 2) = 0 /\ check_va2pa(a + 3) = -1
  BY <1>2, <1>4, <1>5 DEF MmioPage, NoPte
<1>7. a \in Nat /\ a + 4 <= 4 * NPT
  OBVIOUS
<1>8. m.pte[a].w = TRUE /\ m.pte[a].u = FALSE
  BY <1>2 DEF MmioPage
<1> HIDE DEF a
<1>9. MMIOBASE = a
  BY <1>1 DEF a
<1>10. ASSUME MmioReturns = "base" PROVE MmioOk /\ mm1 = a /\ mm2 = a + 2
  <2>1. mm1 = a /\ mm2 = a + 2
    BY <1>9, <1>10 DEF mm1, mm2, Returned
  <2>2. (a + 2) + 1 = a + 3
    BY <1>7
  <2>3. {mm1, mm2} \subseteq MMIOBASE .. MMIOLIM - 2
    BY <1>1, <1>7, <1>9, <2>1
  <2> QED
    BY <1>6, <1>8, <2>1, <2>2, <2>3 DEF MmioOk
<1>11. ASSUME MmioReturns = "end" PROVE ~MmioOk
  <2>1. mm1 = a + 2
    BY <1>9, <1>11 DEF mm1, Returned
  <2>2. (a + 2) + 1 = a + 3
    BY <1>7
  <2>3. check_va2pa(mm1 + 1) = -1
    BY <1>6, <2>1, <2>2
  <2> QED
    BY <2>3 DEF MmioOk
<1> QED
  BY <1>10, <1>11 DEF a

\* check_page clears the entries it made, or panics.
LEMMA UnmapKeeps ==
  ASSUME MemInv, MmioInv, CheckUnmap
  PROVE  MemInv'
<1> USE Constants
<1>1. phase = "unmap"
  BY DEF CheckUnmap, Do
<1>2. /\ phase \in Phase /\ phase \notin Untested /\ phase \notin Allocating /\ phase \notin Installed
      /\ phase \notin Unmapped /\ phase \in Unbased
  BY <1>1 DEF Phase, Unbased, Unmapped, Untested, Unlisted, Allocating, Installed
<1>3. region = 0
  BY <1>2 DEF MemInv, PhaseInv
<1>4. m.base = 3 * NPT + 3
  BY <1>1, <1>2, Layout DEF MemInv, BaseInv
<1>5. /\ MmioReturns = "base" => MmioOk /\ mm1 = 3 * NPT /\ mm2 = 3 * NPT + 2
      /\ MmioReturns = "end" => ~MmioOk
  BY <1>1, Assertions
<1>6. m \in Memory /\ TablesInv /\ PteInv /\ Size(m.npages) /\ m.npages \in Nat /\ m.pte \in [VPage -> Entry]
  BY <1>2, Arrays, Fields DEF MemInv
<1>7. Reach({m.tables[PDX(MMIOBASE)]})
  <2>1. MMIOBASE \in 3 * NPT .. 4 * NPT - 1
    BY Layout
  <2>2. PDX(MMIOBASE) = 3 /\ 3 \in Dir
    BY <2>1, Pdxs, Layout
  <2>3. 3 \in Present
    BY <1>2 DEF Present
  <2>4. m.tables[3] \in Nat /\ Low(m.tables[3])
    BY <1>6, <2>2, <2>3 DEF TablesInv
  <2> QED
    BY <1>2, <2>2, <2>4, EntryReach DEF MemInv
<1> DEFINE gone == {mm1, mm1 + 1, mm2}
           p == IF MmioOk THEN [v \in DOMAIN m.pte |-> IF v \in gone THEN NoPte ELSE m.pte[v]] ELSE m.pte
<1>8. /\ phase' = (IF MmioOk THEN "boot_map_region" ELSE "panic") /\ cr3' = cr3 /\ region' = region
      /\ m' = IF MmioOk THEN [m EXCEPT !.pte = [v \in DOMAIN m.pte |-> IF v \in gone THEN NoPte ELSE m.pte[v]]] ELSE m
  BY <1>7, Done DEF CheckUnmap
<1>9. m' = [m EXCEPT !.pte = p]
  BY <1>6, <1>8 DEF Memory
<1>10. NoPte \in Entry /\ NoPte.u = FALSE
  BY DEF NoPte, Entry
<1>11. /\ p \in [VPage -> Entry]
       /\ \A v \in VPage : p[v] = m.pte[v] \/ (MmioOk /\ p[v] = NoPte /\ v \in gone)
  BY <1>6, <1>10
<1>12. MmioReturns = "base" <=> MmioOk
  BY <1>5, MmioReturnsAssumption
<1>13. MmioOk => gone \subseteq 3 * NPT .. 4 * NPT - 1
  BY <1>5, <1>12
<1> HIDE DEF p, gone
<1>14. m' \in Memory
  BY <1>6, <1>9, <1>11 DEF Memory
<1>15. /\ m'.npages = m.npages /\ m'.nextfree = m.nextfree /\ m'.kern_pgdir = m.kern_pgdir
       /\ m'.pages = m.pages /\ m'.envs = m.envs /\ m'.base = m.base
       /\ m'.page_free_list = m.page_free_list /\ m'.tables = m.tables /\ m'.pte = p
  BY <1>6, <1>9 DEF Memory
<1>16. /\ phase' \in Phase /\ phase' \notin Installed /\ phase' \notin Allocating
       /\ (phase' \in Unbased <=> phase' = "panic")
       /\ phase' \notin Untested /\ phase' \notin Unmapped /\ phase' \notin Unlisted
       /\ phase' # "check_page_free_list(1)" /\ phase' # "mm2"
  BY <1>8 DEF Phase, Unbased, Unmapped, Untested, Unlisted, Allocating, Installed
<1>17. PhaseInv'
  BY <1>2, <1>3, <1>8, <1>12, <1>16, MmioReturnsAssumption DEF MemInv, PhaseInv, Regions
<1>18. AllocInv'
  BY <1>2, <1>15, <1>16, AllocStays
<1>19. Present' = Present /\ Reserve' = Reserve
  BY <1>2, <1>8, <1>16 DEF Present, Reserve, Allocating
<1>20. TablesInv'
  BY <1>6, <1>15, <1>19 DEF TablesInv
<1>21. ListInv'
  BY <1>2, <1>15, <1>16, <1>19 DEF MemInv, ListInv
<1>22. PteInv'
  <2>1. \A v \in VPage \ (3 * NPT .. 4 * NPT - 1) : m'.pte[v] = m.pte[v]
    BY <1>11, <1>13, <1>15
  <2>2. 3 * NPT .. 4 * NPT - 1 \subseteq VPage
    <3> DEFINE N == KernTables * NPT
    <3>1. N \in Nat /\ VPage = 0 .. 5 * NPT + N - 1
      BY Layout
    <3> HIDE DEF N
    <3> QED
      BY <3>1
  <2>3. \A v \in 3 * NPT .. 4 * NPT - 1 : m'.pte[v] = m.pte[v] \/ m'.pte[v].u = FALSE
    BY <1>10, <1>11, <1>15, <2>2
  <2>4. region \in Nat
    BY <1>3
  <2> QED
    BY <1>6, <1>8, <1>15, <2>1, <2>3, <2>4, MmioPte
<1>23. BaseInv'
  BY <1>4, <1>15, <1>16, Layout DEF BaseInv
<1> QED
  BY <1>14, <1>17, <1>18, <1>20, <1>21, <1>22, <1>23 DEF MemInv

-----------------------------------------------------------------------------
(* The calls of boot_map_region.                                             *)

\* What a call has to do for the entries to be right after it: what is mapped for user code
\* is read-only and in the arrays; the call for a region fills it, another one stays away.
Right(va, n, pa, u, w) ==
  LET I == va .. va + n - 1
  IN  /\ u = TRUE => w = FALSE /\ \A v \in I : pa + v - va \in m.pages .. m.nextfree - 1
      /\ \A i \in 0 .. Up(m.npages, PerPage) - 1 :
           IF region = 0 THEN UPAGES + i \in I /\ pa + (UPAGES + i) - va = m.pages + i ELSE UPAGES + i \notin I
      /\ \A i \in 0 .. EnvPages - 1 :
           IF region = 1 THEN UENVS + i \in I /\ pa + (UENVS + i) - va = m.envs + i ELSE UENVS + i \notin I
      /\ \A p \in 0 .. KernTables * NPT - 1 :
           IF region = 3 THEN KERNBASE + p \in I /\ pa + (KERNBASE + p) - va = p /\ u = FALSE /\ w = TRUE
           ELSE KERNBASE + p \notin I
      /\ \A k \in 0 .. NCPU - 1, i \in 0 .. KSTKSIZE - 1 :
           IF region = 4 + k
           THEN StackBottom(k) + i \in I /\ pa + (StackBottom(k) + i) - va = Kstacks + k * KSTKSIZE + i /\ u = FALSE /\ w = TRUE
           ELSE region > 4 + k => StackBottom(k) + i \notin I
      /\ \A v \in I : v \in MMIOLIM .. KSTACKTOP - 1 => \E k \in 0 .. NCPU - 1 : v \in Stack(k)

\* Such a call keeps PteInv.
LEMMA RightKeeps ==
  ASSUME PteInv, region \in Nat, region' = region + 1, NEW va \in Nat, NEW n \in Nat, NEW pa \in Nat, NEW u, NEW w,
         u \in BOOLEAN, IsRegion(m', va, n, pa, u, w), Right(va, n, pa, u, w), Size(m.npages), m.npages \in Nat
  PROVE  PteInv'
<1> USE Constants
<1> DEFINE I == va .. va + n - 1
           N == KernTables * NPT
           up == Up(m.npages, PerPage)
<1>1. /\ m'.npages = m.npages /\ m'.nextfree = m.nextfree /\ m'.pages = m.pages /\ m'.envs = m.envs
      /\ \A v \in I : m'.pte[v] = [pp |-> pa + v - va, u |-> u, w |-> w]
      /\ \A v \in VPage \ I : m'.pte[v] = m.pte[v]
  BY DEF IsRegion
<1>2. /\ UENVS = 0 /\ UPAGES = NPT /\ MMIOLIM = 4 * NPT /\ KSTACKTOP = 5 * NPT /\ KERNBASE = 5 * NPT
      /\ N \in Nat /\ VPage = 0 .. 5 * NPT + N - 1
  BY Layout
<1>3. up \in Nat /\ up <= NPT /\ EnvPages <= NPT
  <2>1. PICK x \in ExtMem : m.npages = Ext + x
    BY DEF Size
  <2>2. up <= NPT /\ EnvPages <= NPT
    BY <2>1, RegionAssumption
  <2>3. m.npages > 0
    BY <2>1, ImageAssumption, SizeAssumption
  <2> QED
    BY <2>2, <2>3, UpPositive
<1> HIDE DEF I, N, up
<1>4. UserInv'
  <2> SUFFICES ASSUME NEW v \in VPage, m'.pte[v].u
               PROVE  region' >= 1 /\ ~m'.pte[v].w /\ m'.pte[v].pp \in m'.pages .. m'.nextfree - 1
    BY DEF UserInv
  <2>1. region' >= 1
    OBVIOUS
  <2>2. CASE v \in I
    <3>1. m'.pte[v] = [pp |-> pa + v - va, u |-> u, w |-> w]
      BY <1>1, <2>2
    <3>2. u = TRUE
      BY <3>1
    <3>3. w = FALSE /\ pa + v - va \in m.pages .. m.nextfree - 1
      BY <2>2, <3>2 DEF Right, I
    <3> QED
      BY <1>1, <2>1, <3>1, <3>3
  <2>3. CASE v \notin I
    <3>1. m'.pte[v] = m.pte[v]
      BY <1>1, <2>3
    <3> QED
      BY <1>1, <2>1, <3>1 DEF PteInv, UserInv
  <2> QED
    BY <2>2, <2>3
<1>5. ArrayInv'
  <2>1. ASSUME NEW i \in 0 .. up - 1 PROVE m'.pte[UPAGES + i].pp = m.pages + i
    <3>1. UPAGES + i \in VPage
      BY <1>2, <1>3
    <3>2. CASE region = 0
      <4>1. UPAGES + i \in I /\ pa + (UPAGES + i) - va = m.pages + i
        BY <3>2 DEF Right, I, up
      <4>2. m'.pte[UPAGES + i] = [pp |-> m.pages + i, u |-> u, w |-> w]
        BY <1>1, <4>1
      <4> QED
        BY <4>2
    <3>3. CASE region # 0
      <4>1. UPAGES + i \notin I
        BY <3>3 DEF Right, I, up
      <4>2. region >= 1
        BY <3>3
      <4> QED
        BY <1>1, <3>1, <4>1, <4>2 DEF PteInv, ArrayInv, up
    <3> QED
      BY <3>2, <3>3
  <2>2. ASSUME NEW i \in 0 .. EnvPages - 1, region >= 1 PROVE m'.pte[UENVS + i].pp = m.envs + i
    <3>1. UENVS + i \in VPage
      BY <1>2, <1>3
    <3>2. CASE region = 1
      <4>1. UENVS + i \in I /\ pa + (UENVS + i) - va = m.envs + i
        BY <3>2 DEF Right, I
      <4>2. m'.pte[UENVS + i] = [pp |-> m.envs + i, u |-> u, w |-> w]
        BY <1>1, <4>1
      <4> QED
        BY <4>2
    <3>3. CASE region # 1
      <4>1. UENVS + i \notin I
        BY <3>3 DEF Right, I
      <4>2. region >= 2
        BY <2>2, <3>3
      <4> QED
        BY <1>1, <3>1, <4>1, <4>2 DEF PteInv, ArrayInv
    <3> QED
      BY <3>2, <3>3
  <2>3. region' >= 2 => region >= 1
    OBVIOUS
  <2> QED
    BY <1>1, <2>1, <2>2, <2>3 DEF ArrayInv, up
<1>6. KernInv'
  <2> SUFFICES ASSUME region' >= 4, NEW p \in 0 .. N - 1 PROVE m'.pte[KERNBASE + p] = [pp |-> p, u |-> FALSE, w |-> TRUE]
    BY DEF KernInv, N
  <2>1. KERNBASE + p \in VPage
    BY <1>2
  <2>2. CASE region = 3
    <3>1. KERNBASE + p \in I /\ pa + (KERNBASE + p) - va = p /\ u = FALSE /\ w = TRUE
      BY <2>2 DEF Right, I, N
    <3>2. m'.pte[KERNBASE + p] = [pp |-> pa + (KERNBASE + p) - va, u |-> u, w |-> w]
      BY <1>1, <3>1
    <3> QED
      BY <3>1, <3>2
  <2>3. CASE region # 3
    <3>1. KERNBASE + p \notin I
      BY <2>3 DEF Right, I, N
    <3>2. region >= 4
      BY <2>3
    <3> QED
      BY <1>1, <2>1, <3>1, <3>2 DEF PteInv, KernInv, N
  <2> QED
    BY <2>2, <2>3
<1>7. KstackInv'
  <2> SUFFICES ASSUME NEW k \in 0 .. NCPU - 1, region' >= 5 + k, NEW i \in 0 .. KSTKSIZE - 1
               PROVE  m'.pte[StackBottom(k) + i] = [pp |-> Kstacks + k * KSTKSIZE + i, u |-> FALSE, w |-> TRUE]
    BY DEF KstackInv, StackBottom
  <2>1. StackBottom(k) + i \in VPage
    <3>1. StackBottom(k) \in Nat /\ StackBottom(k) + KSTKSIZE <= 5 * NPT
      BY StackPlace
    <3> QED
      BY <1>2, <3>1
  <2>2. CASE region = 4 + k
    <3>1. StackBottom(k) + i \in I /\ pa + (StackBottom(k) + i) - va = Kstacks + k * KSTKSIZE + i /\ u = FALSE /\ w = TRUE
      BY <2>2 DEF Right, I
    <3>2. m'.pte[StackBottom(k) + i] = [pp |-> pa + (StackBottom(k) + i) - va, u |-> u, w |-> w]
      BY <1>1, <3>1
    <3> QED
      BY <3>1, <3>2
  <2>3. CASE region # 4 + k
    <3>1. region >= 5 + k /\ region > 4 + k
      BY <2>3
    <3>2. StackBottom(k) + i \notin I
      BY <2>3, <3>1 DEF Right, I
    <3> QED
      BY <1>1, <2>1, <3>1, <3>2 DEF PteInv, KstackInv
  <2> QED
    BY <2>2, <2>3
<1>8. GapInv'
  <2> SUFFICES ASSUME NEW v \in MMIOLIM .. KSTACKTOP - 1, \A k \in 0 .. NCPU - 1 : v \notin Stack(k)
               PROVE  m'.pte[v] = NoPte
    BY DEF GapInv
  <2>1. m.pte[v] = NoPte
    BY DEF PteInv, GapInv
  <2>2. v \in VPage
    BY <1>2
  <2>3. v \notin I
    BY DEF Right, I
  <2> QED
    BY <1>1, <2>1, <2>2, <2>3
<1> QED
  BY <1>4, <1>5, <1>6, <1>7, <1>8 DEF PteInv

\* The calls, one after the other.
LEMMA CallsAre ==
  /\ Len(Calls) = Regions
  /\ Calls[1] = Call(UPAGES, Up(m.npages, PerPage), m.pages, TRUE, FALSE)
  /\ Calls[2] = Call(UENVS, EnvPages, m.envs, TRUE, FALSE)
  /\ Calls[3] = Call(KSTACKTOP - KSTKSIZE, KSTKSIZE, Bootstack, FALSE, TRUE)
  /\ Calls[4] = Call(KERNBASE, KernTables * NPT, 0, FALSE, TRUE)
  /\ \A k \in 0 .. NCPU - 1 : Calls[5 + k] = Call(StackBottom(k), KSTKSIZE, Kstacks + k * KSTKSIZE, FALSE, TRUE)
<1> USE Constants
<1> DEFINE c1 == Call(UPAGES, Up(m.npages, PerPage), m.pages, TRUE, FALSE)
           c2 == Call(UENVS, EnvPages, m.envs, TRUE, FALSE)
           c3 == Call(KSTACKTOP - KSTKSIZE, KSTKSIZE, Bootstack, FALSE, TRUE)
           c4 == Call(KERNBASE, KernTables * NPT, 0, FALSE, TRUE)
           s == <<c1, c2, c3, c4>>
           t == [i \in 1 .. NCPU |-> MpCall(i - 1)]
           S == {c1, c2, c3, c4} \cup {MpCall(i - 1) : i \in 1 .. NCPU}
<1>1. Calls = s \o t
  BY DEF Calls
<1> HIDE DEF c1, c2, c3, c4
<1>2. s \in Seq(S) /\ Len(s) = 4 /\ s[1] = c1 /\ s[2] = c2 /\ s[3] = c3 /\ s[4] = c4
  OBVIOUS
<1>3. t \in Seq(S) /\ Len(t) = NCPU
  OBVIOUS
<1>4. \A k \in 0 .. NCPU - 1 : t[k + 1] = MpCall(k)
  <2> SUFFICES ASSUME NEW k \in 0 .. NCPU - 1 PROVE t[k + 1] = MpCall(k)
    OBVIOUS
  <2>1. k + 1 \in 1 .. NCPU /\ (k + 1) - 1 = k
    OBVIOUS
  <2> QED
    BY <2>1
<1> HIDE DEF s, t, S
<1>5. /\ Len(s \o t) = Len(s) + Len(t)
      /\ \A i \in 1 .. Len(s) : (s \o t)[i] = s[i]
      /\ \A i \in Len(s) + 1 .. Len(s) + Len(t) : (s \o t)[i] = t[i - Len(s)]
  BY <1>2, <1>3, Concat
<1>6. Calls[1] = c1 /\ Calls[2] = c2 /\ Calls[3] = c3 /\ Calls[4] = c4
  BY <1>1, <1>2, <1>5
<1>7. \A k \in 0 .. NCPU - 1 : Calls[5 + k] = MpCall(k)
  <2> SUFFICES ASSUME NEW k \in 0 .. NCPU - 1 PROVE Calls[5 + k] = MpCall(k)
    OBVIOUS
  <2>1. 5 + k \in Len(s) + 1 .. Len(s) + Len(t) /\ (5 + k) - Len(s) = k + 1
    BY <1>2, <1>3
  <2> QED
    BY <1>1, <1>4, <1>5, <2>1
<1>8. Len(Calls) = Regions
  BY <1>1, <1>2, <1>3, <1>5 DEF Regions
<1>9. \A k \in 0 .. NCPU - 1 : MpCall(k) = Call(StackBottom(k), KSTKSIZE, Kstacks + k * KSTKSIZE, FALSE, TRUE)
  BY DEF MpCall, StackBottom
<1> QED
  BY <1>6, <1>7, <1>8, <1>9 DEF c1, c2, c3, c4

\* The page tables that a call needs: one for each of the first three, those behind
\* KERNBASE for the fourth, and none for the others.
From == IF region = 0 THEN 1 ELSE IF region = 1 THEN 0 ELSE IF region = 2 THEN 4 ELSE 5
To == IF region = 0 THEN 1 ELSE IF region = 1 THEN 0 ELSE IF region = 3 THEN 4 + KernTables ELSE 4

\* A call that is right about the entries and needs these page tables keeps the invariant.
LEMMA CallKeeps ==
  ASSUME MemInv, MapRegion, NEW va \in Nat, NEW n \in Nat, NEW pa \in Nat, NEW u, NEW w,
         (u = TRUE /\ w = FALSE) \/ (u = FALSE /\ w = TRUE), Calls[region + 1] = Call(va, n, pa, u, w),
         IsRegion(boot_map_region(m, va, n, pa, u, w), va, n, pa, u, w), Right(va, n, pa, u, w),
         PDX(va) .. PDX(va + n - 1) \subseteq Dir, Missing(m, va, n) = From .. To
  PROVE  MemInv'
<1> USE Constants
<1> DEFINE new == boot_map_region(m, va, n, pa, u, w)
           l == SubSeq(m.page_free_list, Cardinality(Missing(m, va, n)) + 1, Len(m.page_free_list))
           t == Walked(m, va, n)
<1>1. phase = "boot_map_region"
  BY DEF MapRegion
<1>2. /\ phase \in Phase /\ phase \notin Untested /\ phase \notin Allocating /\ phase \notin Installed
      /\ phase \notin Unmapped /\ phase \notin Unbased
  BY <1>1 DEF Phase, Unbased, Unmapped, Untested, Unlisted, Allocating, Installed
<1>3. region \in 0 .. Regions /\ region < Regions /\ Regions \in Nat /\ region \in Nat
  BY <1>1 DEF MemInv, PhaseInv, Regions
<1>4. /\ m \in Memory /\ TablesInv /\ PteInv /\ Size(m.npages) /\ m.npages \in Nat
      /\ \A d \in Dir, i \in DOMAIN m.page_free_list : m.tables[d] # m.page_free_list[i]
      /\ Stock(m.page_free_list, Reserve, m.npages)
  BY <1>2, Arrays DEF MemInv, ListInv
<1>5. Reserve = IF region >= 4 THEN 0 ELSE KernTables + 3 - region
  BY <1>2 DEF Reserve
<1>6. Reserve \in Nat /\ From \in Nat /\ To \in Int /\ From <= To + 1 /\ To - From + 1 <= Reserve
  BY <1>3, <1>5 DEF From, To
<1>7. IsWalk(l, t, Reserve, From, To) /\ \A p \in Written(m, va, n) : p \in Nat /\ Low(p)
  <2>1. PDX(va) .. PDX(va + n - 1) \subseteq Dir /\ Missing(m, va, n) = From .. To
    OBVIOUS
  <2> QED
    BY ONLY <1>4, <1>6, <2>1, RegionTables
<1>8. Reach(Written(m, va, n))
  BY <1>2, <1>7, EntryReach DEF MemInv
<1>9. /\ m' = new /\ region' = region + 1 /\ cr3' = cr3
      /\ phase' = IF region + 1 = Regions THEN "check_kern_pgdir" ELSE "boot_map_region"
  <2>1. Calls[region + 1].va = va /\ Calls[region + 1].n = n /\ Calls[region + 1].pa = pa
        /\ Calls[region + 1].u = u /\ Calls[region + 1].w = w
    BY DEF Call
  <2>2. Len(Calls) = Regions
    BY CallsAre
  <2> QED
    BY <1>1, <1>8, <2>1, <2>2 DEF MapRegion
<1>10. IsRegion(m', va, n, pa, u, w)
  BY <1>9
<1>11. /\ m'.npages = m.npages /\ m'.nextfree = m.nextfree /\ m'.kern_pgdir = m.kern_pgdir
       /\ m'.pages = m.pages /\ m'.envs = m.envs /\ m'.base = m.base
       /\ m'.page_free_list = l /\ m'.tables = t
       /\ m'.page_free_list \in Seq(Nat) /\ m'.tables \in [Dir -> Int] => m' \in Memory
  BY ONLY <1>10, Zenon DEF IsRegion
<1>12. /\ l \in Seq(Nat) /\ Stock(l, Reserve - (To - From + 1), m.npages) /\ t \in [Dir -> Int]
       /\ \A d \in Dir : IF d \in From .. To THEN t[d] \in Nat /\ Low(t[d]) ELSE t[d] = m.tables[d]
       /\ \A d \in Dir, i \in DOMAIN l : t[d] # l[i]
  BY ONLY <1>7, Zenon DEF IsWalk
<1> HIDE DEF l, t, new
<1>13. m' \in Memory
  BY <1>11, <1>12
<1>14. /\ phase' \in Phase /\ phase' \notin Installed /\ phase' \notin Allocating /\ phase' \notin Unbased
       /\ phase' \notin Untested /\ phase' \notin Unmapped /\ phase' \notin Unlisted
       /\ phase' # "check_page_free_list(1)" /\ phase' # "mm2" /\ phase' # "panic"
  BY <1>9 DEF Phase, Unbased, Unmapped, Untested, Unlisted, Allocating, Installed
<1>15. PhaseInv'
  <2>1. region' \in 0 .. Regions /\ (phase' = "boot_map_region" => region' < Regions)
        /\ (phase' # "boot_map_region" => region' = Regions)
    BY <1>3, <1>9
  <2>2. cr3' = "entry" /\ MmioReturns = "base"
    BY <1>2, <1>9 DEF MemInv, PhaseInv
  <2> QED
    BY <1>14, <2>1, <2>2 DEF PhaseInv, Regions
<1>16. 2 \notin From .. To /\ 2 \in Dir
  BY <1>3, Layout DEF From, To
<1>17. AllocInv'
  <2>1. m'.tables[2] = m.tables[2]
    BY <1>11, <1>12, <1>16
  <2> QED
    BY <1>2, <1>11, <1>14, <2>1, AllocStays
<1>18. \A d : d \in Present' <=> d \in Present \/ d \in From .. To
  <2>1. phase \notin {"i386_detect_memory", "kern_pgdir"} /\ phase' \notin {"i386_detect_memory", "kern_pgdir"}
    BY <1>2, <1>14 DEF Allocating
  <2>2. /\ Present = {2} \cup {3} \cup (IF region >= 1 THEN {1} ELSE {}) \cup (IF region >= 2 THEN {0} ELSE {})
                     \cup (IF region >= 3 THEN {4} ELSE {}) \cup (IF region >= 4 THEN 5 .. 4 + KernTables ELSE {})
        /\ Present' = {2} \cup {3} \cup (IF region + 1 >= 1 THEN {1} ELSE {}) \cup (IF region + 1 >= 2 THEN {0} ELSE {})
                     \cup (IF region + 1 >= 3 THEN {4} ELSE {}) \cup (IF region + 1 >= 4 THEN 5 .. 4 + KernTables ELSE {})
    BY <1>2, <1>9, <1>14, <2>1 DEF Present
  <2>3. CASE region = 0
    <3>1. From .. To = {1}
      BY <2>3 DEF From, To
    <3> QED
      BY <2>2, <2>3, <3>1
  <2>4. CASE region = 1
    <3>1. From .. To = {0}
      BY <2>4 DEF From, To
    <3> QED
      BY <2>2, <2>4, <3>1
  <2>5. CASE region = 2
    <3>1. From .. To = {4}
      BY <2>5 DEF From, To
    <3> QED
      BY <2>2, <2>5, <3>1
  <2>6. CASE region = 3
    <3>1. From .. To = 5 .. 4 + KernTables
      BY <2>6 DEF From, To
    <3>2. region >= 1 /\ region >= 2 /\ region >= 3 /\ ~(region >= 4)
          /\ region + 1 >= 1 /\ region + 1 >= 2 /\ region + 1 >= 3 /\ region + 1 >= 4
      BY <2>6
    <3>3. Present' = Present \cup (From .. To)
      BY <2>2, <3>1, <3>2, Zenon
    <3> QED
      BY <3>3, Zenon
  <2>7. CASE region >= 4
    <3>1. From .. To = {}
      BY <2>7, <1>3 DEF From, To
    <3> QED
      BY <1>3, <2>2, <2>7, <3>1
  <2> QED
    BY <1>3, <2>3, <2>4, <2>5, <2>6, <2>7
<1>19. TablesInv'
  BY <1>4, <1>11, <1>12, <1>18 DEF TablesInv
<1>20. ListInv'
  <2>1. Reserve' = Reserve - (To - From + 1)
    <3>1. Reserve' = IF region + 1 >= 4 THEN 0 ELSE KernTables + 3 - (region + 1)
      BY <1>9, <1>14 DEF Reserve
    <3> QED
      BY <1>3, <1>5, <3>1 DEF From, To
  <2> QED
    BY <1>11, <1>12, <1>14, <2>1 DEF ListInv
<1>21. PteInv'
  <2>1. va \in Nat /\ n \in Nat /\ pa \in Nat /\ TRUE \in BOOLEAN /\ FALSE \in BOOLEAN /\ Right(va, n, pa, u, w)
    OBVIOUS
  <2>2. CASE u = TRUE /\ w = FALSE
    <3>1. IsRegion(m', va, n, pa, TRUE, FALSE) /\ Right(va, n, pa, TRUE, FALSE)
      BY <1>10, <2>1, <2>2
    <3> QED
      BY ONLY <1>3, <1>4, <1>9, <2>1, <3>1, RightKeeps
  <2>3. CASE u = FALSE /\ w = TRUE
    <3>1. IsRegion(m', va, n, pa, FALSE, TRUE) /\ Right(va, n, pa, FALSE, TRUE)
      BY <1>10, <2>1, <2>3
    <3> QED
      BY ONLY <1>3, <1>4, <1>9, <2>1, <3>1, RightKeeps
  <2> QED
    BY <2>2, <2>3
<1>22. BaseInv'
  <2>1. m.base = MMIOBASE + 3
    BY <1>1, <1>2 DEF MemInv, BaseInv
  <2> QED
    BY <1>11, <1>14, <2>1 DEF BaseInv
<1> QED
  BY <1>13, <1>15, <1>17, <1>19, <1>20, <1>21, <1>22 DEF MemInv

\* The page tables that pgdir_walk misses.
LEMMA MissingIs ==
  ASSUME TablesInv, NEW va, NEW n, PDX(va) .. PDX(va + n - 1) \subseteq Dir
  PROVE  Missing(m, va, n) = {d \in PDX(va) .. PDX(va + n - 1) : d \notin Present}
<1>1. \A d \in Dir : m.tables[d] = NoTable <=> d \notin Present
  BY DEF TablesInv, NoTable
<1> QED
  BY <1>1 DEF Missing

\* Where the invariant is when boot_map_region is called.
LEMMA AtCall ==
  ASSUME MemInv, MapRegion
  PROVE  /\ m \in Memory /\ TablesInv /\ region \in Nat /\ region < Regions
         /\ Present = {2, 3} \cup (IF region >= 1 THEN {1} ELSE {}) \cup (IF region >= 2 THEN {0} ELSE {})
                     \cup (IF region >= 3 THEN {4} ELSE {}) \cup (IF region >= 4 THEN 5 .. 4 + KernTables ELSE {})
         /\ m.pages \in Nat /\ m.envs \in Nat /\ m.nextfree \in Nat /\ m.envs = m.pages + Up(m.npages, PerPage)
         /\ m.nextfree = m.envs + EnvPages /\ Up(m.npages, PerPage) \in Nat /\ Up(m.npages, PerPage) > 0
         /\ Up(m.npages, PerPage) <= NPT /\ EnvPages <= NPT
<1>1. phase = "boot_map_region"
  BY DEF MapRegion
<1>2. phase \notin Allocating /\ phase \notin Unmapped /\ phase \notin {"i386_detect_memory", "kern_pgdir"}
  BY <1>1 DEF Unmapped, Untested, Unlisted, Allocating
<1>3. region \in Nat /\ region < Regions
  BY <1>1, Constants DEF MemInv, PhaseInv, Regions
<1>4. Present = {2, 3} \cup (IF region >= 1 THEN {1} ELSE {}) \cup (IF region >= 2 THEN {0} ELSE {})
                     \cup (IF region >= 3 THEN {4} ELSE {}) \cup (IF region >= 4 THEN 5 .. 4 + KernTables ELSE {})
  BY <1>2 DEF Present
<1>5. /\ m.kern_pgdir \in Ends /\ Size(m.npages)
      /\ m.pages \in Nat /\ m.envs \in Nat /\ m.nextfree \in Nat /\ m.envs = m.pages + Up(m.npages, PerPage)
      /\ m.nextfree = m.envs + EnvPages
  BY <1>2, Arrays
<1>6. /\ Up(m.npages, PerPage) \in Nat /\ Up(m.npages, PerPage) > 0
      /\ Up(m.npages, PerPage) <= NPT /\ EnvPages <= NPT
  BY <1>5, Machine
<1> QED
  BY <1>3, <1>4, <1>5, <1>6 DEF MemInv

\* The stacks, seen from the other regions.
LEMMA Stacks ==
  \A k \in 0 .. NCPU - 1 :
    /\ StackBottom(k) \in Nat /\ 4 * NPT <= StackBottom(k) /\ StackBottom(k) + KSTKSIZE <= 5 * NPT
    /\ Stack(k) = StackBottom(k) .. StackBottom(k) + KSTKSIZE - 1
<1> SUFFICES ASSUME NEW k \in 0 .. NCPU - 1
             PROVE  /\ StackBottom(k) \in Nat /\ 4 * NPT <= StackBottom(k) /\ StackBottom(k) + KSTKSIZE <= 5 * NPT
                    /\ Stack(k) = StackBottom(k) .. StackBottom(k) + KSTKSIZE - 1
  OBVIOUS
<1>1. /\ StackBottom(k) \in Nat /\ 4 * NPT + KSTKGAP <= StackBottom(k) /\ StackBottom(k) + KSTKSIZE <= 5 * NPT
      /\ Stack(k) = StackBottom(k) .. StackBottom(k) + KSTKSIZE - 1
  BY StackPlace
<1> QED
  BY <1>1, Constants

\* pages, read-only for user code.
LEMMA UpagesKeeps ==
  ASSUME MemInv, MapRegion, region = 0
  PROVE  MemInv'
<1> USE Constants
<1> DEFINE N == KernTables * NPT
           up == Up(m.npages, PerPage)
           va == UPAGES
           I == va .. va + up - 1
<1>1. /\ UENVS = 0 /\ UPAGES = NPT /\ MMIOLIM = 4 * NPT /\ KSTACKTOP = 5 * NPT /\ KERNBASE = 5 * NPT
      /\ N \in Nat /\ VPage = 0 .. 5 * NPT + N - 1
  BY Layout
<1>2. /\ m \in Memory /\ TablesInv
      /\ Present = {2, 3}
      /\ m.pages \in Nat /\ m.envs \in Nat /\ m.nextfree \in Nat /\ m.envs = m.pages + up
      /\ m.nextfree = m.envs + EnvPages /\ up \in Nat /\ up > 0
      /\ up <= NPT /\ EnvPages <= NPT
  BY AtCall
<1> HIDE DEF N, up
<1>3. va \in Nat /\ I \subseteq NPT .. 2 * NPT - 1 /\ I \subseteq VPage
  BY <1>1, <1>2
<1>4. PDX(va) = 1 /\ PDX(va + up - 1) = 1
  <2>1. va \in NPT .. 2 * NPT - 1 /\ va + up - 1 \in NPT .. 2 * NPT - 1
    BY <1>1, <1>2
  <2> QED
    BY <2>1, Pdxs
<1>5. PDX(va) .. PDX(va + up - 1) = {1} /\ From .. To = {1} /\ 1 \in Dir
  BY <1>4, Layout DEF From, To
<1>6. Missing(m, va, up) = From .. To /\ PDX(va) .. PDX(va + up - 1) \subseteq Dir
  <2>1. PDX(va) .. PDX(va + up - 1) \subseteq Dir
    BY <1>5
  <2>2. Missing(m, va, up) = {d \in PDX(va) .. PDX(va + up - 1) : d \notin Present}
    BY <1>2, <2>1, MissingIs
  <2>3. 1 \notin Present
    BY <1>2
  <2>4. {d \in {1} : d \notin Present} = {1}
    BY <2>3, Zenon
  <2> QED
    BY ONLY <1>5, <2>1, <2>2, <2>4
<1>7. IsRegion(boot_map_region(m, va, up, m.pages, TRUE, FALSE), va, up, m.pages, TRUE, FALSE)
  <2>1. TRUE \in BOOLEAN /\ FALSE \in BOOLEAN /\ m.pages \in Nat
    BY <1>2
  <2> QED
    BY ONLY <1>2, <1>3, <2>1, RegionEntries
<1>8. Right(va, up, m.pages, TRUE, FALSE)
  <2>1. \A v \in I : m.pages + v - va \in m.pages .. m.nextfree - 1
    BY <1>1, <1>2
  <2>2. \A i \in 0 .. up - 1 : UPAGES + i \in I /\ m.pages + (UPAGES + i) - va = m.pages + i
    BY <1>1, <1>2
  <2>3. \A i \in 0 .. EnvPages - 1 : UENVS + i \notin I
    BY <1>1, <1>2
  <2>4. \A p \in 0 .. N - 1 : KERNBASE + p \notin I
    BY <1>1, <1>2
  <2>5. \A k \in 0 .. NCPU - 1 : region # 4 + k /\ ~(region > 4 + k)
    OBVIOUS
  <2>6. \A v \in I : v \notin MMIOLIM .. KSTACKTOP - 1
    BY <1>1, <1>2
  <2> QED
    BY <2>1, <2>2, <2>3, <2>4, <2>5, <2>6 DEF Right, N, up
<1>9. Calls[region + 1] = Call(va, up, m.pages, TRUE, FALSE)
  <2>1. region + 1 = 1
    OBVIOUS
  <2>2. Calls[1] = Call(va, up, m.pages, TRUE, FALSE)
    BY CallsAre DEF up
  <2> QED
    BY <2>1, <2>2
<1> HIDE DEF va
<1> QED
  BY <1>2, <1>3, <1>6, <1>7, <1>8, <1>9, CallKeeps

\* envs, read-only for user code.
LEMMA UenvsKeeps ==
  ASSUME MemInv, MapRegion, region = 1
  PROVE  MemInv'
<1> USE Constants
<1> DEFINE N == KernTables * NPT
           up == Up(m.npages, PerPage)
           va == UENVS
           n == EnvPages
           I == va .. va + n - 1
<1>1. /\ UENVS = 0 /\ UPAGES = NPT /\ MMIOLIM = 4 * NPT /\ KSTACKTOP = 5 * NPT /\ KERNBASE = 5 * NPT
      /\ N \in Nat /\ VPage = 0 .. 5 * NPT + N - 1
  BY Layout
<1>2. /\ m \in Memory /\ TablesInv
      /\ Present = {2, 3, 1}
      /\ m.pages \in Nat /\ m.envs \in Nat /\ m.nextfree \in Nat /\ m.envs = m.pages + up
      /\ m.nextfree = m.envs + EnvPages /\ up \in Nat /\ up > 0
      /\ up <= NPT /\ EnvPages <= NPT
  BY AtCall
<1> HIDE DEF N, up
<1>3. va \in Nat /\ I \subseteq 0 .. NPT - 1 /\ I \subseteq VPage
  BY <1>1, <1>2
<1>4. PDX(va) = 0 /\ PDX(va + n - 1) = 0
  <2>1. va \in 0 .. NPT - 1 /\ va + n - 1 \in 0 .. NPT - 1
    BY <1>1, <1>2
  <2> QED
    BY <2>1, Pdxs
<1>5. PDX(va) .. PDX(va + n - 1) = {0} /\ From .. To = {0} /\ 0 \in Dir
  BY <1>4, Layout DEF From, To
<1>6. Missing(m, va, n) = From .. To /\ PDX(va) .. PDX(va + n - 1) \subseteq Dir
  <2>1. PDX(va) .. PDX(va + n - 1) \subseteq Dir
    BY <1>5
  <2>2. Missing(m, va, n) = {d \in PDX(va) .. PDX(va + n - 1) : d \notin Present}
    BY <1>2, <2>1, MissingIs
  <2>3. 0 \notin Present
    BY <1>2
  <2>4. {d \in {0} : d \notin Present} = {0}
    BY <2>3, Zenon
  <2> QED
    BY ONLY <1>5, <2>1, <2>2, <2>4
<1>7. IsRegion(boot_map_region(m, va, n, m.envs, TRUE, FALSE), va, n, m.envs, TRUE, FALSE)
  <2>1. TRUE \in BOOLEAN /\ FALSE \in BOOLEAN /\ m.envs \in Nat /\ n \in Nat
    BY <1>2
  <2> QED
    BY ONLY <1>2, <1>3, <2>1, RegionEntries
<1>8. Right(va, n, m.envs, TRUE, FALSE)
  <2>1. \A v \in I : m.envs + v - va \in m.pages .. m.nextfree - 1
    BY <1>1, <1>2
  <2>2. \A i \in 0 .. up - 1 : UPAGES + i \notin I
    BY <1>1, <1>2
  <2>3. \A i \in 0 .. EnvPages - 1 : UENVS + i \in I /\ m.envs + (UENVS + i) - va = m.envs + i
    BY <1>1, <1>2
  <2>4. \A p \in 0 .. N - 1 : KERNBASE + p \notin I
    BY <1>1, <1>2
  <2>5. \A k \in 0 .. NCPU - 1 : region # 4 + k /\ ~(region > 4 + k)
    OBVIOUS
  <2>6. \A v \in I : v \notin MMIOLIM .. KSTACKTOP - 1
    BY <1>1, <1>2
  <2> QED
    BY <2>1, <2>2, <2>3, <2>4, <2>5, <2>6 DEF Right, N, up
<1>9. Calls[region + 1] = Call(va, n, m.envs, TRUE, FALSE)
  <2>1. region + 1 = 2
    OBVIOUS
  <2>2. Calls[2] = Call(va, n, m.envs, TRUE, FALSE)
    BY CallsAre
  <2> QED
    BY <2>1, <2>2
<1> HIDE DEF va, n
<1>10. n \in Nat
  BY DEF n
<1> QED
  BY <1>2, <1>3, <1>6, <1>7, <1>8, <1>9, <1>10, CallKeeps

\* bootstack, below KSTACKTOP.
LEMMA BootstackKeeps ==
  ASSUME MemInv, MapRegion, region = 2
  PROVE  MemInv'
<1> USE Constants
<1> DEFINE N == KernTables * NPT
           up == Up(m.npages, PerPage)
           va == KSTACKTOP - KSTKSIZE
           n == KSTKSIZE
           I == va .. va + n - 1
<1>1. /\ UENVS = 0 /\ UPAGES = NPT /\ MMIOLIM = 4 * NPT /\ KSTACKTOP = 5 * NPT /\ KERNBASE = 5 * NPT
      /\ N \in Nat /\ VPage = 0 .. 5 * NPT + N - 1
  BY Layout
<1>2. /\ m \in Memory /\ TablesInv
      /\ Present = {2, 3, 1, 0}
      /\ m.pages \in Nat /\ m.envs \in Nat /\ m.nextfree \in Nat /\ m.envs = m.pages + up
      /\ m.nextfree = m.envs + EnvPages /\ up \in Nat /\ up > 0
      /\ up <= NPT /\ EnvPages <= NPT
  BY AtCall
<1> HIDE DEF N, up
<1>3. StackBottom(0) = 5 * NPT - KSTKSIZE /\ KSTKSIZE <= NPT /\ Stack(0) = 5 * NPT - KSTKSIZE .. 5 * NPT - 1
  <2>1. StackBottom(0) = 5 * NPT - 0 * (KSTKSIZE + KSTKGAP) - KSTKSIZE
    BY <1>1 DEF StackBottom
  <2>2. StackBottom(0) = 5 * NPT - KSTKSIZE
    BY <2>1
  <2>3. 0 \in 0 .. NCPU - 1
    OBVIOUS
  <2>4. 4 * NPT <= StackBottom(0) /\ Stack(0) = StackBottom(0) .. StackBottom(0) + KSTKSIZE - 1
    BY <2>3, Stacks
  <2> QED
    BY <2>2, <2>4
<1>4. va \in Nat /\ I \subseteq 4 * NPT .. 5 * NPT - 1 /\ I \subseteq VPage
  BY <1>1, <1>2, <1>3
<1>5. PDX(va) = 4 /\ PDX(va + n - 1) = 4
  <2>1. va \in 4 * NPT .. 5 * NPT - 1 /\ va + n - 1 \in 4 * NPT .. 5 * NPT - 1
    BY <1>1, <1>2, <1>3
  <2> QED
    BY <2>1, Pdxs
<1>6. PDX(va) .. PDX(va + n - 1) = {4} /\ From .. To = {4} /\ 4 \in Dir
  BY <1>5, Layout DEF From, To
<1>7. Missing(m, va, n) = From .. To /\ PDX(va) .. PDX(va + n - 1) \subseteq Dir
  <2>1. PDX(va) .. PDX(va + n - 1) \subseteq Dir
    BY <1>6
  <2>2. Missing(m, va, n) = {d \in PDX(va) .. PDX(va + n - 1) : d \notin Present}
    BY <1>2, <2>1, MissingIs
  <2>3. 4 \notin Present
    BY <1>2
  <2>4. {d \in {4} : d \notin Present} = {4}
    BY <2>3, Zenon
  <2> QED
    BY ONLY <1>6, <2>1, <2>2, <2>4
<1>8. IsRegion(boot_map_region(m, va, n, Bootstack, FALSE, TRUE), va, n, Bootstack, FALSE, TRUE)
  <2>1. TRUE \in BOOLEAN /\ FALSE \in BOOLEAN /\ Bootstack \in Nat /\ n \in Nat
    OBVIOUS
  <2> QED
    BY ONLY <1>2, <1>4, <2>1, RegionEntries
<1>9. Right(va, n, Bootstack, FALSE, TRUE)
  <2>1. \A i \in 0 .. up - 1 : UPAGES + i \notin I
    BY <1>1, <1>2, <1>3
  <2>2. \A i \in 0 .. EnvPages - 1 : UENVS + i \notin I
    BY <1>1, <1>2, <1>3
  <2>3. \A p \in 0 .. N - 1 : KERNBASE + p \notin I
    BY <1>1, <1>2, <1>3
  <2>4. \A k \in 0 .. NCPU - 1 : region # 4 + k /\ ~(region > 4 + k)
    OBVIOUS
  <2>5. \A v \in I : v \in Stack(0)
    BY <1>1, <1>3
  <2>6. 0 \in 0 .. NCPU - 1
    OBVIOUS
  <2> QED
    BY <2>1, <2>2, <2>3, <2>4, <2>5, <2>6 DEF Right, N, up
<1>10. Calls[region + 1] = Call(va, n, Bootstack, FALSE, TRUE)
  <2>1. region + 1 = 3
    OBVIOUS
  <2>2. Calls[3] = Call(va, n, Bootstack, FALSE, TRUE)
    BY CallsAre
  <2> QED
    BY <2>1, <2>2
<1> HIDE DEF va, n
<1>11. n \in Nat
  BY DEF n
<1> QED
  BY <1>2, <1>4, <1>7, <1>8, <1>9, <1>10, <1>11, CallKeeps

\* All of memory, behind KERNBASE.
LEMMA KernbaseKeeps ==
  ASSUME MemInv, MapRegion, region = 3
  PROVE  MemInv'
<1> USE Constants
<1> DEFINE N == KernTables * NPT
           up == Up(m.npages, PerPage)
           va == KERNBASE
           n == KernTables * NPT
           I == va .. va + n - 1
<1>1. /\ UENVS = 0 /\ UPAGES = NPT /\ MMIOLIM = 4 * NPT /\ KSTACKTOP = 5 * NPT /\ KERNBASE = 5 * NPT
      /\ N \in Nat /\ VPage = 0 .. 5 * NPT + N - 1
  BY Layout
<1>2. /\ m \in Memory /\ TablesInv
      /\ Present = {2, 3, 1, 0, 4}
      /\ m.pages \in Nat /\ m.envs \in Nat /\ m.nextfree \in Nat /\ m.envs = m.pages + up
      /\ m.nextfree = m.envs + EnvPages /\ up \in Nat /\ up > 0
      /\ up <= NPT /\ EnvPages <= NPT
  BY AtCall
<1>3. KernTables > 0 /\ N >= NPT
  <2>1. phase \notin Allocating
    BY DEF MapRegion, Allocating
  <2>2. m.kern_pgdir \in Ends /\ Size(m.npages)
    BY <2>1, Arrays
  <2>3. KernTables > 0
    BY <2>2, Machine
  <2> QED
    BY <2>3
<1>4. PDX(va) = 5 /\ PDX(va + n - 1) = 4 + KernTables
  BY <1>1, <1>3, Pdxs
<1> HIDE DEF N, up
<1>5. n = N
  BY DEF N
<1> HIDE DEF n
<1>6. va \in Nat /\ I \subseteq 5 * NPT .. 5 * NPT + N - 1 /\ I \subseteq VPage /\ I = 5 * NPT .. 5 * NPT + N - 1
  BY <1>1, <1>5
<1>7. /\ PDX(va) .. PDX(va + n - 1) = 5 .. 4 + KernTables /\ From .. To = 5 .. 4 + KernTables
      /\ 5 .. 4 + KernTables \subseteq Dir
  BY <1>4, Layout DEF From, To, Dir
<1>8. Missing(m, va, n) = From .. To /\ PDX(va) .. PDX(va + n - 1) \subseteq Dir
  <2>1. PDX(va) .. PDX(va + n - 1) \subseteq Dir
    BY <1>7
  <2>2. Missing(m, va, n) = {d \in PDX(va) .. PDX(va + n - 1) : d \notin Present}
    BY <1>2, <2>1, MissingIs
  <2>3. \A d \in 5 .. 4 + KernTables : d \notin Present
    BY <1>2
  <2>4. {d \in 5 .. 4 + KernTables : d \notin Present} = 5 .. 4 + KernTables
    BY <2>3, Zenon
  <2> QED
    BY ONLY <1>7, <2>1, <2>2, <2>4
<1>9. IsRegion(boot_map_region(m, va, n, 0, FALSE, TRUE), va, n, 0, FALSE, TRUE)
  <2>1. TRUE \in BOOLEAN /\ FALSE \in BOOLEAN /\ 0 \in Nat /\ n \in Nat
    BY <1>1, <1>5
  <2> QED
    BY ONLY <1>2, <1>6, <2>1, RegionEntries
<1>10. Right(va, n, 0, FALSE, TRUE)
  <2>1. \A i \in 0 .. up - 1 : UPAGES + i \notin I
    BY <1>1, <1>2, <1>6
  <2>2. \A i \in 0 .. EnvPages - 1 : UENVS + i \notin I
    BY <1>1, <1>2, <1>6
  <2>3. ASSUME NEW p \in 0 .. N - 1 PROVE KERNBASE + p \in I /\ 0 + (KERNBASE + p) - va = p
    <3>1. KERNBASE + p \in 5 * NPT .. 5 * NPT + N - 1
      BY <1>1
    <3>2. 0 + (KERNBASE + p) - va = p
      BY <1>1
    <3> QED
      BY <1>6, <3>1, <3>2
  <2>4. \A k \in 0 .. NCPU - 1 : region # 4 + k /\ ~(region > 4 + k)
    OBVIOUS
  <2>5. \A v \in I : v \notin MMIOLIM .. KSTACKTOP - 1
    BY <1>1, <1>6
  <2> QED
    BY <2>1, <2>2, <2>3, <2>4, <2>5 DEF Right, N, up
<1>11. Calls[region + 1] = Call(va, n, 0, FALSE, TRUE)
  <2>1. region + 1 = 4
    OBVIOUS
  <2>2. Calls[4] = Call(va, n, 0, FALSE, TRUE)
    BY CallsAre DEF n
  <2> QED
    BY <2>1, <2>2
<1>12. n \in Nat
  BY <1>1, <1>5
<1> HIDE DEF va
<1> QED
  BY <1>2, <1>6, <1>8, <1>9, <1>10, <1>11, <1>12, CallKeeps

\* The stack of a CPU.
LEMMA KstackKeeps ==
  ASSUME MemInv, MapRegion, region >= 4
  PROVE  MemInv'
<1> USE Constants
<1> DEFINE N == KernTables * NPT
           up == Up(m.npages, PerPage)
           k == region - 4
           va == StackBottom(k)
           n == KSTKSIZE
           pa == Kstacks + k * KSTKSIZE
           I == va .. va + n - 1
<1>1. /\ UENVS = 0 /\ UPAGES = NPT /\ MMIOLIM = 4 * NPT /\ KSTACKTOP = 5 * NPT /\ KERNBASE = 5 * NPT
      /\ N \in Nat /\ VPage = 0 .. 5 * NPT + N - 1
  BY Layout
<1>2. /\ m \in Memory /\ TablesInv /\ region \in Nat /\ region < Regions
      /\ 4 \in Present
      /\ m.pages \in Nat /\ m.envs \in Nat /\ m.nextfree \in Nat /\ m.envs = m.pages + up
      /\ m.nextfree = m.envs + EnvPages /\ up \in Nat /\ up > 0
      /\ up <= NPT /\ EnvPages <= NPT
  <2>1. region \in Nat
    BY AtCall
  <2>2. region >= 3
    BY <2>1
  <2> QED
    BY <2>1, <2>2, AtCall
<1>3. k \in 0 .. NCPU - 1 /\ region = 4 + k /\ k \in Nat
  BY <1>2 DEF Regions
<1>4. pa \in Nat
  <2>1. k * KSTKSIZE \in Nat
    BY <1>3
  <2> QED
    BY <2>1
<1> HIDE DEF k
<1>5. /\ va \in Nat /\ 4 * NPT + KSTKGAP <= va /\ va + KSTKSIZE <= 5 * NPT
      /\ Stack(k) = I
      /\ \A j \in 0 .. k - 1 : va + KSTKSIZE + KSTKGAP <= StackBottom(j)
  BY <1>3, StackPlace
<1> HIDE DEF N, up, va, pa
<1>6. va \in Nat /\ I \subseteq 4 * NPT .. 5 * NPT - 1 /\ I \subseteq VPage
  BY <1>1, <1>2, <1>5
<1>7. PDX(va) = 4 /\ PDX(va + n - 1) = 4
  <2>1. va \in 4 * NPT .. 5 * NPT - 1 /\ va + n - 1 \in 4 * NPT .. 5 * NPT - 1
    BY <1>5
  <2> QED
    BY <2>1, Pdxs
<1>8. PDX(va) .. PDX(va + n - 1) = {4} /\ From .. To = {} /\ 4 \in Dir
  BY <1>7, <1>2, Layout DEF From, To
<1>9. Missing(m, va, n) = From .. To /\ PDX(va) .. PDX(va + n - 1) \subseteq Dir
  <2>1. PDX(va) .. PDX(va + n - 1) \subseteq Dir
    BY <1>8
  <2>2. Missing(m, va, n) = {d \in PDX(va) .. PDX(va + n - 1) : d \notin Present}
    BY <1>2, <2>1, MissingIs
  <2>3. {d \in {4} : d \notin Present} = {}
    BY <1>2, Zenon
  <2> QED
    BY ONLY <1>8, <2>1, <2>2, <2>3
<1>10. IsRegion(boot_map_region(m, va, n, pa, FALSE, TRUE), va, n, pa, FALSE, TRUE)
  <2>1. TRUE \in BOOLEAN /\ FALSE \in BOOLEAN /\ n \in Nat
    OBVIOUS
  <2> QED
    BY ONLY <1>2, <1>4, <1>6, <2>1, RegionEntries
<1>11. Right(va, n, pa, FALSE, TRUE)
  <2>1. \A i \in 0 .. up - 1 : UPAGES + i \notin I
    BY <1>1, <1>2, <1>5
  <2>2. \A i \in 0 .. EnvPages - 1 : UENVS + i \notin I
    BY <1>1, <1>2, <1>5
  <2>3. \A p \in 0 .. N - 1 : KERNBASE + p \notin I
    BY <1>1, <1>2, <1>5
  <2>4. ASSUME NEW j \in 0 .. NCPU - 1, NEW i \in 0 .. KSTKSIZE - 1
        PROVE  IF region = 4 + j
               THEN StackBottom(j) + i \in I /\ pa + (StackBottom(j) + i) - va = Kstacks + j * KSTKSIZE + i
               ELSE region > 4 + j => StackBottom(j) + i \notin I
    <3>1. CASE region = 4 + j
      <4>1. j = k
        BY <1>3, <3>1
      <4>2. StackBottom(j) = va /\ Kstacks + j * KSTKSIZE = pa
        BY <4>1 DEF va, pa
      <4> QED
        BY <1>4, <1>5, <3>1, <4>2
    <3>2. CASE region > 4 + j
      <4>1. j \in 0 .. k - 1
        BY <1>3, <3>2
      <4>2. va + KSTKSIZE + KSTKGAP <= StackBottom(j) /\ StackBottom(j) \in Nat
        BY <1>5, <4>1, Stacks
      <4> QED
        BY <1>5, <3>2, <4>2
    <3> QED
      BY <3>1, <3>2
  <2>5. \A v \in I : v \in Stack(k)
    BY <1>5
  <2>6. region # 0 /\ region # 1 /\ region # 3
    BY <1>2
  <2> QED
    BY <1>3, <2>1, <2>2, <2>3, <2>4, <2>5, <2>6 DEF Right, N, up
<1>12. Calls[region + 1] = Call(va, n, pa, FALSE, TRUE)
  <2>1. region + 1 = 5 + k
    BY <1>3
  <2>2. Calls[5 + k] = Call(va, n, pa, FALSE, TRUE)
    BY <1>3, CallsAre DEF va, pa
  <2> QED
    BY <2>1, <2>2
<1> HIDE DEF n
<1>13. n \in Nat
  BY DEF n
<1> QED
  BY <1>2, <1>4, <1>6, <1>9, <1>10, <1>11, <1>12, <1>13, CallKeeps

\* A call of boot_map_region.
LEMMA MapRegionKeeps ==
  ASSUME MemInv, MapRegion
  PROVE  MemInv'
<1>1. region \in Nat
  BY AtCall
<1>2. region = 0 \/ region = 1 \/ region = 2 \/ region = 3 \/ region >= 4
  BY <1>1
<1> QED
  BY <1>2, UpagesKeeps, UenvsKeeps, BootstackKeeps, KernbaseKeeps, KstackKeeps

-----------------------------------------------------------------------------
(* The end of mem_init.                                                      *)

\* When the calls of boot_map_region are done every directory entry has its page table.
LEMMA AllPresent ==
  ASSUME MemInv, phase \notin Unbased \cup {"boot_map_region"}
  PROVE  /\ region = Regions /\ region \in Nat /\ region >= 4 + NCPU /\ phase \notin Allocating
         /\ \A d \in Dir : m.tables[d] \in Nat /\ Low(m.tables[d])
<1> USE Constants
<1>1. region = Regions /\ region \in Nat /\ region >= 4 + NCPU
  BY DEF MemInv, PhaseInv, Regions
<1>2. phase \notin Allocating /\ phase \notin Unmapped /\ phase \notin {"i386_detect_memory", "kern_pgdir"}
  BY DEF Unbased, Unmapped, Untested, Unlisted, Allocating
<1>3. region >= 1 /\ region >= 2 /\ region >= 3 /\ region >= 4
  BY <1>1
<1>4. Present = {2} \cup {3} \cup {1} \cup {0} \cup {4} \cup 5 .. 4 + KernTables
  BY <1>2, <1>3, Zenon DEF Present
<1>5. \A d \in Dir : d \in Present
  BY <1>4, Layout
<1> QED
  BY <1>1, <1>2, <1>5 DEF MemInv, TablesInv

\* check_va2pa finds them.
LEMMA Va2pa ==
  ASSUME MemInv, phase \notin Unbased \cup {"boot_map_region"}, NEW v,
         v \in 0 .. 2 * NPT - 1 \/ v \in 4 * NPT .. 5 * NPT + KernTables * NPT - 1
  PROVE  check_va2pa(v) = m.pte[v].pp
<1> USE Constants
<1>1. PDX(v) \in Dir
  <2>1. CASE v \in 0 .. NPT - 1
    BY <2>1, Pdxs, Layout
  <2>2. CASE v \in NPT .. 2 * NPT - 1
    BY <2>2, Pdxs, Layout
  <2>3. CASE v \in 4 * NPT .. 5 * NPT - 1
    BY <2>3, Pdxs, Layout
  <2>4. CASE v \in 5 * NPT .. 5 * NPT + KernTables * NPT - 1
    <3>1. PDX(v) \in 5 .. 4 + KernTables
      BY <2>4, Pdxs
    <3> QED
      BY <3>1, Layout
  <2> DEFINE N == KernTables * NPT
  <2>5. N \in Nat /\ (v \in 0 .. 2 * NPT - 1 \/ v \in 4 * NPT .. 5 * NPT + N - 1)
    BY Layout
  <2> HIDE DEF N
  <2>6. v \in 0 .. NPT - 1 \/ v \in NPT .. 2 * NPT - 1 \/ v \in 4 * NPT .. 5 * NPT - 1 \/ v \in 5 * NPT .. 5 * NPT + N - 1
    BY <2>5
  <2> QED
    BY <2>1, <2>2, <2>3, <2>4, <2>6 DEF N
<1>2. m.tables[PDX(v)] # NoTable
  BY <1>1, AllPresent DEF NoTable
<1> QED
  BY <1>2 DEF check_va2pa

\* The gap below a stack is nobody's stack.
LEMMA Gap ==
  ASSUME NEW n \in 0 .. NCPU - 1, NEW i \in 0 .. KSTKGAP - 1
  PROVE  /\ StackBottom(n) - KSTKGAP + i \in 4 * NPT .. 5 * NPT - 1
         /\ \A k \in 0 .. NCPU - 1 : StackBottom(n) - KSTKGAP + i \notin Stack(k)
<1> USE Constants
<1>1. /\ StackBottom(n) \in Nat /\ 4 * NPT + KSTKGAP <= StackBottom(n) /\ StackBottom(n) + KSTKSIZE <= 5 * NPT
      /\ \A j \in 0 .. n - 1 : StackBottom(n) + KSTKSIZE + KSTKGAP <= StackBottom(j)
  BY StackPlace
<1> DEFINE b == StackBottom(n)
<1>2. b \in Nat /\ 4 * NPT + KSTKGAP <= b /\ b + KSTKSIZE <= 5 * NPT
  BY <1>1
<1> HIDE DEF b
<1>3. b - KSTKGAP + i \in 4 * NPT .. 5 * NPT - 1
  BY <1>2
<1>4. ASSUME NEW k \in 0 .. NCPU - 1 PROVE b - KSTKGAP + i \notin Stack(k)
  <2> DEFINE a == StackBottom(k)
  <2>1. a \in Nat /\ Stack(k) = a .. a + KSTKSIZE - 1
    BY StackPlace
  <2>2. k < n => b + KSTKSIZE + KSTKGAP <= a
    <3>1. k < n => k \in 0 .. n - 1
      OBVIOUS
    <3> QED
      BY <1>1, <3>1 DEF b
  <2>3. n < k => a + KSTKSIZE + KSTKGAP <= b
    <3>1. n < k => n \in 0 .. k - 1
      OBVIOUS
    <3>2. \A j \in 0 .. k - 1 : StackBottom(k) + KSTKSIZE + KSTKGAP <= StackBottom(j)
      BY StackPlace
    <3> QED
      BY <3>1, <3>2 DEF b
  <2>4. n = k => a = b
    BY DEF b
  <2> HIDE DEF a
  <2>5. k < n \/ n < k \/ n = k
    OBVIOUS
  <2> QED
    BY <1>2, <2>1, <2>2, <2>3, <2>4, <2>5
<1> QED
  BY <1>3, <1>4 DEF b

\* check_kern_pgdir finds what it looks for.
LEMMA PgdirOk ==
  ASSUME MemInv, phase \notin Unbased \cup {"boot_map_region"}
  PROVE  KernPgdirOk
<1> USE Constants
<1> DEFINE N == KernTables * NPT
           up == Up(m.npages, PerPage)
<1>1. /\ UENVS = 0 /\ UPAGES = NPT /\ MMIOLIM = 4 * NPT /\ KSTACKTOP = 5 * NPT /\ KERNBASE = 5 * NPT
      /\ N \in Nat
  BY Layout
<1>2. region \in Nat /\ region >= 4 + NCPU /\ phase \notin Allocating /\ \A d \in Dir : m.tables[d] # NoTable
  BY AllPresent DEF NoTable
<1>3. m.kern_pgdir \in Ends /\ Size(m.npages) /\ m.npages \in Nat /\ m.npages <= N
  BY <1>2, Arrays
<1>4. up \in Nat /\ up <= NPT /\ EnvPages <= NPT
  BY <1>3, Machine
<1>5. \A v : v \in 0 .. 2 * NPT - 1 \/ v \in 4 * NPT .. 5 * NPT + N - 1 => check_va2pa(v) = m.pte[v].pp
  BY Va2pa
<1> HIDE DEF N, up
<1>6. ASSUME NEW i \in 0 .. up - 1 PROVE check_va2pa(UPAGES + i) = m.pages + i
  <2>1. UPAGES + i \in 0 .. 2 * NPT - 1
    BY <1>1, <1>4
  <2>2. region >= 1
    BY <1>2
  <2>3. m.pte[UPAGES + i].pp = m.pages + i
    BY <2>2, Zenon DEF MemInv, PteInv, ArrayInv, up
  <2> QED
    BY <1>5, <2>1, <2>3
<1>7. ASSUME NEW i \in 0 .. EnvPages - 1 PROVE check_va2pa(UENVS + i) = m.envs + i
  <2>1. UENVS + i \in 0 .. 2 * NPT - 1
    BY <1>1, <1>4
  <2>2. region >= 2
    BY <1>2
  <2>3. m.pte[UENVS + i].pp = m.envs + i
    BY <2>2, Zenon DEF MemInv, PteInv, ArrayInv
  <2> QED
    BY <1>5, <2>1, <2>3
<1>8. ASSUME NEW p \in 0 .. m.npages - 1 PROVE check_va2pa(KERNBASE + p) = p
  <2>1. KERNBASE + p \in 4 * NPT .. 5 * NPT + N - 1 /\ p \in 0 .. N - 1
    BY <1>1, <1>3
  <2>2. region >= 4
    BY <1>2
  <2>3. m.pte[KERNBASE + p] = [pp |-> p, u |-> FALSE, w |-> TRUE]
    BY <2>1, <2>2, Zenon DEF MemInv, PteInv, KernInv, N
  <2> QED
    BY <1>5, <2>1, <2>3
<1>9. ASSUME NEW n \in 0 .. NCPU - 1
      PROVE  /\ \A i \in 0 .. KSTKSIZE - 1 :
                  check_va2pa(KSTACKTOP - (KSTKSIZE + KSTKGAP) * (n + 1) + KSTKGAP + i) = Kstacks + n * KSTKSIZE + i
             /\ \A i \in 0 .. KSTKGAP - 1 : check_va2pa(KSTACKTOP - (KSTKSIZE + KSTKGAP) * (n + 1) + i) = -1
  <2> DEFINE bottom == KSTACKTOP - (KSTKSIZE + KSTKGAP) * (n + 1)
             b == StackBottom(n)
  <2>1. bottom = b - KSTKGAP /\ bottom \in Int /\ b \in Int
    <3> DEFINE s == KSTKSIZE + KSTKGAP
               t == n * s
    <3>1. s * (n + 1) = t + s /\ t \in Int /\ s \in Int
      OBVIOUS
    <3>2. bottom = 5 * NPT - s * (n + 1) /\ b = 5 * NPT - t - KSTKSIZE
      BY <1>1 DEF StackBottom
    <3>3. s = KSTKSIZE + KSTKGAP
      OBVIOUS
    <3> HIDE DEF s, t, bottom, b
    <3> QED
      BY <3>1, <3>2, <3>3
  <2>2. b \in Nat /\ 4 * NPT + KSTKGAP <= b /\ b + KSTKSIZE <= 5 * NPT
    BY StackPlace
  <2> HIDE DEF bottom, b
  <2>3. ASSUME NEW i \in 0 .. KSTKSIZE - 1 PROVE check_va2pa(bottom + KSTKGAP + i) = Kstacks + n * KSTKSIZE + i
    <3>1. bottom + KSTKGAP + i = b + i /\ b + i \in 4 * NPT .. 5 * NPT + N - 1
      BY <1>1, <2>1, <2>2
    <3>2. region >= 5 + n
      BY <1>2
    <3>3. m.pte[b + i] = [pp |-> Kstacks + n * KSTKSIZE + i, u |-> FALSE, w |-> TRUE]
      BY <3>2, Zenon DEF MemInv, PteInv, KstackInv, b
    <3>4. check_va2pa(b + i) = m.pte[b + i].pp
      BY <1>5, <3>1
    <3> QED
      BY <3>1, <3>3, <3>4
  <2>4. ASSUME NEW i \in 0 .. KSTKGAP - 1 PROVE check_va2pa(bottom + i) = -1
    <3>1. bottom + i = b - KSTKGAP + i
      BY <2>1
    <3>2. b - KSTKGAP + i \in 4 * NPT .. 5 * NPT - 1 /\ \A k \in 0 .. NCPU - 1 : b - KSTKGAP + i \notin Stack(k)
      BY Gap DEF b
    <3>3. bottom + i \in 4 * NPT .. 5 * NPT + N - 1
      BY <1>1, <3>1, <3>2
    <3>4. m.pte[bottom + i] = NoPte
      BY <1>1, <3>1, <3>2 DEF MemInv, PteInv, GapInv
    <3> QED
      BY <1>5, <3>3, <3>4 DEF NoPte
  <2> QED
    BY <2>3, <2>4 DEF bottom
<1> QED
  BY <1>2, <1>6, <1>7, <1>8, <1>9 DEF KernPgdirOk, up

\* The steps that only go on.
LEMMA PhaseStep ==
  ASSUME MemInv, m' = m, region' = region,
         \/ phase = "check_kern_pgdir" /\ phase' = "lcr3" /\ cr3' = cr3
         \/ phase = "lcr3" /\ phase' = "check_page_free_list(0)" /\ cr3' = "kern"
  PROVE  MemInv'
<1>1. /\ phase' \in Phase /\ phase' \notin Unbased \cup {"boot_map_region"} /\ phase' \notin Unmapped
      /\ phase' \notin Allocating /\ phase' \notin Untested /\ phase' \notin Unlisted
      /\ phase' # "check_page_free_list(1)" /\ phase' # "mm2"
  BY DEF Phase, Unbased, Unmapped, Untested, Unlisted, Allocating, Installed
<1>2. /\ phase \in Phase /\ phase \notin Unbased \cup {"boot_map_region"} /\ phase \notin Unmapped
      /\ phase \notin Allocating /\ phase \notin Untested /\ phase \notin Installed /\ phase # "mm2"
  BY DEF Phase, Unbased, Unmapped, Untested, Unlisted, Allocating, Installed
<1>3. PhaseInv'
  BY <1>1, <1>2 DEF MemInv, PhaseInv, Installed, Regions
<1>4. AllocInv'
  BY <1>1, <1>2, AllocStays
<1>5. Present' = Present /\ Reserve' = Reserve
  BY <1>1, <1>2 DEF Present, Reserve, Allocating
<1>6. TablesInv' /\ ListInv'
  BY <1>1, <1>2, <1>5 DEF MemInv, TablesInv, ListInv
<1>7. PteInv'
  BY DEF MemInv, PteInv, UserInv, ArrayInv, KernInv, KstackInv, GapInv
<1>8. BaseInv'
  BY <1>1, <1>2 DEF MemInv, BaseInv
<1> QED
  BY <1>3, <1>4, <1>6, <1>7, <1>8 DEF MemInv

\* check_kern_pgdir reads the page tables through entry_pgdir.
LEMMA CheckKernPgdirKeeps ==
  ASSUME MemInv, check_kern_pgdir
  PROVE  MemInv'
<1>1. phase = "check_kern_pgdir" /\ phase \notin Unbased \cup {"boot_map_region"} /\ phase \notin Installed
  BY DEF check_kern_pgdir, Do, Unbased, Unmapped, Untested, Unlisted, Allocating, Installed
<1>2. KernPgdirOk
  BY <1>1, PgdirOk
<1>3. Reach(ToSet(m.tables))
  <2>1. m.tables \in [Dir -> Int]
    BY Fields DEF MemInv
  <2>2. ToSet(m.tables) = {m.tables[d] : d \in Dir}
    BY <2>1 DEF ToSet
  <2>3. \A p \in ToSet(m.tables) : p \in Nat /\ Low(p)
    BY <1>1, <2>2, AllPresent
  <2> QED
    BY <1>1, <2>3, EntryReach DEF MemInv
<1>4. m' = m /\ phase' = "lcr3" /\ cr3' = cr3 /\ region' = region
  BY <1>2, <1>3, Done DEF check_kern_pgdir
<1> QED
  BY <1>1, <1>4, PhaseStep

\* The kernel stays where it is when kern_pgdir is loaded.
LEMMA Lcr3Keeps ==
  ASSUME MemInv, lcr3
  PROVE  MemInv'
<1> USE Constants
<1>1. phase = "lcr3" /\ phase \notin Unbased \cup {"boot_map_region"} /\ cr3' = "kern" /\ m' = m /\ region' = region
  BY DEF lcr3, Unbased, Unmapped, Untested, Unlisted, Allocating
<1>2. region \in Nat /\ region >= 4 + NCPU /\ phase \notin Allocating
  BY <1>1, AllPresent
<1>3. ASSUME NEW p \in Ext .. m.nextfree - 1 PROVE m.pte[KERNBASE + p].pp = p
  <2> DEFINE N == KernTables * NPT
  <2>1. N \in Nat /\ m.nextfree \in Nat /\ m.nextfree <= FirstFree /\ FirstFree < m.npages /\ m.npages <= N /\ m.npages \in Nat
    BY <1>2, Arrays, Layout
  <2> HIDE DEF N
  <2>2. p \in 0 .. N - 1 /\ region >= 4
    BY <1>2, <2>1
  <2>3. m.pte[KERNBASE + p] = [pp |-> p, u |-> FALSE, w |-> TRUE]
    BY <2>2, Zenon DEF MemInv, PteInv, KernInv, N
  <2> QED
    BY <2>3
<1>4. phase' = "check_page_free_list(0)"
  BY <1>3 DEF lcr3
<1> QED
  BY <1>1, <1>4, PhaseStep

\* The machine comes up in entry_pgdir, with the end of the kernel image as nextfree.
LEMMA MemInitHolds ==
  ASSUME MemInit
  PROVE  MemInv
<1> USE Constants
<1>1. PICK e \in Ends : m = [npages |-> 0, nextfree |-> e, kern_pgdir |-> 0, pages |-> 0, envs |-> 0,
            page_free_list |-> <<>>, tables |-> [d \in Dir |-> NoTable],
            pte |-> [v \in VPage |-> NoPte], base |-> MMIOBASE]
  BY DEF MemInit
<1>2. phase = "i386_detect_memory" /\ cr3 = "entry" /\ region = 0
  BY DEF MemInit
<1>3. MMIOBASE \in Nat /\ e \in Nat
  BY SizeAssumption, Layout
<1>4. [d \in Dir |-> NoTable] \in [Dir -> Int] /\ [v \in VPage |-> NoPte] \in [VPage -> Entry]
  BY DEF NoTable, NoPte, Entry
<1>5. m \in Memory
  BY <1>1, <1>3, <1>4 DEF Memory
<1>6. PhaseInv
  BY <1>2 DEF PhaseInv, Phase, Unbased, Unmapped, Untested, Unlisted, Allocating, Installed, Regions
<1>7. m.nextfree = e /\ m.page_free_list = << >> /\ m.tables = [d \in Dir |-> NoTable] /\ m.pte = [v \in VPage |-> NoPte]
      /\ m.base = MMIOBASE
  BY <1>1
<1>8. AllocInv
  BY <1>2, <1>7 DEF AllocInv, Allocating
<1>9. TablesInv
  <2>1. Present = {}
    BY <1>2 DEF Present, Unmapped, Untested, Unlisted, Allocating
  <2> QED
    BY <1>7, <2>1 DEF TablesInv
<1>10. ListInv
  BY <1>2, <1>7 DEF ListInv, Untested, Unlisted, Allocating
<1>11. PteInv
  <2>1. \A v \in VPage : m.pte[v] = NoPte /\ ~m.pte[v].u
    BY <1>7 DEF NoPte
  <2>2. \A v \in MMIOLIM .. KSTACKTOP - 1 : v \in VPage
    <3> DEFINE N == KernTables * NPT
    <3>1. N \in Nat /\ VPage = 0 .. 5 * NPT + N - 1 /\ MMIOLIM = 4 * NPT /\ KSTACKTOP = 5 * NPT
      BY Layout
    <3> HIDE DEF N
    <3> QED
      BY <3>1
  <2> QED
    BY <1>2, <2>1, <2>2 DEF PteInv, UserInv, ArrayInv, KernInv, KstackInv, GapInv
<1>12. BaseInv
  BY <1>2, <1>7 DEF BaseInv, Unmapped, Untested, Unlisted, Allocating
<1> QED
  BY <1>5, <1>6, <1>8, <1>9, <1>10, <1>11, <1>12 DEF MemInv

\* Every statement of mem_init keeps the invariant.
LEMMA MemInitStep ==
  ASSUME MemInv, MmioInv, mem_init
  PROVE  MemInv'
BY DetectKeeps, KernPgdirKeeps, ArraysKeep, PageInitKeeps, CheckLowKeeps, BorrowersKeep, MmKeeps, UnmapKeeps,
   MapRegionKeeps, CheckKernPgdirKeeps, Lcr3Keeps, CheckAllKeeps DEF mem_init

\* A statement that does not fault.
LEMMA Goes ==
  ASSUME MemInv', NEW here, NEW pages, NEW new, NEW next, Do(here, pages, new, next)
  PROVE  phase = here /\ m' = new /\ phase' = next
<1>1. phase' # "fault"
  BY DEF MemInv, PhaseInv, Phase, Unbased, Unmapped, Untested, Unlisted, Allocating, Installed
<1> QED
  BY <1>1 DEF Do

\* Nothing but the two calls writes to the entries that check_page looks at, before it does.
LEMMA MmioStays ==
  ASSUME MemInv, MmioInv, mem_init, MemInv'
  PROVE  MmioInv'
<1> USE Constants
<1>1. CASE phase' \notin Unmapped \cup {"mm2", "unmap"}
  BY <1>1 DEF MmioInv
<1>2. ASSUME NEW n \in {1, 2}, NEW here, NEW next,
             Do(here, Written(m, m.base, n), mmio_map_region(m, 0, n), next),
             IF n = 2 THEN here = "mm1" /\ next = "mm2" ELSE here = "mm2" /\ next = "unmap"
      PROVE  MmioInv'
  <2> DEFINE new == boot_map_region(m, m.base, n, 0, FALSE, TRUE)
             a == 3 * NPT
             b == IF n = 2 THEN a ELSE a + 2
             z == m.base + n
  <2>1. phase = here /\ phase' = next /\ m' = [new EXCEPT !.base = z]
    BY <1>2, Goes DEF mmio_map_region
  <2>2. phase \notin Installed /\ (phase \in Unmapped <=> n = 2) /\ (phase = "mm2" <=> n = 1)
    BY <1>2, <2>1 DEF Unmapped, Untested, Unlisted, Allocating, Installed
  <2>3. m.base = b /\ MMIOBASE = a
    BY <2>2, Layout DEF MemInv, BaseInv
  <2>4. m \in Memory /\ b \in Nat /\ n \in Nat /\ 0 \in Nat /\ FALSE \in BOOLEAN /\ TRUE \in BOOLEAN
    BY DEF MemInv
  <2>5. /\ b .. b + n - 1 \subseteq VPage
        /\ {a, a + 1, a + 2, a + 3} \subseteq VPage
    <3> DEFINE N == KernTables * NPT
    <3>1. N \in Nat /\ VPage = 0 .. 5 * NPT + N - 1
      BY Layout
    <3> HIDE DEF N
    <3> QED
      BY <3>1
  <2>6. new = boot_map_region(m, b, n, 0, FALSE, TRUE)
    BY <2>3
  <2> HIDE DEF b, a, new, z
  <2>7. IsRegion(new, b, n, 0, FALSE, TRUE)
    BY <2>4, <2>5, <2>6, RegionEntries
  <2>8. /\ \A v \in b .. b + n - 1 : new.pte[v] = [pp |-> 0 + v - b, u |-> FALSE, w |-> TRUE]
        /\ \A v \in VPage \ (b .. b + n - 1) : new.pte[v] = m.pte[v]
    BY <2>7, Zenon DEF IsRegion
  <2>9. m'.pte = new.pte
    BY <2>1
  <2>10. CASE n = 2
    <3>1. b = a /\ a \in Nat
      BY <2>10 DEF a, b
    <3>2. a \in b .. b + n - 1 /\ a + 1 \in b .. b + n - 1 /\ a + 3 \in VPage \ (b .. b + n - 1)
          /\ 0 + a - b = 0 /\ 0 + (a + 1) - b = 1
      BY <2>5, <2>10, <3>1
    <3>3. m'.pte[a] = MmioPage(0) /\ m'.pte[a + 1] = MmioPage(1) /\ m'.pte[a + 3] = m.pte[a + 3]
      BY <2>8, <2>9, <3>2 DEF MmioPage
    <3>4. m.pte[a + 3] = NoPte
      BY <2>2, <2>3, <2>10 DEF MmioInv
    <3>5. phase' = "mm2"
      BY <1>2, <2>1, <2>10
    <3> QED
      BY <2>3, <3>3, <3>4, <3>5 DEF MmioInv
  <2>11. CASE n = 1
    <3>1. b = a + 2 /\ a \in Nat
      BY <2>11 DEF a, b
    <3>2. /\ a \in VPage \ (b .. b + n - 1) /\ a + 1 \in VPage \ (b .. b + n - 1) /\ a + 3 \in VPage \ (b .. b + n - 1)
          /\ a + 2 \in b .. b + n - 1 /\ 0 + (a + 2) - b = 0
      BY <2>5, <2>11, <3>1
    <3>3. m'.pte[a] = m.pte[a] /\ m'.pte[a + 1] = m.pte[a + 1] /\ m'.pte[a + 2] = MmioPage(0) /\ m'.pte[a + 3] = m.pte[a + 3]
      BY <2>8, <2>9, <3>2 DEF MmioPage
    <3>4. m.pte[a] = MmioPage(0) /\ m.pte[a + 1] = MmioPage(1) /\ m.pte[a + 3] = NoPte
      BY <2>2, <2>3, <2>11 DEF MmioInv
    <3> QED
      BY <2>3, <3>3, <3>4 DEF MmioInv
  <2> QED
    BY <2>10, <2>11
<1>3. CASE CheckMm1
  BY <1>2, <1>3 DEF CheckMm1
<1>4. CASE CheckMm2
  BY <1>2, <1>4 DEF CheckMm2
<1>5. CASE phase' \in Unmapped \cup {"mm2", "unmap"} /\ ~CheckMm1 /\ ~CheckMm2
  <2>1. ASSUME phase \in Unmapped, phase' \in Unmapped, m'.pte = m.pte PROVE MmioInv'
    BY <2>1 DEF MmioInv, Unmapped, Untested, Unlisted, Allocating
  <2>2. m \in Memory
    BY DEF MemInv
  <2>3. CASE i386_detect_memory
    <3>1. PICK n : Do("i386_detect_memory", {}, [m EXCEPT !.npages = n], "kern_pgdir")
      BY <2>3 DEF i386_detect_memory
    <3>2. phase = "i386_detect_memory" /\ m' = [m EXCEPT !.npages = n] /\ phase' = "kern_pgdir"
      BY <3>1, Goes
    <3>3. m'.pte = m.pte
      BY <2>2, <3>2 DEF Memory
    <3> QED
      BY <2>1, <3>2, <3>3 DEF Unmapped, Untested, Unlisted, Allocating
  <2>4. CASE KernPgdir
    <3>1. PICK e, f, g : Do("kern_pgdir", {m.nextfree}, [m EXCEPT !.kern_pgdir = e, !.nextfree = f, !.tables = g], "pages")
      BY <2>2, <2>4 DEF KernPgdir, Memory
    <3>2. phase = "kern_pgdir" /\ m' = [m EXCEPT !.kern_pgdir = e, !.nextfree = f, !.tables = g] /\ phase' = "pages"
      BY <3>1, Goes
    <3>3. m'.pte = m.pte
      BY <2>2, <3>2 DEF Memory
    <3> QED
      BY <2>1, <3>2, <3>3 DEF Unmapped, Untested, Unlisted, Allocating
  <2>5. CASE Pages
    <3>1. PICK e, f : Do("pages", {}, [m EXCEPT !.pages = e, !.nextfree = f], "envs")
      BY <2>5 DEF Pages
    <3>2. phase = "pages" /\ m' = [m EXCEPT !.pages = e, !.nextfree = f] /\ phase' = "envs"
      BY <3>1, Goes
    <3>3. m'.pte = m.pte
      BY <2>2, <3>2 DEF Memory
    <3> QED
      BY <2>1, <3>2, <3>3 DEF Unmapped, Untested, Unlisted, Allocating
  <2>6. CASE Envs
    <3>1. PICK e, f : Do("envs", {}, [m EXCEPT !.envs = e, !.nextfree = f], "page_init")
      BY <2>6 DEF Envs
    <3>2. phase = "envs" /\ m' = [m EXCEPT !.envs = e, !.nextfree = f] /\ phase' = "page_init"
      BY <3>1, Goes
    <3>3. m'.pte = m.pte
      BY <2>2, <3>2 DEF Memory
    <3> QED
      BY <2>1, <3>2, <3>3 DEF Unmapped, Untested, Unlisted, Allocating
  <2>7. ASSUME phase \in Unmapped, NEW l, m' = [m EXCEPT !.page_free_list = l], phase' \notin {"mm2", "unmap"}
        PROVE  MmioInv'
    <3>1. m'.pte = m.pte
      BY <2>2, <2>7 DEF Memory
    <3> QED
      BY <1>5, <2>1, <2>7, <3>1
  <2>8. phase' # "fault"
    BY DEF MemInv, PhaseInv, Phase, Unbased, Unmapped, Untested, Unlisted, Allocating, Installed
  <2>9. CASE page_init
    <3>1. phase = "page_init" /\ phase' = "check_page_free_list(1)" /\ \E l : m' = [m EXCEPT !.page_free_list = l]
      BY <2>8, <2>9 DEF page_init, Do
    <3> QED
      BY <2>7, <3>1 DEF Unmapped, Untested, Unlisted
  <2>10. CASE check_page_free_list(TRUE, "check_page_free_list(1)", "check_page_alloc")
    <3>1. /\ phase = "check_page_free_list(1)" /\ phase' \in {"check_page_alloc", "panic"}
          /\ \E l : m' = [m EXCEPT !.page_free_list = l]
      BY <2>8, <2>10 DEF check_page_free_list, Do
    <3> QED
      BY <2>7, <3>1 DEF Unmapped, Untested
  <2>12. CASE check_page_alloc \/ check_page
    <3>1. /\ phase \in {"check_page_alloc", "check_page"} /\ phase' \in {"check_page", "mm1"}
          /\ \E l : m' = [m EXCEPT !.page_free_list = l]
      BY <2>8, <2>12 DEF check_page_alloc, check_page, Do
    <3> QED
      BY <2>7, <3>1 DEF Unmapped
  <2>11. CASE \/ CheckUnmap \/ MapRegion \/ check_kern_pgdir \/ lcr3 \/ check_page_installed_pgdir
             \/ check_page_free_list(FALSE, "check_page_free_list(0)", "check_page_installed_pgdir")
    <3>1. phase' \in {"boot_map_region", "panic", "fault", "check_kern_pgdir", "lcr3", "check_page_free_list(0)", "done",
                      "check_page_installed_pgdir"}
      BY <2>11 DEF CheckUnmap, MapRegion, check_kern_pgdir, lcr3, check_page_installed_pgdir, check_page_free_list, Do
    <3> QED
      BY <1>5, <3>1 DEF Unmapped, Untested, Unlisted, Allocating
  <2> QED
    BY <1>5, <2>3, <2>4, <2>5, <2>6, <2>9, <2>10, <2>11, <2>12 DEF mem_init
<1> QED
  BY <1>1, <1>3, <1>4, <1>5

-----------------------------------------------------------------------------
(* The CPUs.                                                                 *)

Early == {"mem_init", "mpconfig", "mp_init"}
Starting == {"STARTUP 1", "STARTUP 2", "wait"}
BspState == Early \cup {"lapic_init", "base", "lapicw", "loop", "INIT"} \cup Starting \cup {"env_run"}
Awake == {"mpentry", "mp_main", "base", "lapicw", "setup", "started", "spin"}
ApState == {"off", "halted"} \cup Awake

\* Types.
TypeInv ==
  /\ table \in Tables
  /\ ncpu \in 0 .. NCPU /\ c \in Nat /\ entry \in 0 .. Len(table) /\ bootcpu \in Nat
  /\ bsp \in BspState /\ ismp \in BOOLEAN
  /\ ap \in [Id -> ApState] /\ cpu_status \in [Id -> BOOLEAN]
  /\ stack \in [Id -> Int] /\ window \in [Id -> Int]

\* What mp_init has found out.
MpInv ==
  /\ bsp \in {"mem_init", "mpconfig"} => entry = 0 /\ ncpu = 0 /\ ~ismp
  /\ bsp = "mp_init" /\ ~ismp => entry = Len(table)
  /\ bsp = "mp_init" /\ ismp =>
       /\ ncpu = IF entry < NCPU THEN entry ELSE NCPU
       /\ entry > BootId => bootcpu = IF BootId < NCPU THEN BootId ELSE NCPU
  /\ bsp \notin Early =>
       IF ismp THEN ncpu = IF Len(table) < NCPU THEN Len(table) ELSE NCPU ELSE ncpu <= 1

\* boot_aps starts one AP after the other: those before c are up, those after it are off.
StartInv ==
  /\ bsp \in Early \cup {"lapic_init", "base", "lapicw"} => c = 0
  /\ c <= ncpu
  /\ bsp \in {"base", "lapicw"} => ismp
  /\ bsp \in {"INIT"} \cup Starting => ismp /\ c < ncpu /\ c # BootId /\ mpentry_kstack = c
  /\ bsp = "env_run" => c = ncpu
  /\ \A i \in Id :
       /\ i > c \/ i = BootId \/ ~ismp => ap[i] = "off"
       /\ i = c /\ bsp \notin Starting => ap[i] = "off"
       /\ i = c /\ bsp = "STARTUP 1" => ap[i] = "halted"
       /\ i = c /\ bsp \in {"STARTUP 2", "wait"} => ap[i] \in Awake
       /\ i < c /\ i # BootId /\ ismp => ap[i] = "spin" /\ cpu_status[i]

\* CPU_STARTED is in a CPU's cpu_status only when it is.
StatusInv ==
  \A i \in Id : cpu_status[i] =>
    /\ bsp \notin Early
    /\ ismp /\ i < NCPU /\ i # BootId => ap[i] = "spin"

\* An AP has its own stack or none; the boot CPU moves to that of CPU 0 at the end.
StackInv ==
  /\ \A i \in Id \ {BootId} : stack[i] \in {NoStack, i}
  /\ stack[BootId] = BootStack \/ (stack[BootId] = 0 /\ bsp = "env_run")

\* Between the two steps of mmio_map_region.
InBase(i) == IF i = BootId THEN bsp = "base" ELSE ap[i] = "base"

\* A window is a virtual page before base, or at base until its CPU moves base on.
WindowInv ==
  /\ \A i \in Id : window[i] # NoWindow =>
       /\ bsp # "mem_init"
       /\ window[i] \in Nat /\ window[i] <= m.base /\ (window[i] = m.base => InBase(i))
       /\ window[i] \in DOMAIN m.pte
       /\ m.pte[window[i]] = [pp |-> LapicPage, u |-> FALSE, w |-> TRUE]
  /\ \A i, j \in Id : i # j /\ window[i] = window[j] => window[i] = NoWindow

\* What MapWindow and MoveBase need of the memory.
MemOk(s) == "pte" \in DOMAIN s /\ "base" \in DOMAIN s /\ s.base \in Nat

BootInv == TypeInv /\ MpInv /\ StartInv /\ StatusInv /\ StackInv /\ WindowInv /\ MemOk(m)

\* What every CPU finds in lapic: nothing before lapic_init or without an MP table, and
\* then a page that is mapped, as is the one at base before a CPU moves base on.  No CPU
\* gets there unless mmio_map_region returns the base of the region.
LapicInv ==
  /\ bsp # "mem_init" => MmioReturns = "base"
  /\ lapic # NoWindow => lapic \in DOMAIN m.pte /\ m.pte[lapic] = LapicPte
  /\ (\E i \in Id : InBase(i)) => m.base \in DOMAIN m.pte /\ m.pte[m.base] = LapicPte
  /\ IF bsp \in Early \cup {"lapic_init", "base"} THEN lapic = NoWindow ELSE lapic # NoWindow <=> ismp

-----------------------------------------------------------------------------
(* The CPUs of a table, and the memory.                                      *)

\* The table names one boot CPU.
LEMMA Ids ==
  ASSUME table \in Tables
  PROVE  /\ Len(table) \in Nat /\ BootId \in Id /\ Id = 0 .. Len(table) - 1
         /\ \A i \in Id : i \in Nat /\ i < Len(table) /\ (table[i + 1] <=> i = BootId)
<1>1. table \in Seq(BOOLEAN) /\ \E i \in DOMAIN table : table[i] /\ \A j \in DOMAIN table : table[j] => j = i
  BY TablesAssumption
<1>2. Len(table) \in Nat /\ DOMAIN table = 1 .. Len(table)
  BY <1>1
<1>3. PICK b \in DOMAIN table : table[b] /\ \A j \in DOMAIN table : table[j] => j = b
  BY <1>1
<1>4. Id = 0 .. Len(table) - 1
  BY DEF Id
<1>5. b - 1 \in Id /\ table[(b - 1) + 1]
  BY <1>2, <1>3, <1>4
<1>6. BootId \in Id /\ table[BootId + 1]
  BY <1>5 DEF BootId
<1>7. ASSUME NEW i \in Id PROVE i \in Nat /\ i < Len(table) /\ (table[i + 1] => i + 1 = b)
  <2>1. i + 1 \in DOMAIN table /\ i \in Nat /\ i < Len(table)
    BY <1>2, <1>4
  <2> QED
    BY <1>3, <2>1
<1>8. BootId + 1 = b /\ b \in Int /\ BootId \in Int
  BY <1>2, <1>3, <1>6, <1>7
<1>9. ASSUME NEW i \in Id PROVE table[i + 1] <=> i = BootId
  BY <1>6, <1>7, <1>8
<1> QED
  BY <1>2, <1>4, <1>6, <1>7, <1>9

\* The table stays.
LEMMA SameIds ==
  ASSUME table' = table
  PROVE  Id' = Id /\ BootId' = BootId
BY DEF Id, BootId

\* No access to a register of the local APIC faults.
LEMMA Reachable ==
  ASSUME LapicInv
  PROVE  Accessible /\ \A next : Then(next) = next
BY DEF LapicInv, Accessible, Then

\* mem_init keeps the record m and the number base in it.
LEMMA MemKeeps ==
  ASSUME MemOk(m), mem_init
  PROVE  MemOk(m')
<1>1. ASSUME NEW here, NEW pages, NEW new, NEW next, Do(here, pages, new, next), MemOk(new) PROVE MemOk(m')
  BY <1>1 DEF Do
<1>2. ASSUME NEW s, MemOk(s), NEW va, NEW n, NEW pa, NEW u, NEW w
      PROVE  MemOk(boot_map_region(s, va, n, pa, u, w)) /\ boot_map_region(s, va, n, pa, u, w).base = s.base
  BY <1>2 DEF boot_map_region, MemOk
<1>3. ASSUME NEW s, MemOk(s), NEW n \in Nat, NEW pa PROVE MemOk(mmio_map_region(s, pa, n))
  <2> DEFINE b == boot_map_region(s, s.base, n, pa, FALSE, TRUE)
             x == s.base + n
  <2>1. MemOk(b)
    BY <1>2, <1>3
  <2>2. x \in Nat
    BY <1>3 DEF MemOk
  <2>3. mmio_map_region(s, pa, n) = [b EXCEPT !.base = x]
    BY DEF mmio_map_region
  <2> HIDE DEF b, x
  <2> QED
    BY <2>1, <2>3, <2>2 DEF MemOk
<1>4. CASE i386_detect_memory
  <2>1. PICK n : Do("i386_detect_memory", {}, [m EXCEPT !.npages = n], "kern_pgdir")
    BY <1>4 DEF i386_detect_memory
  <2>2. MemOk([m EXCEPT !.npages = n])
    BY DEF MemOk
  <2> QED
    BY <1>1, <2>1, <2>2
<1>5. CASE KernPgdir
  <2>1. \A a, b, d, e : MemOk([m EXCEPT !.kern_pgdir = a, !.nextfree = b, !.tables[d] = e])
    BY DEF MemOk
  <2> QED
    BY <1>1, <1>5, <2>1 DEF KernPgdir
<1>6. CASE Pages
  <2>1. \A a, b : MemOk([m EXCEPT !.pages = a, !.nextfree = b])
    BY DEF MemOk
  <2> QED
    BY <1>1, <1>6, <2>1 DEF Pages
<1>7. CASE Envs
  <2>1. \A a, b : MemOk([m EXCEPT !.envs = a, !.nextfree = b])
    BY DEF MemOk
  <2> QED
    BY <1>1, <1>7, <2>1 DEF Envs
<1>8. \A a : MemOk([m EXCEPT !.page_free_list = a])
  BY DEF MemOk
<1>9. CASE page_init
  BY <1>1, <1>8, <1>9 DEF page_init
<1>10. ASSUME NEW low, NEW here, NEW next, check_page_free_list(low, here, next) PROVE MemOk(m')
  BY <1>1, <1>8, <1>10 DEF check_page_free_list
<1>11. CASE check_page_alloc \/ check_page \/ check_page_installed_pgdir
  BY <1>1, <1>8, <1>11 DEF check_page_alloc, check_page, check_page_installed_pgdir
<1>12. CASE CheckMm1
  BY <1>1, <1>3, <1>12 DEF CheckMm1
<1>13. CASE CheckMm2
  BY <1>1, <1>3, <1>13 DEF CheckMm2
<1>14. CASE CheckUnmap
  <2>1. \A a : MemOk([m EXCEPT !.pte = a])
    BY DEF MemOk
  <2>2. m' = m \/ \E a : m' = [m EXCEPT !.pte = a]
    BY <1>14 DEF CheckUnmap, Do
  <2> QED
    BY <2>1, <2>2
<1>15. CASE MapRegion
  <2>1. \E va, n, pa, u, w : m' = m \/ m' = boot_map_region(m, va, n, pa, u, w)
    BY <1>15 DEF MapRegion
  <2> QED
    BY <1>2, <2>1
<1>16. CASE check_kern_pgdir
  BY <1>1, <1>16 DEF check_kern_pgdir
<1>17. CASE lcr3
  BY <1>17 DEF lcr3
<1> QED
  BY <1>4, <1>5, <1>6, <1>7, <1>9, <1>10, <1>11, <1>12, <1>13, <1>14, <1>15, <1>16, <1>17 DEF mem_init

\* mmio_map_region for one page of the local APIC: one entry is new.
LEMMA WindowMapped ==
  ASSUME MemOk(m), m' = boot_map_region(m, m.base, 1, LapicPage, FALSE, TRUE)
  PROVE  /\ MemOk(m') /\ m'.base = m.base /\ m.base \in DOMAIN m'.pte
         /\ m'.pte[m.base] = [pp |-> LapicPage, u |-> FALSE, w |-> TRUE]
         /\ \A v \in DOMAIN m.pte : v \in DOMAIN m'.pte /\ (v # m.base => m'.pte[v] = m.pte[v])
<1> DEFINE p == [v \in DOMAIN m.pte \cup (m.base .. m.base + 1 - 1) |->
                   IF v \in m.base .. m.base + 1 - 1
                   THEN [pp |-> LapicPage + v - m.base, u |-> FALSE, w |-> TRUE] ELSE m.pte[v]]
<1>1. m.base \in Nat /\ LapicPage \in Nat
  BY MmioAssumption DEF MemOk
<1>2. m.base .. m.base + 1 - 1 = {m.base} /\ LapicPage + m.base - m.base = LapicPage
  BY <1>1
<1>3. /\ m.base \in DOMAIN p /\ p[m.base] = [pp |-> LapicPage, u |-> FALSE, w |-> TRUE]
      /\ \A v \in DOMAIN m.pte : v \in DOMAIN p /\ (v # m.base => p[v] = m.pte[v])
  BY <1>2
<1>4. \E f, t : m' = [m EXCEPT !.page_free_list = f, !.tables = t, !.pte = p]
  BY DEF boot_map_region
<1> HIDE DEF p
<1>5. MemOk(m') /\ m'.base = m.base /\ m'.pte = p
  BY <1>4 DEF MemOk
<1> QED
  BY <1>3, <1>5

\* The second step: base moves on.
LEMMA BaseMoved ==
  ASSUME MemOk(m), MoveBase
  PROVE  MemOk(m') /\ m'.base = m.base + 1 /\ m'.pte = m.pte
<1> DEFINE x == m.base + 1
<1>1. x \in Nat
  BY DEF MemOk
<1>2. m' = [m EXCEPT !.base = x]
  BY DEF MoveBase
<1> HIDE DEF x
<1>3. MemOk(m') /\ m'.base = x /\ m'.pte = m.pte
  BY <1>1, <1>2 DEF MemOk
<1> QED
  BY <1>3 DEF x

-----------------------------------------------------------------------------
(* The boot CPU reads the MP table.                                          *)

\* mem_init runs before the CPUs have windows.
LEMMA MemStepKeeps ==
  ASSUME BootInv, MemStep
  PROVE  BootInv'
<1>1. bsp = "mem_init" /\ UNCHANGED <<mpVars, cpuVars>> /\ MemOk(m')
  BY MemKeeps DEF MemStep, BootInv
<1>2. Id' = Id /\ BootId' = BootId
  BY <1>1, SameIds DEF mpVars
<1>3. TypeInv' /\ MpInv' /\ StartInv' /\ StatusInv' /\ StackInv'
  BY <1>1, <1>2 DEF BootInv, TypeInv, MpInv, StartInv, StatusInv, StackInv, mpVars, cpuVars
<1>4. WindowInv'
  BY <1>1, <1>2 DEF BootInv, WindowInv, mpVars, cpuVars
<1> QED
  BY <1>1, <1>3, <1>4 DEF BootInv

\* What the steps below have in common: the memory and the windows stay, and nobody is
\* between the two steps of mmio_map_region but the CPUs that were.
LEMMA WindowsStay ==
  ASSUME BootInv, m' = m, table' = table, window' = window, bsp # "base", bsp' # "mem_init",
         \A i \in Id : i # BootId /\ ap[i] = "base" => ap'[i] = "base"
  PROVE  WindowInv' /\ MemOk(m')
<1>1. Id' = Id /\ BootId' = BootId
  BY SameIds
<1>2. \A i \in Id : InBase(i) => InBase(i)'
  BY <1>1 DEF InBase
<1> QED
  BY <1>1, <1>2 DEF BootInv, WindowInv

\* mp_init reads the table; without one there is no local APIC to map.
LEMMA MpKeeps ==
  ASSUME BootInv, MemDone \/ MpConfig \/ MpEntry \/ MpUnknown \/ NoLapic
  PROVE  BootInv'
<1>1. /\ Len(table) \in Nat /\ BootId \in Id /\ Id = 0 .. Len(table) - 1
      /\ \A i \in Id : i \in Nat /\ i < Len(table) /\ (table[i + 1] <=> i = BootId)
  BY Ids DEF BootInv, TypeInv
<1>2. /\ UNCHANGED <<memVars, table, cpu_status, mpentry_kstack, c, ap, stack, window>>
      /\ bsp # "base" /\ bsp' # "mem_init"
  BY DEF MemDone, MpConfig, MpEntry, MpUnknown, NoLapic, cpuVars, mpVars
<1>3. Id' = Id /\ BootId' = BootId
  BY <1>2, SameIds
<1>4. WindowInv' /\ MemOk(m')
  BY <1>2, WindowsStay DEF memVars
<1>5. CASE MemDone
  BY <1>2, <1>3, <1>4, <1>5 DEF MemDone, mpVars, BootInv, TypeInv, MpInv, StartInv, StatusInv, StackInv, BspState, Early, Starting
<1>6. CASE MpConfig
  <2>1. mpconfig \in BOOLEAN
    BY DEF mpconfig
  <2> QED
    BY <1>1, <1>2, <1>3, <1>4, <1>6, <2>1, Constants DEF MpConfig, BootInv, TypeInv, MpInv, StartInv, StatusInv, StackInv, BspState, Early, Starting
<1>7. CASE MpEntry
  <2>1. TypeInv'
    BY <1>1, <1>2, <1>3, <1>7, Constants DEF MpEntry, cpuVars, BootInv, TypeInv
  <2>2. MpInv'
    BY <1>1, <1>2, <1>3, <1>7, Constants DEF MpEntry, cpuVars, BootInv, TypeInv, MpInv, Early
  <2>3. StartInv' /\ StatusInv' /\ StackInv'
    BY <1>1, <1>2, <1>3, <1>7, Constants DEF MpEntry, cpuVars, BootInv, TypeInv, StartInv, StatusInv, StackInv, Early, Starting
  <2> QED
    BY <1>4, <2>1, <2>2, <2>3 DEF BootInv
<1>8. CASE MpUnknown
  <2>1. TypeInv'
    <3>1. entry' \in 0 .. Len(table)
      BY <1>1, <1>8 DEF MpUnknown
    <3>2. UNCHANGED <<ncpu, bootcpu, bsp>> /\ ismp' = FALSE
      BY <1>8 DEF MpUnknown, cpuVars
    <3> QED
      BY <1>2, <1>3, <3>1, <3>2 DEF BootInv, TypeInv
  <2>2. MpInv'
    BY <1>1, <1>2, <1>3, <1>8, Constants DEF MpUnknown, cpuVars, BootInv, TypeInv, MpInv, Early
  <2>3. StartInv' /\ StatusInv' /\ StackInv'
    BY <1>1, <1>2, <1>3, <1>8, Constants DEF MpUnknown, cpuVars, BootInv, TypeInv, StartInv, StatusInv, StackInv, Early, Starting
  <2> QED
    BY <1>4, <2>1, <2>2, <2>3 DEF BootInv
<1>9. CASE NoLapic
  BY <1>1, <1>2, <1>3, <1>4, <1>9 DEF NoLapic, mpVars, BootInv, TypeInv, MpInv, StartInv, StatusInv, StackInv, BspState, Early, Starting
<1> QED
  BY <1>5, <1>6, <1>7, <1>8, <1>9

\* bootcpu is marked as started, before any other CPU runs.
LEMMA MpDoneKeeps ==
  ASSUME BootInv, MpDone
  PROVE  BootInv'
<1>1. /\ Len(table) \in Nat /\ BootId \in Id /\ Id = 0 .. Len(table) - 1
      /\ \A i \in Id : i \in Nat /\ i < Len(table) /\ (table[i + 1] <=> i = BootId)
  BY Ids DEF BootInv, TypeInv
<1>2. /\ UNCHANGED <<memVars, table, fw, entry, ismp, bootcpu, mpentry_kstack, c, ap, stack, window>>
      /\ bsp = "mp_init" /\ bsp' = "lapic_init" /\ entry = Len(table)
      /\ cpu_status' = [cpu_status EXCEPT ![bootcpu] = TRUE]
      /\ ncpu' = IF ismp THEN ncpu ELSE 1
  BY DEF MpDone
<1>3. Id' = Id /\ BootId' = BootId
  BY <1>2, SameIds
<1>4. WindowInv' /\ MemOk(m')
  BY <1>2, WindowsStay DEF memVars
<1>5. TypeInv'
  <2>1. cpu_status' \in [Id -> BOOLEAN]
    BY <1>2 DEF BootInv, TypeInv
  <2>2. ncpu' \in 0 .. NCPU
    BY <1>2, Constants DEF BootInv, TypeInv
  <2> QED
    BY <1>2, <1>3, <2>1, <2>2 DEF BootInv, TypeInv, BspState
<1>6. MpInv'
  BY <1>1, <1>2, <1>3, Constants DEF BootInv, TypeInv, MpInv, Early
<1>7. StartInv'
  BY <1>1, <1>2, <1>3, Constants DEF BootInv, TypeInv, MpInv, StartInv, Early, Starting
<1>8. StatusInv'
  <2>1. ismp => bootcpu = IF BootId < NCPU THEN BootId ELSE NCPU
    BY <1>1, <1>2 DEF BootInv, MpInv
  <2>2. \A i \in Id : ~cpu_status[i]
    BY <1>2 DEF BootInv, StatusInv, Early
  <2>3. \A i \in Id : cpu_status'[i] => i = bootcpu
    BY <1>2, <2>2 DEF BootInv, TypeInv
  <2> QED
    BY <1>1, <1>2, <1>3, <2>1, <2>3, Constants DEF StatusInv, Early
<1>9. StackInv'
  BY <1>2, <1>3 DEF BootInv, StackInv
<1> QED
  BY <1>4, <1>5, <1>6, <1>7, <1>8, <1>9 DEF BootInv

-----------------------------------------------------------------------------
(* The windows on the local APICs.                                           *)

\* A window, as the invariant has it.
LEMMA WindowNow ==
  ASSUME BootInv, NEW i \in Id, window[i] # NoWindow
  PROVE  /\ bsp # "mem_init" /\ m.base \in Nat
         /\ window[i] \in Nat /\ window[i] <= m.base /\ (window[i] = m.base => InBase(i))
         /\ window[i] \in DOMAIN m.pte
         /\ m.pte[window[i]] = [pp |-> LapicPage, u |-> FALSE, w |-> TRUE]
<1>1. m.base \in Nat
  BY DEF BootInv, MemOk
<1> QED
  BY <1>1, Zenon DEF BootInv, WindowInv

\* CPU w takes the page at base while nobody else is between the two steps.
LEMMA WindowTaken ==
  ASSUME BootInv, NEW w \in Id, MapWindow(w), table' = table, bsp' # "mem_init",
         \A i \in Id : ~InBase(i), InBase(w)'
  PROVE  WindowInv' /\ MemOk(m') /\ window' \in [Id -> Int]
<1>1. Id' = Id /\ BootId' = BootId
  BY SameIds
<1>2. /\ m' = boot_map_region(m, m.base, 1, LapicPage, FALSE, TRUE)
      /\ window' = [window EXCEPT ![w] = m.base]
  BY DEF MapWindow
<1>3. /\ MemOk(m') /\ m'.base = m.base /\ m.base \in DOMAIN m'.pte
      /\ m'.pte[m.base] = [pp |-> LapicPage, u |-> FALSE, w |-> TRUE]
      /\ \A v \in DOMAIN m.pte : v \in DOMAIN m'.pte /\ (v # m.base => m'.pte[v] = m.pte[v])
  BY <1>2, WindowMapped DEF BootInv
<1>4. m.base \in Nat
  BY DEF BootInv, MemOk
<1>5. /\ window' \in [Id -> Int] /\ window'[w] = m.base
      /\ \A i \in Id : i # w => window'[i] = window[i]
  BY <1>2, <1>4 DEF BootInv, TypeInv
<1>6. ASSUME NEW i \in Id, window[i] # NoWindow
      PROVE  /\ window[i] \in Nat /\ window[i] < m.base /\ window[i] \in DOMAIN m.pte
             /\ m.pte[window[i]] = [pp |-> LapicPage, u |-> FALSE, w |-> TRUE]
  <2>1. /\ bsp # "mem_init" /\ m.base \in Nat
        /\ window[i] \in Nat /\ window[i] <= m.base /\ (window[i] = m.base => InBase(i))
        /\ window[i] \in DOMAIN m.pte
        /\ m.pte[window[i]] = [pp |-> LapicPage, u |-> FALSE, w |-> TRUE]
    BY <1>6, WindowNow
  <2>2. window[i] # m.base
    BY <2>1
  <2>3. window[i] < m.base
    BY <2>1, <2>2
  <2> QED
    BY <2>1, <2>3
<1>7. ASSUME NEW i \in Id, window'[i] # NoWindow
      PROVE  /\ window'[i] \in Nat /\ window'[i] <= m'.base /\ (window'[i] = m'.base => i = w)
             /\ window'[i] \in DOMAIN m'.pte
             /\ m'.pte[window'[i]] = [pp |-> LapicPage, u |-> FALSE, w |-> TRUE]
  <2>1. CASE i = w
    BY <1>3, <1>4, <1>5, <2>1
  <2>2. CASE i # w
    <3>1. window'[i] = window[i] /\ window[i] \in Nat /\ window[i] < m.base /\ window[i] \in DOMAIN m.pte
          /\ m.pte[window[i]] = [pp |-> LapicPage, u |-> FALSE, w |-> TRUE]
      BY <1>5, <1>6, <1>7, <2>2
    <3>2. window[i] # m.base /\ window[i] <= m.base
      BY <1>4, <3>1
    <3> QED
      BY <1>3, <3>1, <3>2
  <2> QED
    BY <2>1, <2>2
<1>8. ASSUME NEW i \in Id, NEW j \in Id, i # j, window'[i] = window'[j] PROVE window'[i] = NoWindow
  BY <1>4, <1>5, <1>6, <1>8 DEF BootInv, WindowInv
<1> QED
  BY <1>1, <1>3, <1>5, <1>7, <1>8 DEF WindowInv

\* CPU w moves base on.
LEMMA WindowLeft ==
  ASSUME BootInv, MoveBase, table' = table, bsp' # "mem_init"
  PROVE  WindowInv' /\ MemOk(m')
<1>1. Id' = Id /\ BootId' = BootId
  BY SameIds
<1>2. MemOk(m') /\ m'.base = m.base + 1 /\ m'.pte = m.pte
  BY BaseMoved DEF BootInv
<1>3. window' = window /\ m.base \in Nat
  BY DEF MoveBase, BootInv, MemOk
<1>4. ASSUME NEW i \in Id, window[i] # NoWindow
      PROVE  window[i] \in Nat /\ window[i] <= m'.base /\ window[i] # m'.base /\ window[i] \in DOMAIN m'.pte
             /\ m'.pte[window[i]] = [pp |-> LapicPage, u |-> FALSE, w |-> TRUE]
  <2>1. /\ bsp # "mem_init" /\ m.base \in Nat
        /\ window[i] \in Nat /\ window[i] <= m.base /\ (window[i] = m.base => InBase(i))
        /\ window[i] \in DOMAIN m.pte
        /\ m.pte[window[i]] = [pp |-> LapicPage, u |-> FALSE, w |-> TRUE]
    BY <1>4, WindowNow
  <2>2. window[i] <= m'.base /\ window[i] # m'.base
    BY <1>2, <2>1
  <2> QED
    BY <1>2, <2>1, <2>2
<1> QED
  BY <1>1, <1>2, <1>3, <1>4 DEF BootInv, WindowInv

\* lapic_init on the boot CPU: the mapping ...
LEMMA BspWindowKeeps ==
  ASSUME BootInv, BspWindow
  PROVE  BootInv'
<1>1. /\ Len(table) \in Nat /\ BootId \in Id /\ Id = 0 .. Len(table) - 1
      /\ \A i \in Id : i \in Nat /\ i < Len(table) /\ (table[i + 1] <=> i = BootId)
  BY Ids DEF BootInv, TypeInv
<1>2. /\ MapWindow(BootId) /\ ismp /\ bsp = "lapic_init" /\ bsp' = "base"
      /\ UNCHANGED <<phase, cr3, region, mpVars, cpu_status, mpentry_kstack, c, stack, ap>>
  BY DEF BspWindow, MapWindow
<1>3. Id' = Id /\ BootId' = BootId
  BY <1>2, SameIds DEF mpVars
<1>4. \A i \in Id : ap[i] = "off"
  BY <1>1, <1>2 DEF BootInv, StartInv, Starting
<1>5. WindowInv' /\ MemOk(m') /\ window' \in [Id -> Int]
  <2>1. PICK w \in Id : w = BootId
    BY <1>1
  <2>2. (\A i \in Id : ~InBase(i)) /\ InBase(w)' /\ MapWindow(w)
    BY <1>2, <1>3, <1>4, <2>1 DEF InBase
  <2>3. table' = table /\ bsp' # "mem_init"
    BY <1>2 DEF mpVars
  <2> QED
    BY <2>2, <2>3, WindowTaken
<1>6. TypeInv' /\ MpInv' /\ StartInv' /\ StatusInv' /\ StackInv'
  BY <1>2, <1>3, <1>4, <1>5 DEF mpVars, BootInv, TypeInv, MpInv, StartInv, StatusInv, StackInv, BspState, Early, Starting
<1> QED
  BY <1>5, <1>6 DEF BootInv

\* ... and the new base.
LEMMA BspBaseKeeps ==
  ASSUME BootInv, BspBase
  PROVE  BootInv'
<1>1. /\ MoveBase /\ bsp = "base" /\ bsp' = "lapicw"
      /\ UNCHANGED <<phase, cr3, region, mpVars, cpu_status, mpentry_kstack, c, stack, window, ap>>
  BY DEF BspBase, MoveBase
<1>2. Id' = Id /\ BootId' = BootId
  BY <1>1, SameIds DEF mpVars
<1>3. WindowInv' /\ MemOk(m')
  <2>1. table' = table /\ bsp' # "mem_init"
    BY <1>1 DEF mpVars
  <2> QED
    BY <1>1, <2>1, WindowLeft
<1>4. TypeInv' /\ MpInv' /\ StartInv' /\ StatusInv' /\ StackInv'
  BY <1>1, <1>2 DEF mpVars, BootInv, TypeInv, MpInv, StartInv, StatusInv, StackInv, BspState, Early, Starting
<1> QED
  BY <1>3, <1>4 DEF BootInv

-----------------------------------------------------------------------------
(* boot_aps.                                                                 *)

\* lapic_init's registers.
LEMMA BspRegistersKeeps ==
  ASSUME BootInv, LapicInv, BspRegisters
  PROVE  BootInv'
<1>1. /\ UNCHANGED <<memVars, mpVars, cpu_status, mpentry_kstack, c, ap, stack, window>>
      /\ bsp = "lapicw" /\ bsp' = "loop"
  BY Reachable DEF BspRegisters
<1>2. Id' = Id /\ BootId' = BootId
  BY <1>1, SameIds DEF mpVars
<1>3. WindowInv' /\ MemOk(m')
  BY <1>1, WindowsStay DEF memVars, mpVars
<1>4. TypeInv' /\ MpInv' /\ StartInv' /\ StatusInv' /\ StackInv'
  BY <1>1, <1>2 DEF mpVars, BootInv, TypeInv, MpInv, StartInv, StatusInv, StackInv, BspState, Early, Starting
<1> QED
  BY <1>3, <1>4 DEF BootInv

\* The loop of boot_aps passes over this CPU, offers the next one its stack, and ends.
LEMMA LoopKeeps ==
  ASSUME BootInv, LapicInv, SkipSelf \/ OfferStack \/ RunFirstEnv
  PROVE  BootInv'
<1>1. /\ Len(table) \in Nat /\ BootId \in Id /\ Id = 0 .. Len(table) - 1
      /\ \A i \in Id : i \in Nat /\ i < Len(table) /\ (table[i + 1] <=> i = BootId)
  BY Ids DEF BootInv, TypeInv
<1>2. /\ UNCHANGED <<memVars, mpVars, cpu_status, ap, stack, window>>
      /\ bsp = "loop" /\ bsp' # "mem_init"
  BY Reachable DEF SkipSelf, OfferStack, RunFirstEnv
<1>3. Id' = Id /\ BootId' = BootId
  BY <1>2, SameIds DEF mpVars
<1>4. WindowInv' /\ MemOk(m')
  BY <1>2, WindowsStay DEF memVars, mpVars
<1>5. ismp => cpunum = BootId
  BY <1>2 DEF cpunum, LapicInv, Early
<1>6. ~ismp => cpunum = 0
  BY <1>2 DEF cpunum, LapicInv, Early
<1>7. CASE SkipSelf
  <2>1. c < ncpu /\ c = cpunum /\ c' = c + 1 /\ UNCHANGED <<bsp, mpentry_kstack>>
    BY <1>7, Reachable DEF SkipSelf
  <2>2. TypeInv' /\ MpInv' /\ StatusInv' /\ StackInv'
    BY <1>2, <1>3, <2>1 DEF mpVars, BootInv, TypeInv, MpInv, StatusInv, StackInv
  <2>3. StartInv'
    BY <1>1, <1>2, <1>3, <1>5, <1>6, <2>1 DEF mpVars, BootInv, TypeInv, MpInv, StartInv, Early, Starting
  <2> QED
    BY <1>4, <2>2, <2>3 DEF BootInv
<1>8. CASE OfferStack
  <2>1. c < ncpu /\ c # cpunum /\ mpentry_kstack' = c /\ bsp' = "INIT" /\ c' = c
    BY <1>8, Reachable DEF OfferStack
  <2>2. ismp
    BY <1>2, <1>6, <2>1, Constants DEF BootInv, TypeInv, MpInv, Early
  <2>3. TypeInv' /\ MpInv' /\ StatusInv' /\ StackInv'
    BY <1>2, <1>3, <2>1 DEF mpVars, BootInv, TypeInv, MpInv, StatusInv, StackInv, BspState, Early
  <2>4. StartInv'
    BY <1>1, <1>2, <1>3, <1>5, <2>1, <2>2 DEF mpVars, BootInv, StartInv, Early, Starting
  <2> QED
    BY <1>4, <2>3, <2>4 DEF BootInv
<1>9. CASE RunFirstEnv
  <2>1. c = ncpu /\ bsp' = "env_run" /\ c' = c /\ mpentry_kstack' = mpentry_kstack
    BY <1>9 DEF RunFirstEnv
  <2>2. TypeInv' /\ MpInv' /\ StatusInv' /\ StackInv'
    BY <1>2, <1>3, <2>1 DEF mpVars, BootInv, TypeInv, MpInv, StatusInv, StackInv, BspState, Early
  <2>3. StartInv'
    BY <1>1, <1>2, <1>3, <2>1 DEF mpVars, BootInv, StartInv, Early, Starting
  <2> QED
    BY <1>4, <2>2, <2>3 DEF BootInv
<1> QED
  BY <1>7, <1>8, <1>9

\* The boot CPU goes on when the AP says that it is up, and it is.
LEMMA WaitStartedKeeps ==
  ASSUME BootInv, WaitStarted
  PROVE  BootInv'
<1>1. /\ Len(table) \in Nat /\ BootId \in Id /\ Id = 0 .. Len(table) - 1
      /\ \A i \in Id : i \in Nat /\ i < Len(table) /\ (table[i + 1] <=> i = BootId)
  BY Ids DEF BootInv, TypeInv
<1>2. /\ UNCHANGED <<memVars, mpVars, cpu_status, mpentry_kstack, ap, stack, window>>
      /\ bsp = "wait" /\ bsp' = "loop" /\ cpu_status[c] /\ c' = c + 1
  BY DEF WaitStarted
<1>3. Id' = Id /\ BootId' = BootId
  BY <1>2, SameIds DEF mpVars
<1>4. WindowInv' /\ MemOk(m')
  BY <1>2, WindowsStay DEF memVars, mpVars
<1>5. ismp /\ c < ncpu /\ c # BootId /\ c \in Id /\ c < NCPU
  BY <1>1, <1>2, Constants DEF BootInv, TypeInv, MpInv, StartInv, Starting, Early
<1>6. ap[c] = "spin"
  BY <1>2, <1>5 DEF BootInv, StatusInv
<1>7. TypeInv' /\ MpInv' /\ StatusInv' /\ StackInv'
  BY <1>2, <1>3 DEF mpVars, BootInv, TypeInv, MpInv, StatusInv, StackInv, BspState, Early
<1>8. StartInv'
  BY <1>1, <1>2, <1>3, <1>5, <1>6 DEF mpVars, BootInv, TypeInv, StartInv, Early, Starting
<1> QED
  BY <1>4, <1>7, <1>8 DEF BootInv

\* INIT halts the AP, the first STARTUP wakes it, the second does nothing.
LEMMA StartApKeeps ==
  ASSUME BootInv, LapicInv, StartAp
  PROVE  BootInv'
<1>1. /\ Len(table) \in Nat /\ BootId \in Id /\ Id = 0 .. Len(table) - 1
      /\ \A i \in Id : i \in Nat /\ i < Len(table) /\ (table[i + 1] <=> i = BootId)
  BY Ids DEF BootInv, TypeInv
<1>2. /\ UNCHANGED <<memVars, mpVars, cpu_status, mpentry_kstack, c, stack, window>>
      /\ bsp \in {"INIT", "STARTUP 1", "STARTUP 2"} /\ bsp' \in Starting
  BY Reachable DEF StartAp, lapic_startap, Starting
<1>3. Id' = Id /\ BootId' = BootId
  BY <1>2, SameIds DEF mpVars
<1>4. ismp /\ c < ncpu /\ c # BootId /\ c \in Id /\ c < NCPU /\ mpentry_kstack = c
  <2>1. bsp \in {"INIT"} \cup Starting /\ bsp \notin Early
    BY <1>2 DEF Starting, Early
  <2>2. ismp /\ c < ncpu /\ c # BootId /\ mpentry_kstack = c
    BY <2>1 DEF BootInv, StartInv
  <2> QED
    BY <1>1, <2>1, <2>2, Constants DEF BootInv, TypeInv, MpInv
<1>5. \/ bsp = "INIT" /\ bsp' = "STARTUP 1" /\ ap' = [ap EXCEPT ![c] = "halted"]
      \/ bsp = "STARTUP 1" /\ bsp' = "STARTUP 2" /\ ap' = [ap EXCEPT ![c] = "mpentry"]
      \/ bsp = "STARTUP 2" /\ bsp' = "wait" /\ ap' = ap
  BY <1>4, Reachable DEF StartAp, lapic_startap, ReceivesStartup, BootInv, StartInv, Starting, Awake
<1>6. ap[c] \in {"off", "halted"} \/ ap' = ap
  BY <1>4, <1>5 DEF BootInv, StartInv, Starting
<1>7. \A i \in Id : i # c => ap'[i] = ap[i]
  BY <1>5 DEF BootInv, TypeInv
<1>8. ap'[c] = CASE bsp = "INIT" -> "halted" [] bsp = "STARTUP 1" -> "mpentry" [] OTHER -> ap[c]
  BY <1>4, <1>5 DEF BootInv, TypeInv
<1>9. ap' \in [Id -> ApState]
  BY <1>5 DEF BootInv, TypeInv, ApState, Awake
<1>10. WindowInv' /\ MemOk(m')
  <2>1. \A i \in Id : i # BootId /\ ap[i] = "base" => ap'[i] = "base"
    BY <1>6, <1>7
  <2> QED
    BY <1>2, <2>1, WindowsStay DEF memVars, mpVars, Starting
<1>11. TypeInv' /\ MpInv' /\ StackInv'
  BY <1>2, <1>3, <1>9 DEF mpVars, BootInv, TypeInv, MpInv, StackInv, BspState, Starting, Early
<1>12. StatusInv'
  BY <1>2, <1>3, <1>4, <1>6, <1>7 DEF mpVars, BootInv, StatusInv, Starting, Early
<1>13. StartInv'
  BY <1>1, <1>2, <1>3, <1>4, <1>5, <1>7, <1>8, ZenonT(30) DEF mpVars, BootInv, TypeInv, StartInv, Early, Starting, Awake
<1> QED
  BY <1>10, <1>11, <1>12, <1>13 DEF BootInv

-----------------------------------------------------------------------------
(* The other CPUs.                                                           *)

\* An AP that is up and not yet in its loop is the one that boot_aps waits for.
LEMMA TheOneAp ==
  ASSUME BootInv, NEW i \in Id, ap[i] \in {"mpentry", "mp_main", "base", "lapicw", "setup", "started"}
  PROVE  /\ i = c /\ i # BootId /\ i < NCPU /\ ismp /\ mpentry_kstack = i
         /\ bsp \in {"STARTUP 2", "wait"}
         /\ \A j \in Id : j # i => ap[j] \in {"off", "spin"}
<1>1. /\ Len(table) \in Nat /\ BootId \in Id /\ Id = 0 .. Len(table) - 1
      /\ \A j \in Id : j \in Nat /\ j < Len(table) /\ (table[j + 1] <=> j = BootId)
  BY Ids DEF BootInv, TypeInv
<1>2. c \in Nat /\ i \in Nat /\ ncpu \in 0 .. NCPU /\ bsp \in BspState
  BY <1>1 DEF BootInv, TypeInv
<1>3. ~(i > c) /\ i # BootId /\ ismp /\ ~(i < c)
  BY <1>2 DEF BootInv, StartInv
<1>4. i = c
  BY <1>2, <1>3
<1>5. bsp \in {"STARTUP 2", "wait"}
  BY <1>4 DEF BootInv, StartInv, Starting
<1>6. c < ncpu /\ mpentry_kstack = c
  BY <1>5 DEF BootInv, StartInv, Starting
<1>7. ASSUME NEW j \in Id, j # i PROVE ap[j] \in {"off", "spin"}
  <2>1. j > c \/ j < c
    BY <1>1, <1>2, <1>4, <1>7
  <2> QED
    BY <2>1 DEF BootInv, StartInv
<1>8. i < NCPU
  BY <1>2, <1>4, <1>6, Constants
<1> QED
  BY <1>3, <1>4, <1>5, <1>6, <1>7, <1>8

\* A step of an AP from one state to the next, as far as the states are concerned.
LEMMA ApStepKeeps ==
  ASSUME BootInv, NEW i \in Id, NEW from \in {"mpentry", "mp_main", "base", "lapicw", "setup", "started"}, NEW to \in Awake,
         ApStep(i, from, to),
         UNCHANGED <<mpVars, mpentry_kstack, bsp, c>>,
         cpu_status' = cpu_status \/ (cpu_status' = [cpu_status EXCEPT ![i] = TRUE] /\ to = "spin")
  PROVE  /\ MpInv' /\ StartInv' /\ StatusInv' /\ ap' \in [Id -> ApState] /\ cpu_status' \in [Id -> BOOLEAN]
         /\ Id' = Id /\ BootId' = BootId
<1>1. ap[i] = from /\ ap' = [ap EXCEPT ![i] = to] /\ Awake \subseteq ApState
  BY DEF ApStep, ApState
<1>2. /\ i = c /\ i # BootId /\ i < NCPU /\ ismp /\ mpentry_kstack = i
      /\ bsp \in {"STARTUP 2", "wait"}
      /\ \A j \in Id : j # i => ap[j] \in {"off", "spin"}
  BY <1>1, TheOneAp
<1>3. Id' = Id /\ BootId' = BootId
  BY SameIds DEF mpVars
<1>4. ap' \in [Id -> ApState] /\ ap'[i] = to /\ \A j \in Id : j # i => ap'[j] = ap[j]
  BY <1>1 DEF BootInv, TypeInv
<1>5. /\ cpu_status' \in [Id -> BOOLEAN] /\ (cpu_status'[i] => cpu_status[i] \/ to = "spin")
      /\ \A j \in Id : j # i => cpu_status'[j] = cpu_status[j]
  BY DEF BootInv, TypeInv
<1>6. MpInv'
  BY <1>3 DEF mpVars, BootInv, MpInv
<1>7. StartInv'
  BY <1>2, <1>3, <1>4, <1>5, ZenonT(30) DEF mpVars, BootInv, StartInv, Starting, Early
<1>8. ~cpu_status[i]
  BY <1>1, <1>2 DEF BootInv, StatusInv
<1>9. StatusInv'
  BY <1>2, <1>3, <1>4, <1>5, <1>8 DEF mpVars, BootInv, StatusInv, Early
<1> QED
  BY <1>3, <1>4, <1>5, <1>6, <1>7, <1>9

\* mpentry.S and mp_main on an AP.
LEMMA ApKeeps ==
  ASSUME BootInv, LapicInv, NEW i \in Id, mp_main(i)
  PROVE  BootInv'
<1>1. CASE mpentry(i)
  <2>1. /\ ApStep(i, "mpentry", "mp_main") /\ stack' = [stack EXCEPT ![i] = mpentry_kstack]
        /\ UNCHANGED <<memVars, mpVars, cpu_status, mpentry_kstack, bsp, c, window>>
    BY <1>1, Reachable DEF mpentry
  <2>2. /\ i = c /\ i # BootId /\ i < NCPU /\ ismp /\ mpentry_kstack = i
        /\ bsp \in {"STARTUP 2", "wait"}
        /\ \A j \in Id : j # i => ap[j] \in {"off", "spin"}
    BY <2>1, TheOneAp DEF ApStep
  <2>3. /\ MpInv' /\ StartInv' /\ StatusInv' /\ ap' \in [Id -> ApState] /\ cpu_status' \in [Id -> BOOLEAN]
        /\ Id' = Id /\ BootId' = BootId
    BY <2>1, ApStepKeeps DEF Awake
  <2>4. WindowInv' /\ MemOk(m')
    <3>1. \A j \in Id : j # BootId /\ ap[j] = "base" => ap'[j] = "base"
      BY <2>1, <2>2 DEF ApStep
    <3> QED
      BY <2>1, <2>2, <3>1, WindowsStay DEF memVars, mpVars
  <2>5. TypeInv' /\ StackInv'
    <3>1. stack' = [stack EXCEPT ![i] = i]
      BY <2>1, <2>2
    <3>2. i \in Int
      <4>1. i \in Nat
        BY Ids DEF BootInv, TypeInv
      <4> QED
        BY <4>1
    <3>3. stack' \in [Id -> Int] /\ stack'[i] = i /\ \A j \in Id : j # i => stack'[j] = stack[j]
      BY <3>1, <3>2 DEF BootInv, TypeInv
    <3>4. TypeInv'
      BY <2>1, <2>3, <2>4, <3>3 DEF mpVars, BootInv, TypeInv
    <3>5. StackInv'
      <4>1. BootId \in Id /\ bsp' = bsp
        BY <2>1, Ids DEF BootInv, TypeInv
      <4> QED
        BY <2>2, <2>3, <3>3, <4>1 DEF BootInv, StackInv
    <3> QED
      BY <3>4, <3>5
  <2> QED
    BY <2>3, <2>4, <2>5 DEF BootInv
<1>2. CASE ApWindow(i)
  <2>1. /\ ApStep(i, "mp_main", "base") /\ MapWindow(i)
        /\ UNCHANGED <<mpVars, cpu_status, mpentry_kstack, bsp, c, stack>>
    BY <1>2 DEF ApWindow, MapWindow
  <2>2. /\ i = c /\ i # BootId /\ i < NCPU /\ ismp /\ mpentry_kstack = i
        /\ bsp \in {"STARTUP 2", "wait"}
        /\ \A j \in Id : j # i => ap[j] \in {"off", "spin"}
    BY <2>1, TheOneAp DEF ApStep
  <2>3. /\ MpInv' /\ StartInv' /\ StatusInv' /\ ap' \in [Id -> ApState] /\ cpu_status' \in [Id -> BOOLEAN]
        /\ Id' = Id /\ BootId' = BootId
    BY <2>1, ApStepKeeps DEF Awake
  <2>4. WindowInv' /\ MemOk(m') /\ window' \in [Id -> Int]
    <3>1. table' = table /\ bsp' # "mem_init"
      BY <2>1, <2>2 DEF mpVars
    <3>2. \A j \in Id : ~InBase(j)
      BY <2>1, <2>2 DEF InBase, ApStep
    <3>3. InBase(i)'
      BY <2>1, <2>2, <2>3 DEF InBase, ApStep, BootInv, TypeInv
    <3> QED
      BY <2>1, <3>1, <3>2, <3>3, WindowTaken
  <2>5. TypeInv' /\ StackInv'
    BY <2>1, <2>3, <2>4 DEF mpVars, BootInv, TypeInv, StackInv
  <2> QED
    BY <2>3, <2>4, <2>5 DEF BootInv
<1>3. CASE ApBase(i)
  <2>1. /\ ApStep(i, "base", "lapicw") /\ MoveBase
        /\ UNCHANGED <<mpVars, cpu_status, mpentry_kstack, bsp, c, stack, window>>
    BY <1>3 DEF ApBase, MoveBase
  <2>2. /\ i = c /\ i # BootId /\ i < NCPU /\ ismp /\ mpentry_kstack = i
        /\ bsp \in {"STARTUP 2", "wait"}
        /\ \A j \in Id : j # i => ap[j] \in {"off", "spin"}
    BY <2>1, TheOneAp DEF ApStep
  <2>3. /\ MpInv' /\ StartInv' /\ StatusInv' /\ ap' \in [Id -> ApState] /\ cpu_status' \in [Id -> BOOLEAN]
        /\ Id' = Id /\ BootId' = BootId
    BY <2>1, ApStepKeeps DEF Awake
  <2>4. WindowInv' /\ MemOk(m')
    BY <2>1, <2>2, WindowLeft DEF mpVars
  <2>5. TypeInv' /\ StackInv'
    BY <2>1, <2>3 DEF mpVars, BootInv, TypeInv, StackInv
  <2> QED
    BY <2>3, <2>4, <2>5 DEF BootInv
<1>4. CASE ApRegisters(i) \/ Setup(i) \/ Started(i)
  <2>1. /\ UNCHANGED <<memVars, mpVars, mpentry_kstack, bsp, c, stack, window>>
        /\ \/ ApStep(i, "lapicw", "setup") /\ cpu_status' = cpu_status
           \/ ApStep(i, "setup", "started") /\ cpu_status' = cpu_status
           \/ ApStep(i, "started", "spin") /\ cpu_status' = [cpu_status EXCEPT ![i] = TRUE]
    BY <1>4, Reachable DEF ApRegisters, Setup, Started
  <2>2. /\ i = c /\ i # BootId /\ i < NCPU /\ ismp /\ mpentry_kstack = i
        /\ bsp \in {"STARTUP 2", "wait"}
        /\ \A j \in Id : j # i => ap[j] \in {"off", "spin"}
    BY <2>1, TheOneAp DEF ApStep
  <2>3. /\ MpInv' /\ StartInv' /\ StatusInv' /\ ap' \in [Id -> ApState] /\ cpu_status' \in [Id -> BOOLEAN]
        /\ Id' = Id /\ BootId' = BootId
    BY <2>1, ApStepKeeps DEF Awake
  <2>4. WindowInv' /\ MemOk(m')
    <3>1. \A j \in Id : j # BootId /\ ap[j] = "base" => ap'[j] = "base"
      BY <2>1, <2>2 DEF ApStep
    <3> QED
      BY <2>1, <2>2, <3>1, WindowsStay DEF memVars, mpVars
  <2>5. TypeInv' /\ StackInv'
    BY <2>1, <2>3 DEF mpVars, BootInv, TypeInv, StackInv
  <2> QED
    BY <2>3, <2>4, <2>5 DEF BootInv
<1> QED
  BY <1>1, <1>2, <1>3, <1>4 DEF mp_main

-----------------------------------------------------------------------------
(* The first environment runs.                                               *)

\* Traps of the boot CPU, on the stack of CPU 0.
LEMMA RunsKeeps ==
  ASSUME BootInv, LapicInv, Runs
  PROVE  BootInv'
<1>1. /\ Len(table) \in Nat /\ BootId \in Id /\ Id = 0 .. Len(table) - 1
      /\ \A j \in Id : j \in Nat /\ j < Len(table) /\ (table[j + 1] <=> j = BootId)
  BY Ids DEF BootInv, TypeInv
<1>2. /\ bsp = "env_run" /\ UNCHANGED <<memVars, mpVars, mpentry_kstack, bsp, c, ap, window>>
      /\ \/ UNCHANGED <<stack, cpu_status>>
         \/ stack' = [stack EXCEPT ![BootId] = 0] /\ cpu_status' = cpu_status
         \/ cpu_status' = [cpu_status EXCEPT ![cpunum] = TRUE] /\ stack' = stack
  BY DEF Runs, OnKernelStack, InKernel, bootVars, cpuVars
<1>3. Id' = Id /\ BootId' = BootId
  BY <1>2, SameIds DEF mpVars
<1>4. WindowInv' /\ MemOk(m')
  BY <1>2, WindowsStay DEF memVars, mpVars
<1>5. (ismp => cpunum = BootId) /\ (~ismp => cpunum = 0)
  BY <1>2 DEF cpunum, LapicInv, Early
<1>6. cpu_status' \in [Id -> BOOLEAN] /\ \A j \in Id : (cpu_status[j] => cpu_status'[j]) /\ (cpu_status'[j] => cpu_status[j] \/ j = cpunum)
  BY <1>2 DEF BootInv, TypeInv
<1>7. /\ stack' \in [Id -> Int] /\ (stack'[BootId] = stack[BootId] \/ stack'[BootId] = 0)
      /\ \A j \in Id : j # BootId => stack'[j] = stack[j]
  BY <1>1, <1>2 DEF BootInv, TypeInv
<1>8. TypeInv' /\ MpInv' /\ StackInv'
  BY <1>2, <1>3, <1>6, <1>7 DEF mpVars, BootInv, TypeInv, MpInv, StackInv
<1>9. StartInv'
  BY <1>2, <1>3, <1>6 DEF mpVars, BootInv, StartInv, Starting, Early
<1>10. StatusInv'
  BY <1>2, <1>3, <1>5, <1>6 DEF mpVars, BootInv, StatusInv, Early
<1> QED
  BY <1>4, <1>8, <1>9, <1>10 DEF BootInv

-----------------------------------------------------------------------------
(* The theorems.                                                             *)

\* The machine starts with every AP off.
LEMMA BootInitHolds ==
  ASSUME Init
  PROVE  BootInv
<1>1. table \in Tables /\ BootInit
  BY DEF Init, BootInit
<1>2. /\ Len(table) \in Nat /\ BootId \in Id /\ Id = 0 .. Len(table) - 1
      /\ \A j \in Id : j \in Nat /\ j < Len(table) /\ (table[j + 1] <=> j = BootId)
  BY <1>1, Ids
<1>3. MemOk(m)
  <2>1. PICK e \in Ends : m = [npages |-> 0, nextfree |-> e, kern_pgdir |-> 0, pages |-> 0, envs |-> 0,
              page_free_list |-> <<>>, tables |-> [d \in Dir |-> NoTable],
              pte |-> [v \in VPage |-> NoPte], base |-> MMIOBASE]
    BY <1>1 DEF BootInit, MemInit
  <2>2. MMIOBASE \in Nat
    BY Constants DEF MMIOBASE
  <2> QED
    BY <2>1, <2>2 DEF MemOk
<1>4. TypeInv
  <2>1. /\ entry = 0 /\ ismp = FALSE /\ ncpu = 0 /\ bootcpu = 0 /\ c = 0 /\ bsp = "mem_init"
        /\ cpu_status = [i \in Id |-> FALSE] /\ ap = [i \in Id |-> "off"]
        /\ stack = [i \in Id |-> IF i = BootId THEN BootStack ELSE NoStack] /\ window = [i \in Id |-> NoWindow]
    BY <1>1 DEF BootInit
  <2>2. ncpu \in 0 .. NCPU /\ entry \in 0 .. Len(table) /\ c \in Nat /\ bootcpu \in Nat
    BY <1>2, <2>1, Constants
  <2>3. stack \in [Id -> Int] /\ window \in [Id -> Int]
    BY <2>1 DEF NoStack, BootStack, NoWindow
  <2>4. ap \in [Id -> ApState] /\ cpu_status \in [Id -> BOOLEAN] /\ bsp \in BspState /\ ismp \in BOOLEAN
    BY <2>1 DEF ApState, BspState, Early
  <2> QED
    BY <1>1, <2>2, <2>3, <2>4 DEF TypeInv
<1>5. MpInv /\ StartInv /\ StatusInv /\ StackInv
  BY <1>1, <1>2 DEF BootInit, MpInv, StartInv, StatusInv, StackInv, Early, Starting, NoStack, BootStack
<1>6. WindowInv
  BY <1>1 DEF BootInit, WindowInv
<1> QED
  BY <1>3, <1>4, <1>5, <1>6 DEF BootInv

\* Every step of every CPU keeps the invariant.
LEMMA BootStepKeeps ==
  ASSUME BootInv, LapicInv, [Next]_vars
  PROVE  BootInv'
<1>1. CASE UNCHANGED vars
  <2>1. UNCHANGED <<memVars, mpVars, cpuVars>>
    BY <1>1 DEF vars, bootVars
  <2>2. Id' = Id /\ BootId' = BootId
    BY <2>1, SameIds DEF mpVars
  <2>3. TypeInv' /\ MpInv' /\ StartInv' /\ StatusInv' /\ StackInv'
    BY <2>1, <2>2 DEF mpVars, cpuVars, BootInv, TypeInv, MpInv, StartInv, StatusInv, StackInv
  <2>4. WindowInv' /\ MemOk(m')
    BY <2>1, <2>2 DEF memVars, mpVars, cpuVars, BootInv, WindowInv, InBase
  <2> QED
    BY <2>3, <2>4 DEF BootInv
<1>2. CASE Bsp
  BY <1>2, MemStepKeeps, MpKeeps, MpDoneKeeps, BspWindowKeeps, BspBaseKeeps, BspRegistersKeeps, LoopKeeps, StartApKeeps,
     WaitStartedKeeps DEF Bsp
<1>3. CASE \E i \in Id : mp_main(i)
  BY <1>3, ApKeeps
<1>4. CASE Runs
  BY <1>4, RunsKeeps
<1> QED
  BY <1>1, <1>2, <1>3, <1>4 DEF Next, Boots, BootNext

\* What keeps lapic and the page it leads to.
LEMMA LapicStays ==
  ASSUME BootInv, LapicInv, UNCHANGED <<m, lapic, table>>, bsp # "mem_init",
         \A i \in Id : InBase(i)' => InBase(i),
         \/ bsp' = bsp /\ ismp' = ismp
         \/ bsp \in Early \cup {"lapic_init", "base"} /\ bsp' \in Early \cup {"lapic_init", "base"}
         \/ bsp \notin Early \cup {"lapic_init", "base"} /\ bsp' \notin Early \cup {"lapic_init", "base"} /\ ismp' = ismp
         \/ bsp = "lapic_init" /\ ~ismp /\ ~ismp' /\ bsp' = "loop"
  PROVE  LapicInv'
<1>1. Id' = Id /\ BootId' = BootId
  BY SameIds
<1>2. (\E i \in Id : InBase(i))' => \E i \in Id : InBase(i)
  BY <1>1
<1>3. "lapic_init" \in Early \cup {"lapic_init", "base"} /\ "loop" \notin Early \cup {"lapic_init", "base"}
  BY DEF Early
<1>4. LapicPte' = LapicPte
  BY DEF LapicPte
<1> QED
  BY <1>2, <1>3, <1>4 DEF LapicInv

\* A window is mapped at base: lapic, wherever it leads, leads to a mapped page.
LEMMA LapicMapped ==
  ASSUME BootInv, LapicInv, NEW w, MapWindow(w), bsp # "mem_init", bsp' # "mem_init",
         \/ bsp' = bsp
         \/ bsp = "lapic_init" /\ bsp' = "base"
  PROVE  LapicInv'
<1>1. m' = boot_map_region(m, m.base, 1, LapicPage, FALSE, TRUE) /\ lapic' = lapic /\ ismp' = ismp
  BY DEF MapWindow, mpVars
<1>2. /\ MemOk(m') /\ m'.base = m.base /\ m.base \in DOMAIN m'.pte
      /\ m'.pte[m.base] = LapicPte
      /\ \A v \in DOMAIN m.pte : v \in DOMAIN m'.pte /\ (v # m.base => m'.pte[v] = m.pte[v])
  BY <1>1, WindowMapped DEF BootInv, LapicPte
<1>3. lapic # NoWindow => lapic \in DOMAIN m'.pte /\ m'.pte[lapic] = LapicPte
  BY <1>2 DEF LapicInv
<1>4. LapicPte' = LapicPte /\ NoWindow' = NoWindow
  BY DEF LapicPte, NoWindow
<1>5. IF bsp' \in Early \cup {"lapic_init", "base"} THEN lapic = NoWindow ELSE lapic # NoWindow <=> ismp
  BY DEF LapicInv, Early
<1> QED
  BY <1>1, <1>2, <1>3, <1>4, <1>5 DEF LapicInv

\* base moves on, and lapic leads to where it was.
LEMMA LapicMoved ==
  ASSUME BootInv, LapicInv, NEW w \in Id, InBase(w), MoveBase, ismp, bsp # "mem_init", bsp' # "mem_init",
         bsp' \notin Early \cup {"lapic_init", "base"}, \A i \in Id : ~InBase(i)'
  PROVE  LapicInv'
<1>1. MemOk(m') /\ m'.base = m.base + 1 /\ m'.pte = m.pte /\ m.base \in Nat
  BY BaseMoved DEF BootInv, MemOk
<1>2. lapic' = m.base /\ ismp' = ismp /\ table' = table
  BY DEF MoveBase, Returned, LapicInv, mpVars
<1>3. m.base \in DOMAIN m.pte /\ m.pte[m.base] = LapicPte
  BY DEF LapicInv
<1>4. ~(\E i \in Id : InBase(i))'
  BY <1>2, SameIds
<1>5. LapicPte' = LapicPte /\ NoWindow' = NoWindow
  BY DEF LapicPte, NoWindow
<1>6. lapic' # NoWindow
  BY <1>1, <1>2 DEF NoWindow
<1> QED
  BY <1>1, <1>2, <1>3, <1>4, <1>5, <1>6 DEF LapicInv

\* Every step of every CPU leaves lapic on a mapped page.
LEMMA LapicStep ==
  ASSUME BootInv, BootInv', LapicInv, [Next]_vars, phase = "done" => MmioReturns = "base"
  PROVE  LapicInv'
<1>1. /\ Len(table) \in Nat /\ BootId \in Id /\ Id = 0 .. Len(table) - 1
      /\ \A i \in Id : i \in Nat /\ i < Len(table) /\ (table[i + 1] <=> i = BootId)
  BY Ids DEF BootInv, TypeInv
<1>2. ASSUME bsp \in Early \cup {"lapic_init", "base", "lapicw"}, NEW i \in Id PROVE ap[i] = "off"
  <2>1. c = 0 /\ bsp \notin Starting
    BY <1>2 DEF BootInv, StartInv, Early, Starting
  <2>2. i > c \/ i = c
    BY <1>1, <2>1
  <2> QED
    BY <2>1, <2>2, Zenon DEF BootInv, StartInv
<1>3. CASE MemStep \/ MemDone
  <2>1. bsp = "mem_init" /\ UNCHANGED <<mpVars, ap, lapic>> /\ bsp' \in {"mem_init", "mpconfig"}
        /\ (bsp' = "mpconfig" => MmioReturns = "base")
    BY <1>3 DEF MemStep, MemDone, cpuVars
  <2>2. Id' = Id /\ BootId' = BootId
    BY <2>1, SameIds DEF mpVars
  <2>3. lapic = NoWindow
    BY <2>1 DEF LapicInv, Early
  <2>4. \A i \in Id : ~InBase(i)'
    BY <1>2, <2>1, <2>2 DEF InBase, Early
  <2>5. ~(\E i \in Id : InBase(i))'
    BY <2>2, <2>4
  <2>6. NoWindow' = NoWindow
    BY DEF NoWindow
  <2> QED
    BY <2>1, <2>3, <2>5, <2>6 DEF LapicInv, Early
<1>4. CASE MpConfig \/ MpEntry \/ MpUnknown \/ MpDone \/ NoLapic
  <2>1. /\ UNCHANGED <<m, lapic, table, ap>> /\ bsp # "mem_init"
        /\ bsp' # "base"
        /\ \/ bsp \in {"mpconfig", "mp_init"} /\ bsp' \in {"mp_init", "lapic_init"}
           \/ bsp = "lapic_init" /\ ~ismp /\ ~ismp' /\ bsp' = "loop"
    BY <1>4 DEF MpConfig, MpEntry, MpUnknown, MpDone, NoLapic, memVars, mpVars, cpuVars
  <2>2. BootId' = BootId
    BY <2>1, SameIds
  <2>3. \A i \in Id : InBase(i)' => InBase(i)
    BY <2>1, <2>2 DEF InBase
  <2>4. \/ bsp \in Early \cup {"lapic_init", "base"} /\ bsp' \in Early \cup {"lapic_init", "base"}
        \/ bsp = "lapic_init" /\ ~ismp /\ ~ismp' /\ bsp' = "loop"
    BY <2>1 DEF Early
  <2> QED
    BY <2>1, <2>3, <2>4, LapicStays
<1>5. CASE BspWindow
  <2>1. MapWindow(BootId) /\ bsp = "lapic_init" /\ bsp' = "base"
    BY <1>5 DEF BspWindow
  <2>2. PICK w : w = BootId
    OBVIOUS
  <2> QED
    BY <2>1, <2>2, LapicMapped
<1>6. CASE BspBase
  <2>1. MoveBase /\ bsp = "base" /\ bsp' = "lapicw" /\ ap' = ap /\ table' = table
    BY <1>6 DEF BspBase, MoveBase, mpVars
  <2>2. Id' = Id /\ BootId' = BootId
    BY <2>1, SameIds
  <2>3. ismp
    BY <2>1 DEF BootInv, StartInv
  <2>4. PICK w \in Id : w = BootId
    BY <1>1
  <2>5. InBase(w) /\ \A i \in Id : ~InBase(i)'
    BY <1>2, <2>1, <2>2, <2>4 DEF InBase, Early
  <2>6. bsp' \notin Early \cup {"lapic_init", "base"}
    BY <2>1 DEF Early
  <2> QED
    BY <2>1, <2>3, <2>5, <2>6, LapicMoved
<1>7. CASE BspRegisters \/ SkipSelf \/ OfferStack \/ StartAp \/ WaitStarted \/ RunFirstEnv
  <2>1. /\ UNCHANGED <<m, lapic, table, ismp>> /\ bsp \in {"lapicw", "loop", "INIT", "STARTUP 1", "STARTUP 2", "wait"}
        /\ bsp' \in {"loop", "INIT", "STARTUP 1", "STARTUP 2", "wait", "env_run"}
        /\ \/ ap' = ap
           \/ ap' = [ap EXCEPT ![c] = "halted"]
           \/ ap' = [ap EXCEPT ![c] = "mpentry"]
    BY <1>7, Reachable DEF BspRegisters, SkipSelf, OfferStack, StartAp, lapic_startap, WaitStarted, RunFirstEnv, memVars, mpVars
  <2>2. BootId' = BootId
    BY <2>1, SameIds
  <2>3. \A i \in Id : ap'[i] = "base" => ap[i] = "base"
    BY <2>1 DEF BootInv, TypeInv
  <2>4. \A i \in Id : InBase(i)' => InBase(i)
    BY <2>1, <2>2, <2>3 DEF InBase
  <2>5. bsp \notin Early \cup {"lapic_init", "base"} /\ bsp' \notin Early \cup {"lapic_init", "base"} /\ bsp # "mem_init"
    BY <2>1 DEF Early
  <2> QED
    BY <2>1, <2>4, <2>5, LapicStays
<1>8. ASSUME NEW i \in Id, mp_main(i) PROVE LapicInv'
  <2>1. ap[i] \in {"mpentry", "mp_main", "base", "lapicw", "setup", "started"} /\ bsp' = bsp
    BY <1>8 DEF mp_main, mpentry, ApWindow, ApBase, ApRegisters, Setup, Started, ApStep
  <2>2. /\ i = c /\ i # BootId /\ i < NCPU /\ ismp /\ mpentry_kstack = i
        /\ bsp \in {"STARTUP 2", "wait"}
        /\ \A j \in Id : j # i => ap[j] \in {"off", "spin"}
    BY <2>1, TheOneAp
  <2>3. bsp # "mem_init" /\ bsp \notin Early \cup {"lapic_init", "base"}
    BY <2>2 DEF Early
  <2>4. CASE ApWindow(i)
    <3>1. MapWindow(i)
      BY <2>4 DEF ApWindow
    <3> QED
      BY <2>1, <2>3, <3>1, LapicMapped
  <2>5. CASE ApBase(i)
    <3>1. MoveBase /\ ap[i] = "base" /\ ap' = [ap EXCEPT ![i] = "lapicw"] /\ table' = table
      BY <2>5 DEF ApBase, ApStep, MoveBase, mpVars
    <3>2. BootId' = BootId
      BY <3>1, SameIds
    <3>3. InBase(i)
      BY <2>2, <3>1 DEF InBase
    <3>4. \A j \in Id : ap'[j] # "base"
      BY <2>2, <3>1 DEF BootInv, TypeInv
    <3>5. \A j \in Id : ~InBase(j)'
      BY <2>1, <2>3, <3>2, <3>4 DEF InBase
    <3> QED
      BY <2>1, <2>2, <2>3, <3>1, <3>3, <3>5, LapicMoved
  <2>6. CASE mpentry(i) \/ ApRegisters(i) \/ Setup(i) \/ Started(i)
    <3>1. /\ UNCHANGED <<m, lapic, table, ismp>>
          /\ \E to \in {"mp_main", "setup", "started", "spin"} : ap' = [ap EXCEPT ![i] = to]
      BY <2>6, Reachable DEF mpentry, ApRegisters, Setup, Started, ApStep, memVars, mpVars
    <3>2. BootId' = BootId
      BY <3>1, SameIds
    <3>3. \A j \in Id : ap'[j] = "base" => ap[j] = "base"
      BY <3>1 DEF BootInv, TypeInv
    <3>4. \A j \in Id : InBase(j)' => InBase(j)
      BY <2>1, <3>2, <3>3 DEF InBase
    <3> QED
      BY <2>1, <2>3, <3>1, <3>4, LapicStays
  <2> QED
    BY <1>8, <2>4, <2>5, <2>6 DEF mp_main
<1>9. CASE UNCHANGED vars \/ Runs
  <2>1. UNCHANGED <<m, lapic, table, ismp, bsp, ap>>
    BY <1>9 DEF vars, bootVars, memVars, mpVars, cpuVars, Runs, OnKernelStack, InKernel
  <2>2. Id' = Id /\ BootId' = BootId
    BY <2>1, SameIds
  <2>3. \A i \in Id : InBase(i)' <=> InBase(i)
    BY <2>1, <2>2 DEF InBase
  <2>4. (\E i \in Id : InBase(i))' <=> \E i \in Id : InBase(i)
    BY <2>2, <2>3
  <2>5. LapicPte' = LapicPte /\ NoWindow' = NoWindow
    BY DEF LapicPte, NoWindow
  <2> QED
    BY <2>1, <2>4, <2>5 DEF LapicInv
<1> QED
  BY <1>3, <1>4, <1>5, <1>6, <1>7, <1>8, <1>9 DEF Next, Boots, BootNext, Bsp

-----------------------------------------------------------------------------
(* The memory, once the CPUs map their windows.                              *)

\* How many pages of the MMIO region lapic_init may have taken: one on the boot CPU, and
\* one for every turn of boot_aps's loop.
Taken ==
  IF bsp \in Early \cup {"lapic_init", "base"} THEN c
  ELSE IF bsp \in Starting /\ ap[c] \in {"lapicw", "setup", "started", "spin"} THEN c + 2 ELSE c + 1

\* The memory is as mem_init left it, but for base.
ReadyInv ==
  /\ MemInv
  /\ bsp = "mem_init" => BaseInv /\ MmioInv
  /\ bsp # "mem_init" =>
       phase = "done" /\ MMIOBASE + 3 <= m.base /\ m.base <= MMIOBASE + 3 + Taken

\* Phase "done" is behind everything.
LEMMA AtDone ==
  ASSUME MemInv, phase = "done"
  PROVE  /\ phase \in Installed /\ phase \notin Untested /\ phase \notin Allocating /\ phase \notin Unmapped
         /\ region \in Nat /\ region >= 4 + NCPU /\ Reserve = 0 /\ 3 \in Present
         /\ cr3 = "kern"
<1>1. /\ phase \in Installed /\ phase \notin Unbased \cup {"boot_map_region"} /\ phase \notin Unmapped
      /\ phase \notin Untested /\ phase \notin Allocating
  BY DEF Installed, Unbased, Unmapped, Untested, Unlisted, Allocating
<1>2. region \in Nat /\ region >= 4 + NCPU
  BY <1>1, AllPresent
<1>3. Reserve = 0
  BY <1>1, <1>2, Constants DEF Reserve
<1>4. 3 \in Present
  BY <1>1 DEF Present
<1>5. cr3 = "kern"
  BY <1>1 DEF MemInv, PhaseInv
<1> QED
  BY <1>1, <1>2, <1>3, <1>4, <1>5

\* A window is an entry of a page table that is there, below MMIOLIM.
LEMMA MapWindowKeeps ==
  ASSUME MemInv, phase = "done", UNCHANGED <<phase, cr3, region>>, 3 * NPT <= m.base, m.base + 1 <= 4 * NPT,
         m' = boot_map_region(m, m.base, 1, LapicPage, FALSE, TRUE)
  PROVE  MemInv' /\ m'.base = m.base
<1> USE Constants
<1>1. /\ phase \in Installed /\ phase \notin Untested /\ phase \notin Allocating /\ phase \notin Unmapped
      /\ region \in Nat /\ region >= 4 + NCPU /\ Reserve = 0 /\ 3 \in Present
  BY AtDone
<1>2. /\ m \in Memory /\ TablesInv /\ PteInv /\ Size(m.npages) /\ m.npages \in Nat
      /\ \A d \in Dir, i \in DOMAIN m.page_free_list : m.tables[d] # m.page_free_list[i]
      /\ Stock(m.page_free_list, 0, m.npages)
  BY <1>1, Arrays DEF MemInv, ListInv
<1>3. /\ 0 \in Nat /\ 1 \in Nat /\ 1 > 0 /\ 3 * NPT <= m.base /\ m.base + 1 <= 4 * NPT
      /\ 0 \in {0, 1} /\ 0 <= 0 /\ 0 = (IF 3 \in Present THEN 0 ELSE 1) /\ LapicPage \in Nat
  BY <1>1, MmioAssumption
<1>4. IsMmio(boot_map_region(m, m.base, 1, LapicPage, FALSE, TRUE), 0, 0)
  BY ONLY <1>2, <1>3, MmioMapped
<1>5. IsMmio(m', 0, 0)
  BY <1>4
<1>6. /\ m' \in Memory
      /\ m'.npages = m.npages /\ m'.nextfree = m.nextfree /\ m'.kern_pgdir = m.kern_pgdir
      /\ m'.pages = m.pages /\ m'.envs = m.envs /\ m'.base = m.base
      /\ Stock(m'.page_free_list, 0 - 0, m.npages)
      /\ \A d \in Dir, i \in DOMAIN m'.page_free_list : m'.tables[d] # m'.page_free_list[i]
      /\ \A d \in Dir : d # 3 => m'.tables[d] = m.tables[d]
      /\ m'.tables[3] \in Nat /\ Low(m'.tables[3])
      /\ \A v \in VPage \ (3 * NPT .. 4 * NPT - 1) : m'.pte[v] = m.pte[v]
      /\ \A v \in 3 * NPT .. 4 * NPT - 1 : m'.pte[v] = m.pte[v] \/ m'.pte[v].u = FALSE
  BY ONLY <1>5, Zenon DEF IsMmio
<1>7. PhaseInv'
  BY DEF MemInv, PhaseInv
<1>8. 2 \in Dir
  BY Layout
<1>9. AllocInv'
  <2>1. 2 # 3
    OBVIOUS
  <2>2. m'.tables[2] = m.tables[2]
    BY ONLY <1>6, <1>8, <2>1
  <2>3. m'.tables[2] = m.tables[2] /\ phase' = phase
    BY <2>2
  <2>4. phase' \notin Allocating
    BY <1>1, <2>3
  <2> QED
    BY <1>1, <1>6, <2>3, <2>4, AllocStays
<1>10. Present' = Present /\ Reserve' = Reserve
  BY DEF Present, Reserve
<1>11. TablesInv'
  <2> SUFFICES ASSUME NEW d \in Dir
               PROVE  IF d \in Present THEN m'.tables[d] \in Nat /\ Low(m'.tables[d]) ELSE m'.tables[d] = NoTable
    BY <1>10 DEF TablesInv
  <2>1. CASE d = 3
    BY <1>1, <1>6, <2>1
  <2>2. CASE d # 3
    <3>1. m'.tables[d] = m.tables[d]
      BY <1>6, <2>2
    <3> QED
      BY <1>2, <3>1 DEF TablesInv
  <2> QED
    BY <2>1, <2>2
<1>12. ListInv'
  <2>1. 0 - 0 = 0
    OBVIOUS
  <2>2. Stock(m'.page_free_list, 0, m'.npages)
    BY <1>6, <2>1
  <2>3. phase' \notin Unlisted /\ phase' # "check_page_free_list(1)"
    BY <1>1 DEF Untested
  <2> QED
    BY <1>1, <1>6, <1>10, <2>2, <2>3 DEF ListInv
<1>13. PteInv'
  BY <1>1, <1>2, <1>6, MmioPte
<1> QED
  BY <1>1, <1>6, <1>7, <1>9, <1>11, <1>12, <1>13 DEF MemInv

\* base is no part of the page tables.
LEMMA MoveBaseKeeps ==
  ASSUME MemInv, phase = "done", UNCHANGED <<phase, cr3, region>>, m' = [m EXCEPT !.base = @ + 1]
  PROVE  MemInv' /\ m'.base = m.base + 1
<1> DEFINE b == m.base + 1
<1>1. m \in Memory
  BY DEF MemInv
<1>2. b \in Nat /\ m' = [m EXCEPT !.base = b]
  BY <1>1, Fields
<1> HIDE DEF b
<1>3. /\ m' \in Memory
      /\ m'.npages = m.npages /\ m'.nextfree = m.nextfree /\ m'.kern_pgdir = m.kern_pgdir /\ m'.pages = m.pages
      /\ m'.envs = m.envs /\ m'.page_free_list = m.page_free_list /\ m'.tables = m.tables /\ m'.pte = m.pte
      /\ m'.base = b
  BY <1>1, <1>2 DEF Memory
<1>4. phase \in Installed /\ phase \notin Allocating
  BY AtDone
<1>5. PhaseInv' /\ Present' = Present /\ Reserve' = Reserve
  BY DEF MemInv, PhaseInv, Present, Reserve
<1>6. AllocInv'
  BY <1>3, <1>4, AllocStays
<1>7. TablesInv' /\ ListInv'
  BY <1>3, <1>5 DEF MemInv, TablesInv, ListInv
<1>8. PteInv'
  BY <1>3 DEF MemInv, PteInv, UserInv, ArrayInv, KernInv, KstackInv, GapInv
<1> QED
  BY <1>3, <1>4, <1>5, <1>6, <1>7, <1>8 DEF MemInv, b

\* After check_page no statement of mem_init moves base.
LEMMA BaseStays ==
  ASSUME MemInv, BaseInv, mem_init, MemInv'
  PROVE  BaseInv'
<1>1. CASE phase' \notin Installed
  BY <1>1 DEF MemInv
<1>2. CASE phase' \in Installed
  <2>1. phase' \notin Unmapped /\ phase' # "mm2"
    BY <1>2 DEF Installed, Unmapped, Untested, Unlisted, Allocating
  <2>2. phase \notin Unmapped /\ phase # "mm2" /\ m'.base = m.base
    <3>1. CASE phase \in Installed
      <4>1. phase \notin Unmapped /\ phase # "mm2"
        BY <3>1 DEF Installed, Unmapped, Untested, Unlisted, Allocating
      <4>2. \E l : m' = [m EXCEPT !.page_free_list = l] \/ m' = m
        BY <3>1 DEF mem_init, i386_detect_memory, KernPgdir, Pages, Envs, page_init, check_page_free_list,
           check_page_alloc, check_page, CheckMm1, CheckMm2, CheckUnmap, MapRegion, check_kern_pgdir, lcr3,
           check_page_installed_pgdir, Do, Installed
      <4>3. m \in Memory
        BY DEF MemInv
      <4> QED
        BY <4>1, <4>2, <4>3 DEF Memory
    <3>2. CASE phase \notin Installed
      <4>1. cr3' # cr3
        BY <1>2, <3>2 DEF MemInv, PhaseInv
      <4>2. lcr3
        BY <4>1 DEF mem_init, i386_detect_memory, KernPgdir, Pages, Envs, page_init, check_page_free_list,
           check_page_alloc, check_page, CheckMm1, CheckMm2, CheckUnmap, MapRegion, check_kern_pgdir,
           check_page_installed_pgdir, Do
      <4>3. phase = "lcr3" /\ m' = m
        BY <4>2 DEF lcr3
      <4> QED
        BY <4>3 DEF Unmapped, Untested, Unlisted, Allocating
    <3> QED
      BY <3>1, <3>2
  <2> QED
    BY <2>1, <2>2 DEF BaseInv
<1> QED
  BY <1>1, <1>2

\* A step that leaves the memory alone gives back no page of the MMIO region.
LEMMA TakenGrows ==
  ASSUME BootInv, BootInv', LapicInv, bsp # "mem_init",
         \/ MpConfig \/ MpEntry \/ MpUnknown \/ MpDone \/ NoLapic \/ BspRegisters \/ SkipSelf \/ OfferStack \/ StartAp
         \/ WaitStarted \/ RunFirstEnv
  PROVE  Taken <= Taken' /\ bsp' # "mem_init" /\ UNCHANGED memVars
<1>1. c \in Nat /\ Taken \in Nat
  BY DEF BootInv, TypeInv, Taken
<1>2. CASE MpConfig \/ MpDone
  <2>1. UNCHANGED <<memVars, c>> /\ bsp \in Early /\ bsp' \in Early \cup {"lapic_init"} /\ bsp' # "mem_init"
    BY <1>2 DEF MpConfig, MpDone, Early
  <2>2. Taken = c /\ Taken' = c
    BY <2>1 DEF Taken
  <2> QED
    BY <1>1, <2>1, <2>2
<1>3. CASE MpEntry \/ MpUnknown
  <2>1. UNCHANGED <<memVars, bsp, c, ap>>
    BY <1>3 DEF MpEntry, MpUnknown, cpuVars
  <2>2. Taken' = Taken
    BY <2>1 DEF Taken
  <2> QED
    BY <1>1, <2>1, <2>2
<1>4. CASE NoLapic \/ BspRegisters \/ RunFirstEnv \/ OfferStack
  <2>1. UNCHANGED <<memVars, c, ap>> /\ bsp \in {"lapic_init", "lapicw", "loop"} /\ bsp' \in {"loop", "env_run", "INIT"}
    BY <1>4, Reachable DEF NoLapic, BspRegisters, RunFirstEnv, OfferStack
  <2>2. Taken <= c + 1
    <3>1. Taken \in {c, c + 1}
      BY <2>1 DEF Taken, Starting
    <3> QED
      BY <1>1, <3>1
  <2>3. Taken' = c + 1
    BY <2>1 DEF Taken, Starting, Early
  <2> QED
    BY <2>1, <2>2, <2>3
<1>5. CASE SkipSelf
  <2>1. UNCHANGED <<memVars, bsp>> /\ bsp = "loop" /\ c' = c + 1
    BY <1>5, Reachable DEF SkipSelf
  <2>2. Taken = c + 1 /\ Taken' = (c + 1) + 1
    BY <2>1 DEF Taken, Early, Starting
  <2> QED
    BY <1>1, <2>1, <2>2
<1>6. CASE WaitStarted
  <2>1. UNCHANGED memVars /\ bsp = "wait" /\ bsp' = "loop" /\ c' = c + 1
    BY <1>6 DEF WaitStarted
  <2>2. Taken <= c + 2
    BY <1>1, <2>1 DEF Taken, Early
  <2>3. Taken' = (c + 1) + 1
    BY <2>1 DEF Taken, Early, Starting
  <2> QED
    BY <1>1, <2>1, <2>2, <2>3
<1>7. CASE StartAp
  <2>1. UNCHANGED <<memVars, mpVars, c>> /\ bsp \in {"INIT", "STARTUP 1", "STARTUP 2"} /\ bsp' \in Starting
    BY <1>7, Reachable DEF StartAp, lapic_startap, Starting
  <2>2. c \in Id /\ ap \in [Id -> ApState]
    <3>1. ismp /\ c < ncpu /\ bsp \notin Early
      BY <2>1 DEF BootInv, StartInv, Early, Starting
    <3>2. Len(table) \in Nat /\ Id = 0 .. Len(table) - 1
      BY Ids DEF BootInv, TypeInv
    <3>3. ncpu = (IF Len(table) < NCPU THEN Len(table) ELSE NCPU) /\ ncpu \in 0 .. NCPU
      BY <3>1 DEF BootInv, TypeInv, MpInv
    <3>4. c \in 0 .. Len(table) - 1
      BY <1>1, <3>1, <3>2, <3>3, Constants
    <3> QED
      BY <3>2, <3>4 DEF BootInv, TypeInv
  <2>3. bsp = "STARTUP 1" => ap[c] = "halted"
    BY <2>2 DEF BootInv, StartInv
  <2>4. bsp = "STARTUP 2" => ap' = ap
    BY <1>7, <2>2, Reachable DEF StartAp, lapic_startap, ReceivesStartup, BootInv, StartInv, Awake
  <2>5. Taken' = IF ap'[c] \in {"lapicw", "setup", "started", "spin"} THEN c + 2 ELSE c + 1
    BY <2>1 DEF Taken, Starting, Early
  <2>6. CASE bsp = "STARTUP 2"
    <3>1. Taken' = Taken
      BY <2>1, <2>4, <2>5, <2>6 DEF Taken, Starting, Early
    <3>2. bsp' # "mem_init" /\ UNCHANGED memVars
      BY <2>1 DEF Starting
    <3> QED
      BY <1>1, <3>1, <3>2
  <2>7. CASE bsp # "STARTUP 2"
    <3>1. Taken = c + 1
      BY <2>1, <2>3, <2>7 DEF Taken, Starting, Early
    <3>2. Taken' \in {c + 1, c + 2}
      BY <2>5
    <3>3. bsp' # "mem_init" /\ UNCHANGED memVars
      BY <2>1 DEF Starting
    <3> QED
      BY <1>1, <3>1, <3>2, <3>3
  <2> QED
    BY <2>6, <2>7
<1> QED
  BY <1>2, <1>3, <1>4, <1>5, <1>6, <1>7

\* The one AP takes its page between "base" and "lapicw".
LEMMA ApTaken ==
  ASSUME BootInv, BootInv', LapicInv, NEW i \in Id, mp_main(i)
  PROVE  /\ bsp # "mem_init" /\ bsp' # "mem_init" /\ c < NCPU /\ Taken \in Nat
         /\ Taken' = Taken + (IF ApBase(i) THEN 1 ELSE 0)
         /\ ap[i] \in {"mp_main", "base"} => Taken = c + 1
<1>1. c \in Nat /\ ap \in [Id -> ApState]
  BY DEF BootInv, TypeInv
<1>2. PICK from \in {"mpentry", "mp_main", "base", "lapicw", "setup", "started"}, to \in Awake :
        ApStep(i, from, to) /\ bsp' = bsp /\ c' = c
        /\ (from = "mpentry" => to = "mp_main") /\ (from = "mp_main" => to = "base") /\ (from = "base" => to = "lapicw")
        /\ (from = "lapicw" => to = "setup")
        /\ (from = "setup" => to = "started") /\ (from = "started" => to = "spin")
        /\ (ApBase(i) <=> from = "base")
  <2>1. CASE mpentry(i)
    BY <2>1, Reachable DEF mpentry, ApStep, ApBase, Awake
  <2>2. CASE ApWindow(i)
    BY <2>2 DEF ApWindow, MapWindow, ApStep, ApBase, Awake
  <2>3. CASE ApBase(i)
    BY <2>3 DEF ApBase, MoveBase, ApStep, Awake
  <2>4. CASE Setup(i)
    BY <2>4, Reachable DEF Setup, ApStep, ApBase, Awake
  <2>5. CASE Started(i)
    BY <2>5, Reachable DEF Started, ApStep, ApBase, Awake
  <2>6. CASE ApRegisters(i)
    BY <2>6, Reachable DEF ApRegisters, ApStep, ApBase, Awake
  <2> QED
    BY <2>1, <2>2, <2>3, <2>4, <2>5, <2>6 DEF mp_main
<1>3. ap[i] = from /\ ap'[i] = to
  BY <1>1, <1>2 DEF ApStep
<1>4. i = c /\ i < NCPU /\ bsp \in {"STARTUP 2", "wait"}
  BY <1>3, TheOneAp
<1>5. bsp \in Starting /\ bsp \notin Early \cup {"lapic_init", "base"} /\ bsp # "mem_init"
  BY <1>4 DEF Starting, Early
<1>6. Taken = IF from \in {"lapicw", "setup", "started", "spin"} THEN c + 2 ELSE c + 1
  BY <1>3, <1>4, <1>5 DEF Taken
<1>7. Taken' = IF to \in {"lapicw", "setup", "started", "spin"} THEN c + 2 ELSE c + 1
  BY <1>2, <1>3, <1>4, <1>5 DEF Taken
<1>8. c < NCPU /\ bsp' # "mem_init"
  BY <1>2, <1>4, <1>5
<1>9. Taken \in Nat
  BY <1>1, <1>6
<1>10. ap[i] \in {"mp_main", "base"} => Taken = c + 1
  BY <1>3, <1>6
<1>11. (to \in {"lapicw", "setup", "started", "spin"}) <=> (from \in {"base", "lapicw", "setup", "started"})
  BY <1>2
<1>12. Taken' = Taken + (IF from = "base" THEN 1 ELSE 0)
  <2>1. CASE from = "base"
    BY <1>1, <1>6, <1>7, <1>11, <2>1
  <2>2. CASE from # "base"
    <3>1. Taken' = Taken
      BY <1>6, <1>7, <1>11, <2>2
    <3> QED
      BY <1>9, <2>2, <3>1
  <2> QED
    BY <2>1, <2>2
<1> QED
  BY <1>2, <1>5, <1>8, <1>9, <1>10, <1>12

\* Every step keeps the memory ready.
LEMMA ReadyStep ==
  ASSUME BootInv, BootInv', LapicInv, ReadyInv, [Next]_vars
  PROVE  ReadyInv'
<1> USE Constants
<1>1. MMIOBASE = 3 * NPT /\ 3 + NCPU + 1 <= NPT /\ m.base \in Nat
  BY Layout, MmioAssumption, Fields DEF ReadyInv, MemInv
<1>2. Taken \in Nat /\ Taken' \in Nat /\ c \in Nat
  <2>1. c \in Nat /\ c' \in Nat
    BY DEF BootInv, TypeInv
  <2>2. Taken \in {c, c + 1, c + 2} /\ Taken' \in {c', c' + 1, c' + 2}
    BY Zenon DEF Taken
  <2>3. Taken \in Nat
    BY <2>1, <2>2
  <2>4. Taken' \in Nat
    <3> DEFINE t == Taken'
               d == c'
    <3>1. d \in Nat /\ t \in {d, d + 1, d + 2}
      BY <2>1, <2>2, Zenon
    <3> HIDE DEF t, d
    <3>2. t \in Nat
      BY <3>1
    <3> QED
      BY <3>2, Zenon DEF t
  <2> QED
    BY <2>1, <2>3, <2>4
<1>3. ASSUME UNCHANGED memVars, bsp # "mem_init", bsp' # "mem_init", Taken <= Taken' PROVE ReadyInv'
  <2>1. m' = m /\ phase' = phase /\ cr3' = cr3 /\ region' = region
    BY <1>3 DEF memVars
  <2>2. MemInv'
    BY <2>1 DEF ReadyInv, MemInv, PhaseInv, AllocInv, TablesInv, Present, ListInv, Reserve, PteInv, UserInv, ArrayInv,
       KernInv, KstackInv, GapInv, BaseInv
  <2>3. phase = "done" /\ MMIOBASE + 3 <= m.base /\ m.base <= MMIOBASE + 3 + Taken
    BY <1>3 DEF ReadyInv
  <2>4. m.base <= MMIOBASE + 3 + Taken'
    BY <1>1, <1>2, <1>3, <2>3
  <2> QED
    BY <1>3, <2>1, <2>2, <2>3, <2>4 DEF ReadyInv
<1>4. CASE MemStep
  <2>1. MemInv /\ BaseInv /\ MmioInv /\ mem_init /\ bsp' = "mem_init"
    BY <1>4 DEF MemStep, ReadyInv, cpuVars
  <2>2. MemInv'
    BY <2>1, MemInitStep
  <2>3. BaseInv' /\ MmioInv'
    BY <2>1, <2>2, BaseStays, MmioStays
  <2> QED
    BY <2>1, <2>2, <2>3 DEF ReadyInv
<1>5. CASE MemDone
  <2>1. m' = m /\ phase' = phase /\ cr3' = cr3 /\ region' = region /\ phase = "done" /\ bsp = "mem_init" /\ bsp' = "mpconfig"
    BY <1>5 DEF MemDone, memVars
  <2>2. MemInv'
    BY <2>1 DEF ReadyInv, MemInv, PhaseInv, AllocInv, TablesInv, Present, ListInv, Reserve, PteInv, UserInv, ArrayInv,
       KernInv, KstackInv, GapInv, BaseInv
  <2>3. m.base = MMIOBASE + 3
    BY <2>1 DEF ReadyInv, BaseInv, Unmapped, Untested, Unlisted, Allocating
  <2> DEFINE t == Taken'
  <2>4. MMIOBASE + 3 <= m.base /\ m.base <= MMIOBASE + 3 + t
    <3>1. t \in Nat
      BY <1>2
    <3> HIDE DEF t
    <3> QED
      BY <1>1, <2>3, <3>1
  <2> QED
    BY <2>1, <2>2, <2>4 DEF ReadyInv
<1>6. CASE \/ MpConfig \/ MpEntry \/ MpUnknown \/ MpDone \/ NoLapic \/ BspRegisters \/ SkipSelf \/ OfferStack \/ StartAp
           \/ WaitStarted \/ RunFirstEnv
  <2>1. bsp # "mem_init"
    BY <1>6 DEF MpConfig, MpEntry, MpUnknown, MpDone, NoLapic, BspRegisters, SkipSelf, OfferStack, StartAp, lapic_startap, WaitStarted,
       RunFirstEnv
  <2> QED
    BY <1>2, <1>3, <1>6, <2>1, TakenGrows
<1>7. ASSUME bsp # "mem_init", bsp' # "mem_init", m.base + 1 <= 4 * NPT, NEW i, MapWindow(i), Taken <= Taken' PROVE ReadyInv'
  <2>1. phase = "done" /\ MMIOBASE + 3 <= m.base /\ m.base <= MMIOBASE + 3 + Taken /\ MemInv
    BY <1>7 DEF ReadyInv
  <2>2. UNCHANGED <<phase, cr3, region>> /\ m' = boot_map_region(m, m.base, 1, LapicPage, FALSE, TRUE)
    BY <1>7 DEF MapWindow
  <2>3. 3 * NPT <= m.base
    BY <1>1, <2>1
  <2>4. MemInv' /\ m'.base = m.base
    BY <1>7, <2>1, <2>2, <2>3, MapWindowKeeps
  <2>5. m.base <= MMIOBASE + 3 + Taken'
    BY <1>1, <1>2, <1>7, <2>1
  <2> QED
    BY <1>7, <2>1, <2>2, <2>4, <2>5 DEF ReadyInv
<1>8. ASSUME bsp # "mem_init", bsp' # "mem_init", MoveBase, Taken' = Taken + 1 PROVE ReadyInv'
  <2>1. phase = "done" /\ MMIOBASE + 3 <= m.base /\ m.base <= MMIOBASE + 3 + Taken /\ MemInv
    BY <1>8 DEF ReadyInv
  <2>2. UNCHANGED <<phase, cr3, region>> /\ m' = [m EXCEPT !.base = @ + 1]
    BY <1>8 DEF MoveBase
  <2>3. MemInv' /\ m'.base = m.base + 1
    BY <2>1, <2>2, MoveBaseKeeps
  <2>4. MMIOBASE + 3 <= m.base + 1 /\ m.base + 1 <= MMIOBASE + 3 + Taken'
    BY <1>1, <1>2, <1>8, <2>1
  <2> QED
    BY <1>8, <2>1, <2>2, <2>3, <2>4 DEF ReadyInv
<1>9. CASE BspWindow
  <2>1. bsp = "lapic_init" /\ bsp' = "base" /\ c' = c /\ MapWindow(BootId) /\ c = 0
    BY <1>9 DEF BspWindow, MapWindow, BootInv, StartInv
  <2>2. Taken = 0 /\ Taken' = 0
    BY <2>1 DEF Taken, Early, Starting
  <2>3. m.base <= MMIOBASE + 3
    BY <1>1, <2>1, <2>2 DEF ReadyInv
  <2>4. m.base + 1 <= 4 * NPT
    BY <1>1, <2>3
  <2>5. PICK i : i = BootId
    OBVIOUS
  <2> QED
    BY <1>7, <2>1, <2>2, <2>4, <2>5
<1>10. CASE BspBase
  <2>1. bsp = "base" /\ bsp' = "lapicw" /\ c' = c /\ MoveBase /\ c = 0
    BY <1>10 DEF BspBase, MoveBase, BootInv, StartInv
  <2>2. Taken' = Taken + 1
    BY <2>1 DEF Taken, Early, Starting
  <2> QED
    BY <1>8, <2>1, <2>2
<1>11. ASSUME NEW i \in Id, mp_main(i) PROVE ReadyInv'
  <2>1. /\ bsp # "mem_init" /\ bsp' # "mem_init" /\ c < NCPU /\ Taken \in Nat
        /\ Taken' = Taken + (IF ApBase(i) THEN 1 ELSE 0)
        /\ ap[i] \in {"mp_main", "base"} => Taken = c + 1
    BY <1>11, ApTaken
  <2>2. CASE ApWindow(i)
    <3>1. MapWindow(i) /\ ap[i] = "mp_main"
      BY <2>2 DEF ApWindow, ApStep
    <3>2. Taken = c + 1 /\ m.base <= MMIOBASE + 3 + Taken
      BY <2>1, <3>1 DEF ReadyInv
    <3>3. m.base + 1 <= 4 * NPT
      BY <1>1, <1>2, <2>1, <3>2
    <3>4. Taken <= Taken'
      BY <1>2, <2>1
    <3> QED
      BY <1>7, <2>1, <3>1, <3>3, <3>4
  <2>3. CASE ApBase(i)
    <3>1. MoveBase
      BY <2>3 DEF ApBase
    <3> QED
      BY <1>8, <2>1, <2>3, <3>1
  <2>4. CASE mpentry(i) \/ ApRegisters(i) \/ Setup(i) \/ Started(i)
    <3>1. UNCHANGED memVars
      BY <2>4 DEF mpentry, ApRegisters, Setup, Started
    <3>2. Taken <= Taken'
      BY <1>2, <2>1
    <3> QED
      BY <1>3, <2>1, <3>1, <3>2
  <2> QED
    BY <1>11, <2>2, <2>3, <2>4 DEF mp_main
<1>12. CASE UNCHANGED vars \/ Runs
  <2>1. UNCHANGED <<memVars, bsp, c, ap>>
    BY <1>12 DEF vars, bootVars, cpuVars, Runs, OnKernelStack, InKernel
  <2>2. CASE bsp # "mem_init"
    <3>1. Taken' = Taken
      BY <2>1 DEF Taken
    <3> QED
      BY <1>2, <1>3, <2>1, <2>2, <3>1
  <2>3. CASE bsp = "mem_init"
    <3>1. MemInv' /\ BaseInv' /\ MmioInv'
      BY <2>1, <2>3 DEF memVars, ReadyInv, MemInv, PhaseInv, AllocInv, TablesInv, Present, ListInv, Reserve, PteInv, UserInv,
         ArrayInv, KernInv, KstackInv, GapInv, BaseInv, MmioInv
    <3> QED
      BY <2>1, <2>3, <3>1 DEF ReadyInv
  <2> QED
    BY <2>2, <2>3
<1> QED
  BY <1>4, <1>5, <1>6, <1>9, <1>10, <1>11, <1>12 DEF Next, Boots, BootNext, Bsp

\* The inductive invariant.  The CPUs: boot_aps has one AP between INIT and its last store
\* to cpu_status at a time, and that is the AP whose stack is in mpentry_kstack.  The memory,
\* mem_init's phase by phase and then that of the CPUs: every statement finds the pages
\* mapped that it writes to, and the free list has the low pages for the page tables that
\* are still to come.  Between them lapic: no CPU is past mem_init unless mmio_map_region
\* returns the base of the region, since check_page panics otherwise.
THEOREM BootInvariant == Spec => [](BootInv /\ LapicInv /\ ReadyInv)
<1>1. Init => BootInv /\ LapicInv /\ ReadyInv
  <2> SUFFICES ASSUME Init PROVE BootInv /\ LapicInv /\ ReadyInv
    OBVIOUS
  <2>1. MemInv /\ bsp = "mem_init" /\ phase = "i386_detect_memory" /\ lapic = NoWindow /\ ap = [i \in Id |-> "off"]
    BY MemInitHolds DEF Init, BootInit, MemInit
  <2>2. BaseInv
    BY <2>1 DEF MemInv, Installed
  <2>3. MmioInv
    <3>1. PICK e \in Ends : m = [npages |-> 0, nextfree |-> e, kern_pgdir |-> 0, pages |-> 0, envs |-> 0,
              page_free_list |-> <<>>, tables |-> [d \in Dir |-> NoTable],
              pte |-> [v \in VPage |-> NoPte], base |-> MMIOBASE]
      BY DEF Init, BootInit, MemInit
    <3>2. MMIOBASE + 3 \in VPage
      BY Constants, Layout, MmioAssumption DEF VPage
    <3> QED
      BY <2>1, <3>1, <3>2 DEF MmioInv
  <2>4. LapicInv
    BY <2>1 DEF LapicInv, InBase, Early
  <2> QED
    BY <2>1, <2>2, <2>3, <2>4, BootInitHolds DEF ReadyInv
<1>2. (BootInv /\ LapicInv /\ ReadyInv) /\ [Next]_vars => (BootInv /\ LapicInv /\ ReadyInv)'
  <2> SUFFICES ASSUME BootInv, LapicInv, ReadyInv, [Next]_vars PROVE BootInv' /\ LapicInv' /\ ReadyInv'
    OBVIOUS
  <2>1. BootInv'
    BY BootStepKeeps
  <2>2. phase = "done" => MmioReturns = "base"
    BY DEF ReadyInv, MemInv, PhaseInv, Unbased, Unmapped, Untested, Unlisted, Allocating
  <2> QED
    BY <2>1, <2>2, LapicStep, ReadyStep
<1> QED
  BY <1>1, <1>2, PTL DEF Spec

\* OwnResources for every MP table and every NCPU: stacks and windows handed out through
\* mpentry_kstack and the variable base of mmio_map_region are never given to two CPUs, and
\* lapic, which they share, leads every one of them to a page that is mapped.
THEOREM CpusOwnTheirResources == Spec => []OwnResources
<1>1. BootInv /\ LapicInv => OwnResources
  <2> SUFFICES ASSUME BootInv, LapicInv PROVE OwnResources
    OBVIOUS
  <2>1. /\ Len(table) \in Nat /\ BootId \in Id /\ Id = 0 .. Len(table) - 1
        /\ \A j \in Id : j \in Nat /\ j < Len(table) /\ (table[j + 1] <=> j = BootId)
    BY Ids DEF BootInv, TypeInv
  <2>2. \A i \in Id \ {BootId} : stack[i] \in {NoStack, i}
    BY DEF BootInv, StackInv
  <2>3. ASSUME NEW i \in Id, i # BootId, stack[i] = stack[BootId], stack[i] # NoStack PROVE ~Calling(i)
    <3>1. stack[i] = i /\ i \in Nat
      BY <2>1, <2>2, <2>3
    <3>2. stack[BootId] # BootStack
      BY <2>3, <3>1 DEF BootStack
    <3>3. bsp = "env_run"
      BY <3>2 DEF BootInv, StackInv
    <3>4. ap[i] \notin {"mpentry", "mp_main", "base", "lapicw", "setup", "started"}
      BY <3>3, TheOneAp
    <3>5. ap[i] \in ApState
      BY DEF BootInv, TypeInv
    <3> QED
      BY <2>3, <3>4, <3>5 DEF Calling, ApState, Awake
  <2>4. ASSUME NEW i \in Id, NEW j \in Id, i # j, stack[i] = stack[j], stack[i] # NoStack
        PROVE  ~(Calling(i) /\ Calling(j))
    BY <2>2, <2>3, <2>4
  <2>5. \A i \in Id : window[i] # NoWindow => m.pte[window[i]] = LapicPte
    BY WindowNow DEF LapicPte
  <2>6. \A i, j \in Id : i # j /\ window[i] = window[j] => window[i] = NoWindow
    BY DEF BootInv, WindowInv
  <2>7. Accessible /\ bsp # "fault" /\ \A i \in Id : ap[i] # "fault"
    BY Reachable DEF BootInv, TypeInv, BspState, ApState, Early, Starting, Awake
  <2> QED
    BY <2>2, <2>4, <2>5, <2>6, <2>7 DEF OwnResources
<1> QED
  BY <1>1, BootInvariant, PTL

\* ApsUp for every MP table and every NCPU: when the first environment runs, every CPU
\* that mp_init counted is up, and no other was started.
THEOREM CountedCpusUp == Spec => []ApsUp
<1>1. BootInv /\ LapicInv => ApsUp
  <2> SUFFICES ASSUME BootInv, LapicInv, NEW i \in Id
               PROVE  /\ bsp = "env_run" /\ i < ncpu /\ i # cpunum => ap[i] = "spin" /\ cpu_status[i]
                      /\ i >= NCPU => ap[i] = "off"
    BY DEF ApsUp
  <2>1. /\ Len(table) \in Nat /\ BootId \in Id /\ Id = 0 .. Len(table) - 1
        /\ \A j \in Id : j \in Nat /\ j < Len(table) /\ (table[j + 1] <=> j = BootId)
    BY Ids DEF BootInv, TypeInv
  <2>2. i \in Nat /\ c \in Nat /\ ncpu \in Nat /\ ncpu <= NCPU /\ c <= ncpu
    <3>1. i \in Nat
      BY <2>1
    <3>2. c \in Nat /\ ncpu \in Nat /\ ncpu <= NCPU
      BY Constants DEF BootInv, TypeInv
    <3>3. c <= ncpu
      BY DEF BootInv, StartInv
    <3> QED
      BY <3>1, <3>2, <3>3
  <2>3. ASSUME bsp = "env_run", i < ncpu, i # cpunum PROVE ap[i] = "spin" /\ cpu_status[i]
    <3>1. c = ncpu
      BY <2>3 DEF BootInv, StartInv
    <3>2. ismp
      <4>1. ~ismp => ncpu <= 1 /\ cpunum = 0
        BY <2>3 DEF BootInv, MpInv, LapicInv, Early, cpunum
      <4> QED
        BY <2>2, <2>3, <4>1
    <3>3. i # BootId
      BY <2>3, <3>2 DEF cpunum, LapicInv, Early
    <3> QED
      BY <2>3, <3>1, <3>2, <3>3 DEF BootInv, StartInv
  <2>4. ASSUME i >= NCPU PROVE ap[i] = "off"
    <3>1. i >= c /\ (i = c => c = ncpu)
      BY <2>2, <2>4, Constants
    <3>2. i = c => bsp \notin Starting
      <4>1. bsp \in Starting => c < ncpu
        BY DEF BootInv, StartInv
      <4> QED
        BY <2>2, <3>1, <4>1
    <3>3. i > c \/ i = c
      BY <2>2, <3>1
    <3> QED
      BY <3>2, <3>3, Zenon DEF BootInv, StartInv
  <2> QED
    BY <2>3, <2>4
<1> QED
  BY <1>1, BootInvariant, PTL

\* FreeListSafe for every size of memory and of the kernel image that FirstFreeAssumption
\* allows: page_init and what takes pages after it never leave a page on the free list that
\* holds something, or one twice.
THEOREM FreeListIsSafe == Spec => []FreeListSafe
<1>1. ReadyInv => FreeListSafe
  <2> SUFFICES ASSUME ReadyInv PROVE FreeListSafe
    OBVIOUS
  <2> DEFINE l == m.page_free_list
  <2>1. MemInv /\ l \in Seq(Nat) /\ phase \in Phase /\ m.tables \in [Dir -> Int]
    BY Fields DEF ReadyInv, MemInv, PhaseInv
  <2>2. CASE phase \in Unlisted
    <3>1. l = << >>
      BY <2>1, <2>2 DEF MemInv, ListInv
    <3>2. ToSet(l) = {} /\ Len(l) = 0
      BY <3>1 DEF ToSet
    <3> QED
      BY <3>2, FS_EmptySet DEF FreeListSafe
  <2>3. CASE phase \notin Unlisted
    <3>1. phase \notin Allocating
      BY <2>3 DEF Unlisted
    <3>2. /\ m.kern_pgdir \in Ends /\ Size(m.npages) /\ m.nextfree \in Nat /\ m.npages \in Nat
          /\ m.nextfree <= FirstFree /\ IOHole < Ext
      BY <2>1, <3>1, Arrays
    <3>3. (\A i \in DOMAIN l : Free(l[i], m.npages)) /\ (\A i, j \in DOMAIN l : l[i] = l[j] => i = j)
      <4>1. CASE phase \in Untested
        <5>1. phase = "check_page_free_list(1)"
          BY <2>3, <4>1 DEF Untested
        <5>2. l = PageInitList(m.npages)
          BY <2>1, <5>1 DEF MemInv, ListInv
        <5> QED
          BY <3>2, <5>2, StockInit
      <4>2. CASE phase \notin Untested
        BY <2>1, <4>2 DEF MemInv, ListInv, Stock
      <4> QED
        BY <4>1, <4>2
    <3>4. \A d \in Dir, i \in DOMAIN l : m.tables[d] # l[i]
      BY <2>1 DEF MemInv, ListInv
    <3>5. ToSet(m.tables) = {m.tables[d] : d \in Dir} /\ ToSet(l) = {l[i] : i \in DOMAIN l}
      BY <2>1 DEF ToSet
    <3> HIDE DEF l
    <3>6. ASSUME NEW p \in ToSet(l) PROVE p \notin InUse
      <4>1. PICK i \in DOMAIN l : p = l[i]
        BY <3>5
      <4>2. p \in 1 .. m.npages - 1 /\ p # MPEntry /\ (p < IOHole \/ p >= FirstFree)
        BY <3>3, <4>1 DEF Free
      <4>3. p # 0 /\ p \notin IOHole .. Ext - 1 /\ p \notin Ext .. m.nextfree - 1
        <5>1. p \in Int /\ p >= 1 /\ (p < IOHole \/ p >= FirstFree) /\ Ext <= FirstFree
          <6>1. Ext < m.kern_pgdir /\ m.pages = m.kern_pgdir + 1 /\ m.pages < m.envs /\ m.nextfree = m.envs + EnvPages
                /\ m.kern_pgdir \in Nat /\ m.envs \in Nat
            BY <2>1, <3>1, Arrays
          <6> QED
            BY <3>2, <4>2, <6>1, Constants
        <5> QED
          BY <3>2, <5>1, Constants
      <4>4. p \notin ToSet(m.tables)
        BY <3>4, <3>5, <4>1
      <4> QED
        BY <4>2, <4>3, <4>4 DEF InUse
    <3>7. Cardinality(ToSet(l)) = Len(l)
      BY <2>1, <3>3, AsManyMembers DEF l
    <3> QED
      BY <3>6, <3>7 DEF FreeListSafe, l
  <2> QED
    BY <2>2, <2>3
<1> QED
  BY <1>1, BootInvariant, PTL

\* MemoryReady for every size of memory and of the kernel image that the assumptions allow:
\* no statement of mem_init faults, no assertion fails but that of check_page about what
\* mmio_map_region returns, and the directory that mem_init leaves stays right while the CPUs
\* map their windows.
THEOREM MemoryIsReady == Spec => []MemoryReady
<1>1. BootInv /\ ReadyInv => MemoryReady
  <2> USE Constants
  <2> SUFFICES ASSUME BootInv, ReadyInv PROVE MemoryReady
    OBVIOUS
  <2>1. MemInv /\ phase \in Phase
    BY DEF ReadyInv, MemInv, PhaseInv
  <2>2. phase # "fault" /\ (phase = "panic" => MmioReturns = "end")
    BY <2>1 DEF MemInv, PhaseInv, Phase, Installed, Unbased, Unmapped, Untested, Unlisted, Allocating
  <2>3. CASE cr3 # "kern"
    BY <2>2, <2>3 DEF MemoryReady
  <2>4. CASE cr3 = "kern"
    <3> DEFINE N == KernTables * NPT
    <3>1. phase \in Installed
      BY <2>4 DEF ReadyInv, MemInv, PhaseInv
    <3>2. phase \notin Unbased \cup {"boot_map_region"} /\ phase \notin Unmapped /\ phase # "mm2"
      BY <3>1 DEF Installed, Unbased, Unmapped, Untested, Unlisted, Allocating
    <3>3. region \in Nat /\ region >= 4 + NCPU /\ phase \notin Allocating
      BY <2>1, <3>2, AllPresent
    <3>4. m.npages \in Nat /\ m.npages <= N /\ N \in Nat
      BY <2>1, <3>3, Arrays, Layout
    <3> HIDE DEF N
    <3>5. ASSUME NEW p \in 0 .. m.npages - 1 PROVE Translate(p) = [pp |-> p, u |-> FALSE, w |-> TRUE]
      <4>1. p \in 0 .. N - 1 /\ region >= 4
        BY <3>3, <3>4
      <4>2. m.pte[KERNBASE + p] = [pp |-> p, u |-> FALSE, w |-> TRUE]
        BY <2>1, <4>1, Zenon DEF MemInv, PteInv, KernInv, N
      <4> QED
        BY <2>4, <4>2 DEF Translate
    <3>6. ASSUME NEW i \in 0 .. NCPU - 1, NEW v \in Stack(i)
          PROVE  m.pte[v].pp \in Kstacks + i * KSTKSIZE .. Kstacks + (i + 1) * KSTKSIZE - 1 /\ m.pte[v].w
      <4> DEFINE b == StackBottom(i)
                 k == i * KSTKSIZE
                 j == v - b
      <4>1. b \in Nat /\ Stack(i) = b .. b + KSTKSIZE - 1
        BY StackPlace
      <4>2. j \in 0 .. KSTKSIZE - 1 /\ b + j = v
        BY <4>1
      <4>3. region >= 5 + i
        BY <3>3
      <4> HIDE DEF j
      <4>4. m.pte[b + j] = [pp |-> Kstacks + k + j, u |-> FALSE, w |-> TRUE]
        BY <2>1, <4>2, <4>3, Zenon DEF MemInv, PteInv, KstackInv
      <4>5. k \in Nat /\ (i + 1) * KSTKSIZE = k + KSTKSIZE
        OBVIOUS
      <4> HIDE DEF k, b
      <4>6. m.pte[v] = [pp |-> Kstacks + k + j, u |-> FALSE, w |-> TRUE]
        BY <4>2, <4>4
      <4>7. Kstacks + k + j \in Kstacks + k .. Kstacks + (k + KSTKSIZE) - 1
        BY <4>2, <4>5
      <4> QED
        BY <4>5, <4>6, <4>7 DEF k
    <3>7. ASSUME NEW v \in MMIOLIM .. KSTACKTOP - 1, v \notin UNION {Stack(i) : i \in 0 .. NCPU - 1}
          PROVE  m.pte[v] = NoPte
      <4>1. \A k \in 0 .. NCPU - 1 : v \notin Stack(k)
        BY <3>7
      <4> QED
        BY <2>1, <4>1 DEF MemInv, PteInv, GapInv
    <3>8. m.base \in MMIOBASE .. MMIOLIM
      <4>1. MMIOBASE = 3 * NPT /\ MMIOLIM = 4 * NPT /\ 3 + NCPU + 1 <= NPT /\ m.base \in Nat
        BY <2>1, Layout, MmioAssumption, Fields DEF MemInv
      <4>2. CASE bsp = "mem_init"
        <5>1. m.base = MMIOBASE + 3
          BY <3>2, <4>2 DEF ReadyInv, BaseInv
        <5> QED
          BY <4>1, <5>1
      <4>3. CASE bsp # "mem_init"
        <5>1. MMIOBASE + 3 <= m.base /\ m.base <= MMIOBASE + 3 + Taken
          BY <4>3 DEF ReadyInv
        <5>2. Taken \in Nat /\ Taken <= 1 + NCPU
          <6>1. c \in Nat /\ ncpu \in 0 .. NCPU /\ c <= ncpu
            BY DEF BootInv, TypeInv, StartInv
          <6>2. bsp \in Starting => c < ncpu
            BY DEF BootInv, StartInv
          <6> QED
            BY <6>1, <6>2 DEF Taken
        <5> QED
          BY <4>1, <5>1, <5>2
      <4> QED
        BY <4>2, <4>3
    <3>9. \A v \in VPage : m.pte[v].u => ~m.pte[v].w /\ m.pte[v].pp \in m.pages .. m.nextfree - 1
      BY <2>1 DEF MemInv, PteInv, UserInv
    <3> QED
      BY <2>2, <3>5, <3>6, <3>7, <3>8, <3>9 DEF MemoryReady
  <2> QED
    BY <2>3, <2>4
<1> QED
  BY <1>1, BootInvariant, PTL

-----------------------------------------------------------------------------
(* Traps: the registers of user code.                                        *)

\* The words of a trap frame.
IsFrame(tf, v, r) ==
  /\ tf[1] = r["edi"] /\ tf[2] = r["esi"] /\ tf[3] = r["ebp"] /\ tf[5] = r["ebx"] /\ tf[6] = r["edx"]
  /\ tf[7] = r["ecx"] /\ tf[8] = r["eax"] /\ tf[9] = r["es"] /\ tf[10] = r["ds"] /\ tf[11] = v
  /\ tf[13] = r["eip"] /\ tf[14] = r["cs"] /\ tf[15] = r["eflags"] /\ tf[16] = r["esp"] /\ tf[17] = r["ss"]

\* A value for every register.
RegFile(r) == r = [x \in Reg |-> r[x]]

\* What user code passes in its registers.
Passes(r) == <<r["eax"], r["edx"], r["ecx"], r["ebx"], r["edi"], r["esi"]>>

\* What a step of the kernel leaves to the next.
TrapInv ==
  /\ at \in {"boot", "user", "trap", "env_pop_tf"}
  /\ RegFile(want)
  /\ at \in {"boot", "trap"} => passed = <<>>
  /\ at = "user" => regs = want
  /\ at = "trap" =>
       /\ Len(frame) = 17 /\ IsFrame(frame, cause.vector, want)
       /\ cause.int => cause.vector \in {T_BRKPT, T_SYSCALL, T_GPFLT}
       /\ cause.call # "none" =>
            cause.vector = T_SYSCALL /\ cause.call \in DOMAIN Stubs /\ Passes(want) = Arguments(cause.call)
  /\ at = "env_pop_tf" => DOMAIN env_tf = 1 .. 17 /\ \E v : IsFrame(env_tf, v, want)
  /\ cause.call # "none" /\ passed # <<>> =>
       /\ passed = Arguments(cause.call)
       /\ Stubs[cause.call].check => want["eax"] # "positive"

\* Where the layouts have a register.
LEMMA Layouts ==
  /\ DOMAIN Trapframe = 1 .. 17
  /\ \A i \in 1 .. 17 :
       /\ Trapframe[i] = "edi" <=> i = 1
       /\ Trapframe[i] = "esi" <=> i = 2
       /\ Trapframe[i] = "ebp" <=> i = 3
       /\ Trapframe[i] = "ebx" <=> i = 5
       /\ Trapframe[i] = "edx" <=> i = 6
       /\ Trapframe[i] = "ecx" <=> i = 7
       /\ Trapframe[i] = "eax" <=> i = 8
       /\ Trapframe[i] = "es" <=> i = 9
       /\ Trapframe[i] = "ds" <=> i = 10
       /\ Trapframe[i] = "trapno" <=> i = 11
       /\ Trapframe[i] = "eip" <=> i = 13
       /\ Trapframe[i] = "cs" <=> i = 14
       /\ Trapframe[i] = "eflags" <=> i = 15
       /\ Trapframe[i] = "esp" <=> i = 16
       /\ Trapframe[i] = "ss" <=> i = 17
  /\ \A i \in 1 .. 17, r \in Reg : PopOrder[i] = r <=> Trapframe[i] = r
<1>1. DOMAIN Trapframe = 1 .. 17
  BY DEF Trapframe
<1>2. \A i \in 1 .. 17 : i \in {1, 2, 3, 4, 5, 6, 7, 8, 9, 10, 11, 12, 13, 14, 15, 16, 17}
  OBVIOUS
<1>3. /\ Trapframe[1] = "edi" /\ Trapframe[2] = "esi" /\ Trapframe[3] = "ebp" /\ Trapframe[4] = "oesp"
      /\ Trapframe[5] = "ebx" /\ Trapframe[6] = "edx" /\ Trapframe[7] = "ecx" /\ Trapframe[8] = "eax"
      /\ Trapframe[9] = "es" /\ Trapframe[10] = "ds" /\ Trapframe[11] = "trapno" /\ Trapframe[12] = "err"
      /\ Trapframe[13] = "eip" /\ Trapframe[14] = "cs" /\ Trapframe[15] = "eflags" /\ Trapframe[16] = "esp"
      /\ Trapframe[17] = "ss"
  BY DEF Trapframe
<1>4. /\ PopOrder[1] = "edi" /\ PopOrder[2] = "esi" /\ PopOrder[3] = "ebp" /\ PopOrder[4] = "-"
      /\ PopOrder[5] = "ebx" /\ PopOrder[6] = "edx" /\ PopOrder[7] = "ecx" /\ PopOrder[8] = "eax"
      /\ PopOrder[9] = "es" /\ PopOrder[10] = "ds" /\ PopOrder[11] = "-" /\ PopOrder[12] = "-"
      /\ PopOrder[13] = "eip" /\ PopOrder[14] = "cs" /\ PopOrder[15] = "eflags" /\ PopOrder[16] = "esp"
      /\ PopOrder[17] = "ss"
  BY DEF PopOrder
<1>5. \A i \in 1 .. 17 :
       /\ Trapframe[i] = "edi" <=> i = 1
       /\ Trapframe[i] = "esi" <=> i = 2
       /\ Trapframe[i] = "ebp" <=> i = 3
       /\ Trapframe[i] = "ebx" <=> i = 5
       /\ Trapframe[i] = "edx" <=> i = 6
       /\ Trapframe[i] = "ecx" <=> i = 7
       /\ Trapframe[i] = "eax" <=> i = 8
       /\ Trapframe[i] = "es" <=> i = 9
       /\ Trapframe[i] = "ds" <=> i = 10
       /\ Trapframe[i] = "trapno" <=> i = 11
       /\ Trapframe[i] = "eip" <=> i = 13
       /\ Trapframe[i] = "cs" <=> i = 14
       /\ Trapframe[i] = "eflags" <=> i = 15
       /\ Trapframe[i] = "esp" <=> i = 16
       /\ Trapframe[i] = "ss" <=> i = 17
  BY ONLY <1>2, <1>3
<1>6. \A i \in 1 .. 17, r \in Reg : PopOrder[i] = r <=> Trapframe[i] = r
  BY ONLY <1>2, <1>3, <1>4 DEF Reg
<1> QED
  BY <1>1, <1>5, <1>6

LEMMA Offsets ==
  /\ Offset("edi") = 1 /\ Offset("esi") = 2 /\ Offset("ebp") = 3 /\ Offset("ebx") = 5
  /\ Offset("edx") = 6 /\ Offset("ecx") = 7 /\ Offset("eax") = 8 /\ Offset("es") = 9
  /\ Offset("ds") = 10 /\ Offset("trapno") = 11 /\ Offset("eip") = 13 /\ Offset("cs") = 14
  /\ Offset("eflags") = 15 /\ Offset("esp") = 16 /\ Offset("ss") = 17
<1>1. \A k \in 1 .. 17 : \A f : (\A i \in 1 .. 17 : Trapframe[i] = f <=> i = k) => Offset(f) = k
  BY Layouts DEF Offset
<1> QED
  BY <1>1, Layouts

\* The registers that a frame holds are those that env_pop_tf loads.
LEMMA PoppedFrame ==
  ASSUME NEW tf, DOMAIN tf = 1 .. 17, NEW v, NEW r, RegFile(r), IsFrame(tf, v, r)
  PROVE  Popped(tf) = r
<1>1. ASSUME NEW x \in Reg PROVE (CHOOSE i \in DOMAIN tf : PopOrder[i] = x) = Offset(x)
  <2>1. \A i \in 1 .. 17 : PopOrder[i] = x <=> Trapframe[i] = x
    BY Layouts
  <2> QED
    BY <2>1, Layouts DEF Offset
<1> DEFINE P == Popped(tf)
<1>2. P = [x \in Reg |-> P[x]] /\ \A x \in Reg : P[x] = tf[CHOOSE i \in DOMAIN tf : PopOrder[i] = x]
  BY DEF Popped
<1> HIDE DEF P
<1>3. ASSUME NEW x \in Reg PROVE tf[Offset(x)] = r[x]
  BY Offsets DEF IsFrame, Reg
<1>4. \A x \in Reg : P[x] = r[x]
  BY <1>1, <1>2, <1>3
<1> QED
  BY <1>2, <1>4 DEF P, RegFile

\* A new environment.
LEMMA NewFrame ==
  /\ DOMAIN NewTf = 1 .. 17 /\ IsFrame(NewTf, "0", NewRegs) /\ RegFile(NewRegs)
  /\ NewRegs["eax"] = "0"
<1>1. DOMAIN NewTf = 1 .. 17
  BY Layouts DEF NewTf
<1>2. NewTf[8] = "0" /\ NewTf[11] = "0"
  <2>1. Trapframe[8] = "eax" /\ Trapframe[11] = "trapno" /\ 8 \in DOMAIN Trapframe /\ 11 \in DOMAIN Trapframe
    BY Layouts
  <2> QED
    BY <2>1 DEF NewTf
<1>3. \A x \in Reg : NewRegs[x] = NewTf[Offset(x)]
  BY DEF NewRegs, Field
<1>4. RegFile(NewRegs)
  BY DEF RegFile, NewRegs
<1> QED
  BY <1>1, <1>2, <1>3, <1>4, Offsets DEF IsFrame, Reg

\* The frame, for a vector whose entry point agrees with the CPU.
LEMMA Framed ==
  ASSUME NEW v \in Nat, NEW software \in BOOLEAN, ~(software /\ PushesError(v)), NEW r, RegFile(r)
  PROVE  LET f == _alltraps(r, Routine(v, Hardware(v, software, r)))
         IN  Len(f) = 17 /\ IsFrame(f, v, r)
<1>1. TRAPHANDLER(v) <=> PushesError(v)
  BY DEF TRAPHANDLER, PushesError
<1>2. CASE PushesError(v)
  <2>1. Routine(v, Hardware(v, software, r)) = <<v, "err", r["eip"], r["cs"], r["eflags"], r["esp"], r["ss"]>>
    <3>1. ~software
      BY <1>2
    <3>2. Hardware(v, software, r) = <<"err">> \o <<r["eip"], r["cs"], r["eflags"], r["esp"], r["ss"]>>
      BY <1>2, <3>1 DEF Hardware
    <3>3. Routine(v, Hardware(v, software, r)) = <<v>> \o Hardware(v, software, r)
      BY <1>1, <1>2 DEF Routine
    <3> QED
      BY ONLY <3>2, <3>3
  <2> QED
    BY <2>1 DEF _alltraps, IsFrame
<1>3. CASE ~PushesError(v)
  <2>1. Routine(v, Hardware(v, software, r)) = <<v, "0", r["eip"], r["cs"], r["eflags"], r["esp"], r["ss"]>>
    <3>1. Hardware(v, software, r) = <<>> \o <<r["eip"], r["cs"], r["eflags"], r["esp"], r["ss"]>>
      BY <1>3 DEF Hardware
    <3>2. Routine(v, Hardware(v, software, r)) = <<v, "0">> \o Hardware(v, software, r)
      BY <1>1, <1>3 DEF Routine
    <3> QED
      BY ONLY <3>1, <3>2
  <2> QED
    BY <2>1 DEF _alltraps, IsFrame
<1> QED
  BY <1>2, <1>3

\* Into the kernel.
LEMMA TrappedKeeps ==
  ASSUME TrapInv, NEW r, RegFile(r), NEW cz, Trapped(r, cz), NEW software \in BOOLEAN, Enter(cz.vector, software, r),
         cz.vector \in Nat, ~(software /\ PushesError(cz.vector)),
         cz.int => cz.vector \in {T_BRKPT, T_SYSCALL, T_GPFLT},
         cz.call # "none" => cz.vector = T_SYSCALL /\ cz.call \in DOMAIN Stubs /\ Passes(r) = Arguments(cz.call)
  PROVE  TrapInv'
<1>1. at' = "trap" /\ cause' = cz /\ want' = r /\ passed' = <<>>
  BY DEF Trapped
<1>2. Len(frame') = 17 /\ IsFrame(frame', cz.vector, r)
  BY Framed DEF Enter
<1>3. IsFrame(frame, cause.vector, want)' /\ RegFile(want)' /\ Passes(want)' = Passes(r)
  BY <1>1, <1>2 DEF IsFrame, RegFile, Passes
<1> QED
  BY <1>1, <1>2, <1>3 DEF TrapInv

\* A number before five arguments.
LEMMA Prefixed ==
  ASSUME NEW n, NEW a1, NEW a2, NEW a3, NEW a4, NEW a5
  PROVE  <<n>> \o <<a1, a2, a3, a4, a5>> = <<n, a1, a2, a3, a4, a5>>
<1> DEFINE A == {n, a1, a2, a3, a4, a5}
           s == <<n>>
           t == <<a1, a2, a3, a4, a5>>
           w == s \o t
<1>1. s \in Seq(A) /\ Len(s) = 1 /\ s[1] = n
  OBVIOUS
<1>2. t \in Seq(A) /\ Len(t) = 5 /\ t[1] = a1 /\ t[2] = a2 /\ t[3] = a3 /\ t[4] = a4 /\ t[5] = a5
  OBVIOUS
<1> HIDE DEF s, t, A
<1>3. w \in Seq(A) /\ Len(w) = 6 /\ w[1] = n /\ w[2] = a1 /\ w[3] = a2 /\ w[4] = a3 /\ w[5] = a4 /\ w[6] = a5
  <2>1. /\ w \in Seq(A) /\ Len(w) = Len(s) + Len(t) /\ \A i \in 1 .. Len(s) : w[i] = s[i]
        /\ \A i \in Len(s) + 1 .. Len(s) + Len(t) : w[i] = t[i - Len(s)]
    BY <1>1, <1>2, Concat, Zenon
  <2> HIDE DEF w
  <2>2. /\ w \in Seq(A) /\ Len(w) = 6 /\ \A i \in 1 .. 1 : w[i] = n
        /\ \A i \in 2 .. 6 : w[i] = t[i - 1]
    BY <1>1, <1>2, <2>1
  <2> QED
    BY <1>2, <2>2
<1> HIDE DEF w
<1>4. w = <<n, a1, a2, a3, a4, a5>>
  BY <1>3
<1> QED
  BY <1>4 DEF w, s, t

\* Every way into the kernel.
LEMMA UserTrapsKeep ==
  ASSUME TrapInv, UserTraps
  PROVE  TrapInv'
<1>1. RegFile(Fresh)
  BY DEF RegFile, Fresh
<1>2. ASSUME NEW v \in Exceptions \cup IRQs, Raise(v) PROVE TrapInv'
  <2> DEFINE cz == Cause(v, FALSE, "none")
  <2>1. cz.vector = v /\ cz.int = FALSE /\ cz.call = "none" /\ v \in Nat
    BY DEF Cause, Exceptions, IRQs, IRQ_OFFSET
  <2>2. Trapped(Fresh, cz) /\ Enter(cz.vector, FALSE, Fresh)
    BY <1>2, <2>1 DEF Raise
  <2> HIDE DEF cz
  <2> QED
    BY <1>1, <2>1, <2>2, TrappedKeeps
<1>3. ASSUME NEW n \in IntVectors, SoftwareInt(n) PROVE TrapInv'
  <2> DEFINE v == Delivered(n)
             cz == Cause(v, TRUE, "none")
  <2>1. v \in {T_BRKPT, T_SYSCALL, T_GPFLT} /\ (Allowed(n) => v \in {T_BRKPT, T_SYSCALL}) /\ Allowed(n) \in BOOLEAN
    BY DEF Delivered, Allowed, DPL
  <2>2. v \in Nat /\ ~(Allowed(n) /\ PushesError(v))
    BY <2>1 DEF PushesError, T_BRKPT, T_SYSCALL, T_GPFLT, T_ALIGN
  <2>3. cz.vector = v /\ cz.int = TRUE /\ cz.call = "none"
    BY DEF Cause
  <2>4. Trapped(Fresh, cz) /\ Enter(cz.vector, Allowed(n), Fresh)
    BY <1>3, <2>3 DEF SoftwareInt
  <2> HIDE DEF cz, v
  <2> QED
    BY <1>1, <2>1, <2>2, <2>3, <2>4, TrappedKeeps
<1>4. ASSUME NEW r, NEW call, Trapped(r, Cause(T_SYSCALL, TRUE, call)), Enter(T_SYSCALL, TRUE, r), RegFile(r),
             call # "none" => call \in DOMAIN Stubs /\ Passes(r) = Arguments(call)
      PROVE  TrapInv'
  <2> DEFINE cz == Cause(T_SYSCALL, TRUE, call)
  <2>1. cz.vector = T_SYSCALL /\ cz.int = TRUE /\ cz.call = call
    BY DEF Cause
  <2>2. T_SYSCALL \in Nat /\ ~PushesError(T_SYSCALL)
    BY DEF PushesError, T_SYSCALL, T_ALIGN
  <2>3. Trapped(r, cz) /\ Enter(cz.vector, TRUE, r)
    BY <1>4, <2>1
  <2> HIDE DEF cz
  <2> QED
    BY <1>4, <2>1, <2>2, <2>3, TrappedKeeps
<1>5. ASSUME NEW call \in DOMAIN Stubs, syscall_stub(call) PROVE TrapInv'
  <2> DEFINE a == Arguments(call)
             r == [Fresh EXCEPT !["eax"] = a[1], !["edx"] = a[2], !["ecx"] = a[3],
                                !["ebx"] = a[4], !["edi"] = a[5], !["esi"] = a[6]]
  <2>1. Trapped(r, Cause(T_SYSCALL, TRUE, call)) /\ Enter(T_SYSCALL, TRUE, r)
    BY <1>5 DEF syscall_stub
  <2>2. a = <<a[1], a[2], a[3], a[4], a[5], a[6]>>
    <3> DEFINE t == [i \in 1 .. 5 |-> IF i <= Stubs[call].args THEN <<"a1", "a2", "a3", "a4", "a5">>[i] ELSE "0"]
    <3>1. t = <<t[1], t[2], t[3], t[4], t[5]>>
      OBVIOUS
    <3>2. a = <<call>> \o t
      BY DEF Arguments
    <3> HIDE DEF a, t
    <3>3. a = <<call, t[1], t[2], t[3], t[4], t[5]>>
      BY ONLY <3>1, <3>2, Prefixed, ZenonT(30)
    <3> QED
      BY <3>3
  <2> HIDE DEF a
  <2>3. /\ r = [x \in Reg |-> r[x]]
        /\ r["eax"] = a[1] /\ r["edx"] = a[2] /\ r["ecx"] = a[3] /\ r["ebx"] = a[4] /\ r["edi"] = a[5] /\ r["esi"] = a[6]
    BY DEF Fresh, Reg
  <2> HIDE DEF r
  <2>4. RegFile(r) /\ Passes(r) = a
    BY <2>2, <2>3 DEF RegFile, Passes
  <2> QED
    BY <1>4, <2>1, <2>4 DEF a
<1>6. CASE sys_exofork
  <2> DEFINE r == [Fresh EXCEPT !["eax"] = "sys_exofork"]
  <2>1. Trapped(r, Cause(T_SYSCALL, TRUE, "none")) /\ Enter(T_SYSCALL, TRUE, r)
    BY <1>6 DEF sys_exofork
  <2>2. RegFile(r)
    BY DEF RegFile, Fresh
  <2> HIDE DEF r
  <2> QED
    BY <1>4, <2>1, <2>2
<1> QED
  BY <1>2, <1>3, <1>5, <1>6 DEF UserTraps

\* The frame as trap finds it.
LEMMA Found ==
  ASSUME Len(frame) = 17, NEW v, NEW r, IsFrame(frame, v, r)
  PROVE  DOMAIN AsTrapframe(frame) = 1 .. 17 /\ IsFrame(AsTrapframe(frame), v, r)
<1> DEFINE tf == AsTrapframe(frame)
<1>1. DOMAIN tf = 1 .. 17 /\ \A i \in 1 .. 17 : tf[i] = frame[i]
  BY Layouts DEF AsTrapframe
<1> HIDE DEF tf
<1>2. IsFrame(tf, v, r)
  BY <1>1 DEF IsFrame
<1> QED
  BY <1>1, <1>2 DEF tf

\* A stub that takes a positive result for an error gets none.
LEMMA NoPositive ==
  ASSUME NEW call \in DOMAIN Stubs, Stubs[call].check, NEW x \in Results(call)
  PROVE  x # "positive"
<1>1. call \notin {"sys_cputs", "sys_cgetc", "sys_getenvid"}
  BY DEF Stubs, Stub
<1> QED
  BY <1>1 DEF Results

\* Back to some environment: the frame that env_pop_tf finds.
LEMMA ResumeKeeps ==
  ASSUME TrapInv, NEW tf, DOMAIN tf = 1 .. 17, NEW v, NEW r, RegFile(r), IsFrame(tf, v, r), Resume(tf, r),
         UNCHANGED cause,
         cause.call # "none" /\ passed' # <<>> =>
           passed' = Arguments(cause.call) /\ (Stubs[cause.call].check => r["eax"] # "positive")
  PROVE  TrapInv'
<1>1. at' = "env_pop_tf" /\ env_tf' = tf /\ want' = r /\ cause' = cause
  BY DEF Resume
<1>2. IsFrame(env_tf', v, want') /\ RegFile(want)' /\ DOMAIN env_tf' = 1 .. 17
  BY <1>1 DEF RegFile
<1>3. (\E w : IsFrame(env_tf, w, want))'
  BY <1>2 DEF IsFrame
<1> QED
  BY <1>1, <1>2, <1>3 DEF TrapInv

\* A new environment runs.
LEMMA DestroyedKeeps ==
  ASSUME TrapInv, Destroyed, UNCHANGED cause,
         cause.call # "none" /\ passed' # <<>> => passed' = Arguments(cause.call)
  PROVE  TrapInv'
BY NewFrame, ResumeKeeps DEF Destroyed

\* The kernel.
LEMMA TrapKeeps ==
  ASSUME TrapInv, trap
  PROVE  TrapInv'
<1> DEFINE tf == AsTrapframe(frame)
           a == <<Field(tf, "eax"), Field(tf, "edx"), Field(tf, "ecx"), Field(tf, "ebx"), Field(tf, "edi"), Field(tf, "esi")>>
<1>1. at = "trap" /\ trap_dispatch(tf) /\ cause' = cause
  BY DEF trap
<1>2. /\ Len(frame) = 17 /\ IsFrame(frame, cause.vector, want) /\ RegFile(want)
      /\ cause.call # "none" => cause.call \in DOMAIN Stubs /\ Passes(want) = Arguments(cause.call)
  BY <1>1 DEF TrapInv
<1>3. DOMAIN tf = 1 .. 17 /\ IsFrame(tf, cause.vector, want)
  BY <1>2, Found
<1> HIDE DEF tf
<1>4. Field(tf, "trapno") = cause.vector /\ a = Passes(want)
  BY <1>3, Offsets DEF Field, IsFrame, Passes
<1> HIDE DEF a
<1>5. CASE passed' = <<>> /\ Resume(tf, want)
  BY <1>1, <1>2, <1>3, <1>5, ResumeKeeps
<1>6. CASE /\ passed' = <<>>
           /\ Resume([tf EXCEPT ![Offset("eip")] = "env_pgfault_upcall", ![Offset("esp")] = "utf"],
                     [want EXCEPT !["eip"] = "env_pgfault_upcall", !["esp"] = "utf"])
  <2> DEFINE t == [tf EXCEPT ![Offset("eip")] = "env_pgfault_upcall", ![Offset("esp")] = "utf"]
             w == [want EXCEPT !["eip"] = "env_pgfault_upcall", !["esp"] = "utf"]
  <2>1. passed' = <<>> /\ Resume(t, w)
    BY <1>6
  <2>2. DOMAIN t = 1 .. 17 /\ \A i \in 1 .. 17 : t[i] = IF i = 16 THEN "utf" ELSE IF i = 13 THEN "env_pgfault_upcall" ELSE tf[i]
    BY <1>3, Offsets
  <2>3. /\ w = [z \in Reg |-> w[z]]
        /\ \A z \in Reg : w[z] = IF z = "esp" THEN "utf" ELSE IF z = "eip" THEN "env_pgfault_upcall" ELSE want[z]
    BY <1>2 DEF RegFile
  <2> HIDE DEF t, w
  <2>4. IsFrame(t, cause.vector, w) /\ RegFile(w)
    BY ONLY <1>3, <2>2, <2>3 DEF IsFrame, RegFile, Reg
  <2> QED
    BY <1>1, <2>1, <2>2, <2>4, ResumeKeeps
<1>7. CASE passed' = <<>> /\ Destroyed
  BY <1>1, <1>7, DestroyedKeeps
<1>8. CASE Dispatch(tf, a)
  <2>1. passed' = a /\ (cause.call # "none" => a = Arguments(cause.call) /\ cause.call \in DOMAIN Stubs)
    BY <1>2, <1>4, <1>8 DEF Dispatch
  <2>2. ASSUME NEW x \in Results(a[1]), Resume([tf EXCEPT ![Offset("eax")] = x], [want EXCEPT !["eax"] = x])
        PROVE  TrapInv'
    <3> DEFINE t == [tf EXCEPT ![Offset("eax")] = x]
               w == [want EXCEPT !["eax"] = x]
    <3>1. Resume(t, w)
      BY <2>2
    <3>2. DOMAIN t = 1 .. 17 /\ \A i \in 1 .. 17 : t[i] = IF i = 8 THEN x ELSE tf[i]
      BY <1>3, Offsets
    <3>3. w = [z \in Reg |-> w[z]] /\ \A z \in Reg : w[z] = IF z = "eax" THEN x ELSE want[z]
      BY <1>2 DEF RegFile
    <3> HIDE DEF t, w
    <3>4. IsFrame(t, cause.vector, w) /\ RegFile(w) /\ w["eax"] = x
      BY ONLY <1>3, <3>2, <3>3 DEF IsFrame, RegFile, Reg
    <3>5. ASSUME cause.call # "none", Stubs[cause.call].check PROVE w["eax"] # "positive"
      <4>1. Arguments(cause.call)[1] = cause.call
        BY DEF Arguments
      <4>2. a[1] = cause.call
        BY <2>1, <3>5, <4>1
      <4> QED
        BY <2>1, <2>2, <3>4, <3>5, <4>2, NoPositive
    <3> QED
      BY <1>1, <2>1, <3>1, <3>2, <3>4, <3>5, ResumeKeeps
  <2>3. CASE Destroyed
    BY <1>1, <2>1, <2>3, DestroyedKeeps
  <2> QED
    BY <1>8, <2>2, <2>3 DEF Dispatch
<1> QED
  BY <1>1, <1>5, <1>6, <1>7, <1>8 DEF trap_dispatch, a

LEMMA TrapInvStart == TrapInit => TrapInv
BY DEF TrapInit, TrapInv, RegFile, Fresh, Cause

\* A step of user code, of trap or of env_pop_tf.
LEMMA TrapInvKept ==
  ASSUME TrapInv, FirstRun \/ UserTraps \/ trap \/ env_pop_tf \/ UNCHANGED trapVars
  PROVE  TrapInv'
<1>1. CASE FirstRun
  <2>1. at = "boot" /\ passed' = <<>> /\ Destroyed /\ UNCHANGED cause
    BY <1>1 DEF FirstRun, Destroyed, TrapInv
  <2> QED
    BY <2>1, DestroyedKeeps
<1>2. CASE env_pop_tf
  <2>1. /\ at = "env_pop_tf" /\ at' = "user" /\ regs' = Popped(env_tf) /\ want' = want /\ cause' = cause
        /\ passed' = passed /\ DOMAIN env_tf = 1 .. 17 /\ RegFile(want)
    BY <1>2 DEF env_pop_tf, TrapInv
  <2>2. PICK v : IsFrame(env_tf, v, want)
    BY <2>1 DEF TrapInv
  <2>3. regs' = want'
    BY <2>1, <2>2, PoppedFrame
  <2>4. RegFile(want)'
    BY <2>1 DEF RegFile
  <2> QED
    BY <2>1, <2>3, <2>4 DEF TrapInv
<1>3. CASE UNCHANGED trapVars
  BY <1>3 DEF trapVars, TrapInv, IsFrame, Passes, RegFile
<1> QED
  BY <1>1, <1>2, <1>3, UserTrapsKeep, TrapKeeps

\* The invariant is enough.
LEMMA TrapInvEnough == TrapInv => RegistersRestored
<1> SUFFICES ASSUME TrapInv PROVE RegistersRestored
  OBVIOUS
<1>1. ASSUME at = "trap" PROVE Field(AsTrapframe(frame), "trapno") = cause.vector /\ Field(AsTrapframe(frame), "eip") = want["eip"]
  <2>1. IsFrame(AsTrapframe(frame), cause.vector, want)
    BY <1>1, Found DEF TrapInv
  <2> QED
    BY <2>1, Offsets DEF Field, IsFrame
<1> QED
  BY <1>1 DEF TrapInv, RegistersRestored

\* RegistersRestored for every operand of int: user code goes on after a trap with its
\* registers, the kernel finds the vector, the address and the arguments where the CPU, the
\* entry points and the stubs left them, and no result makes a stub panic.
THEOREM RegistersAreRestored == Spec => []RegistersRestored
<1>1. Init => TrapInv
  BY TrapInvStart DEF Init
<1>2. TrapInv /\ [Next]_vars => TrapInv'
  <2> SUFFICES ASSUME TrapInv, [Next]_vars PROVE TrapInv'
    OBVIOUS
  <2>1. FirstRun \/ UserTraps \/ trap \/ env_pop_tf \/ UNCHANGED trapVars
    BY DEF Next, Boots, Runs, vars
  <2> QED
    BY <2>1, TrapInvKept
<1>3. TrapInv => RegistersRestored
  BY TrapInvEnough
<1> QED
  BY <1>1, <1>2, <1>3, PTL DEF Spec
=============================================================================
