----------------------------- MODULE PmapProofs -----------------------------
(***************************************************************************)
(* Proofs about the functions of Pmap, for every number of pages,          *)
(* environments and addresses: first the types, then reference counts, the *)
(* free list and the roles of pages.  The last three are inductive only    *)
(* together: a page is handed out because its count is 0, so nothing       *)
(* points at it (counts), so giving it a role disturbs nobody (roles), so  *)
(* exactly one new pointer appears (counts again).                         *)
(***************************************************************************)
EXTENDS Pmap, TLAPS, FiniteSetTheorems

-----------------------------------------------------------------------------
(* Each C function keeps the kernel's memory well typed.                     *)

\* A cleared word and a cleared page have their types.
LEMMA WordType == NotPresent \in Word /\ ZeroPage \in [Idx -> Word]
BY PagesAssumption DEF Word, NotPresent, ZeroPage

\* page_alloc keeps the memory's type, and the page it takes is a page.
LEMMA AllocType ==
  ASSUME NEW m \in KMem, m.page_free_list # <<>>
  PROVE  page_alloc(m) \in KMem /\ Head(m.page_free_list) \in Page
<1> DEFINE s == m.page_free_list
<1>1. s \in Seq(Page)
  BY DEF KMem
<1> HIDE DEF s
<1>2. s # <<>> => Head(s) \in Page /\ Tail(s) \in Seq(Page)
  BY <1>1
<1>3. Head(s) \in Page /\ Tail(s) \in Seq(Page)
  BY <1>2 DEF s
<1>4. [m.mem EXCEPT ![Head(s)] = ZeroPage] \in [Page -> [Idx -> Word]]
  BY WordType DEF KMem
<1>5. page_alloc(m) = [m EXCEPT !.page_free_list = Tail(s),
                               !.mem = [m.mem EXCEPT ![Head(s)] = ZeroPage]]
  BY DEF page_alloc, KMem, s
<1> QED
  BY <1>3, <1>4, <1>5 DEF KMem, s

\* Counting up and down, modulo RefMod, keeps the memory's type.
LEMMA CountType ==
  ASSUME NEW m \in KMem, NEW p \in Page
  PROVE  Increment(m, p) \in KMem /\ Decrement(m, p) \in KMem
<1>1. m.pp_ref[p] \in 0 .. RefMod - 1
  BY DEF KMem
<1>2. (m.pp_ref[p] + 1) % RefMod \in 0 .. RefMod - 1
  BY <1>1, RefAssumption
<1>3. (m.pp_ref[p] + RefMod - 1) % RefMod \in 0 .. RefMod - 1
  BY <1>1, RefAssumption
<1> QED
  BY <1>2, <1>3 DEF KMem, Increment, Decrement

\* page_free keeps the memory's type.
LEMMA FreeType ==
  ASSUME NEW m \in KMem, NEW p \in Page
  PROVE  page_free(m, p) \in KMem
<1>1. m.page_free_list \in Seq(Page) /\ <<p>> \in Seq(Page)
  BY DEF KMem
<1>2. <<p>> \o m.page_free_list \in Seq(Page)
  BY <1>1
<1> QED
  BY <1>2 DEF KMem, page_free

\* page_decref keeps the memory's type.
LEMMA DecrefType ==
  ASSUME NEW m \in KMem, NEW p \in Page
  PROVE  page_decref(m, p) \in KMem
BY CountType, FreeType DEF page_decref

\* Writing a word keeps the memory's type.
LEMMA PutEntryType ==
  ASSUME NEW m \in KMem, NEW q \in Page, NEW i \in Idx, NEW word \in Word
  PROVE  PutEntry(m, q, i, word) \in KMem
BY DEF KMem, PutEntry

\* So does pgdir_walk's pp_ref = 1 for a new table.
LEMMA FirstRefType ==
  ASSUME NEW m \in KMem, NEW p \in Page
  PROVE  [m EXCEPT !.pp_ref[p] = 1] \in KMem
<1>1. 1 \in 0 .. RefMod - 1
  BY RefAssumption
<1> QED
  BY <1>1 DEF KMem

\* pgdir_walk keeps the memory's type.
LEMMA WalkType ==
  ASSUME NEW m \in KMem, NEW d \in Page, NEW x \in Idx
  PROVE  pgdir_walk(m, d, x) \in KMem
<1> DEFINE t == Head(m.page_free_list)
           n == page_alloc(m)
           r == [n EXCEPT !.pp_ref[t] = 1]
<1>1. CASE m.page_free_list # <<>>
  <2>1. n \in KMem /\ t \in Page
    BY <1>1, AllocType
  <2>2. [pp |-> t, w |-> TRUE] \in Word
    BY <2>1 DEF Word, Page
  <2> HIDE DEF n
  <2>3. r \in KMem
    BY <2>1, FirstRefType
  <2>4. PutEntry(r, d, x, [pp |-> t, w |-> TRUE]) \in KMem
    BY <2>2, <2>3, PutEntryType
  <2>5. pgdir_walk(m, d, x) = IF Present(m.mem[d][x]) THEN m
                              ELSE PutEntry(r, d, x, [pp |-> t, w |-> TRUE])
    BY <1>1, Zenon DEF pgdir_walk, n
  <2> QED
    BY <2>4, <2>5
<1>2. CASE m.page_free_list = <<>>
  BY <1>2 DEF pgdir_walk
<1> QED
  BY <1>1, <1>2

\* page_lookup finds a word, and a present entry leads to a page.
LEMMA LookupType ==
  ASSUME NEW m \in KMem, NEW d \in Page, NEW va \in Idx \X Idx
  PROVE  /\ page_lookup(m, d, va) \in Word
         /\ Present(m.mem[d][va[1]]) => m.mem[d][va[1]].pp \in Page
         /\ Present(page_lookup(m, d, va)) => page_lookup(m, d, va).pp \in Page
<1>1. va[1] \in Idx /\ va[2] \in Idx
  OBVIOUS
<1>2. m.mem[d][va[1]] \in Word
  BY <1>1 DEF KMem
<1>3. Present(m.mem[d][va[1]]) => m.mem[d][va[1]].pp \in Page
  BY <1>2 DEF Word, Present, Page
<1>4. Present(m.mem[d][va[1]]) => m.mem[m.mem[d][va[1]].pp][va[2]] \in Word
  BY <1>1, <1>3 DEF KMem
<1>5. page_lookup(m, d, va) \in Word
  BY <1>4, WordType DEF page_lookup
<1> QED
  BY <1>3, <1>5 DEF Word, Present, Page

\* page_remove keeps the memory's type.
LEMMA RemoveType ==
  ASSUME NEW m \in KMem, NEW d \in Page, NEW va \in Idx \X Idx
  PROVE  page_remove(m, d, va) \in KMem
<1> DEFINE old == page_lookup(m, d, va)
<1>1. CASE Present(old)
  <2>1. Present(m.mem[d][va[1]])
    BY <1>1 DEF page_lookup, NotPresent, Present
  <2>2. old.pp \in Page /\ m.mem[d][va[1]].pp \in Page /\ va[2] \in Idx
    BY <1>1, <2>1, LookupType
  <2>3. page_decref(m, old.pp) \in KMem
    BY <2>2, DecrefType
  <2> QED
    BY <1>1, <2>2, <2>3, PutEntryType, WordType DEF page_remove
<1>2. CASE ~Present(old)
  BY <1>2 DEF page_remove
<1> QED
  BY <1>1, <1>2

\* page_insert keeps the memory's type.
LEMMA InsertType ==
  ASSUME NEW m \in KMem, NEW p \in Page, NEW d \in Page, NEW va \in Idx \X Idx, NEW w \in BOOLEAN
  PROVE  page_insert(m, p, d, va, w) \in KMem
<1> DEFINE n == pgdir_walk(m, d, va[1])
           old == page_lookup(n, d, va)
           cleared == IF old.pp = p THEN Decrement(n, p) ELSE page_remove(n, d, va)
<1>1. va[1] \in Idx /\ va[2] \in Idx
  OBVIOUS
<1>2. n \in KMem
  BY <1>1, WalkType
<1> HIDE DEF n
<1>3. cleared \in KMem
  BY <1>2, CountType, RemoveType
<1> HIDE DEF cleared
<1>4. Increment(cleared, p) \in KMem
  BY <1>3, CountType
<1>5. [pp |-> p, w |-> w] \in Word
  BY DEF Word, Page
<1>6. CASE Present(n.mem[d][va[1]])
  <2>1. n.mem[d][va[1]].pp \in Page
    BY <1>2, <1>6, LookupType
  <2>2. PutEntry(Increment(cleared, p), n.mem[d][va[1]].pp, va[2], [pp |-> p, w |-> w]) \in KMem
    BY <1>1, <1>4, <1>5, <2>1, PutEntryType
  <2> QED
    BY <1>6, <2>2 DEF page_insert, n, cleared
<1>7. CASE ~Present(n.mem[d][va[1]])
  BY <1>2, <1>7 DEF page_insert, n
<1> QED
  BY <1>6, <1>7

\* env_setup_vm keeps the memory's type and changes one env_pgdir.
LEMMA SetupType ==
  ASSUME NEW m \in KMem, m.page_free_list # <<>>, NEW e \in Env
  PROVE  /\ env_setup_vm(m, e) \in KMem
         /\ env_setup_vm(m, e).env_pgdir
              = [m.env_pgdir EXCEPT ![e] = Head(m.page_free_list)]
<1> DEFINE p == Head(m.page_free_list)
           n == Increment(page_alloc(m), p)
<1>1. p \in Page /\ page_alloc(m) \in KMem
  BY AllocType
<1>2. n \in KMem
  BY <1>1, CountType
<1>3. n.env_pgdir = m.env_pgdir
  BY <1>1 DEF Increment, page_alloc, KMem
<1>4. env_setup_vm(m, e) = [n EXCEPT !.env_pgdir[e] = p]
  BY DEF env_setup_vm
<1> HIDE DEF n, p
<1>5. p \in 0 .. NPages
  BY <1>1 DEF Page
<1>6. [n EXCEPT !.env_pgdir[e] = p] \in KMem
  BY <1>2, <1>5 DEF KMem
<1>7. [n EXCEPT !.env_pgdir[e] = p].env_pgdir = [m.env_pgdir EXCEPT ![e] = p]
  BY <1>2, <1>3 DEF KMem
<1> QED
  BY <1>4, <1>6, <1>7 DEF p

(* None of the page-table functions touches env_pgdir.                       *)

\* page_decref leaves every env_pgdir alone.
LEMMA DecrefKeepsDirs ==
  ASSUME NEW m \in KMem, NEW p \in Page
  PROVE  page_decref(m, p).env_pgdir = m.env_pgdir
BY CountType DEF page_decref, page_free, Decrement, KMem

\* So does pgdir_walk,
LEMMA WalkKeepsDirs ==
  ASSUME NEW m \in KMem, NEW d \in Page, NEW x \in Idx
  PROVE  pgdir_walk(m, d, x).env_pgdir = m.env_pgdir
BY DEF pgdir_walk, PutEntry, page_alloc, KMem

\* page_remove,
LEMMA RemoveKeepsDirs ==
  ASSUME NEW m \in KMem, NEW d \in Page, NEW va \in Idx \X Idx
  PROVE  page_remove(m, d, va).env_pgdir = m.env_pgdir
<1> DEFINE old == page_lookup(m, d, va)
<1>1. CASE Present(old)
  <2>1. old.pp \in Page
    BY <1>1, LookupType
  <2>2. page_decref(m, old.pp) \in KMem /\ page_decref(m, old.pp).env_pgdir = m.env_pgdir
    BY <2>1, DecrefType, DecrefKeepsDirs
  <2> QED
    BY <1>1, <2>2 DEF page_remove, PutEntry, KMem
<1>2. CASE ~Present(old)
  BY <1>2 DEF page_remove
<1> QED
  BY <1>1, <1>2

\* and page_insert.
LEMMA InsertKeepsDirs ==
  ASSUME NEW m \in KMem, NEW p \in Page, NEW d \in Page, NEW va \in Idx \X Idx, NEW w \in BOOLEAN
  PROVE  page_insert(m, p, d, va, w).env_pgdir = m.env_pgdir
<1> DEFINE n == pgdir_walk(m, d, va[1])
           old == page_lookup(n, d, va)
           cleared == IF old.pp = p THEN Decrement(n, p) ELSE page_remove(n, d, va)
           word == [pp |-> p, w |-> w]
<1>1. va[1] \in Idx /\ va[2] \in Idx
  OBVIOUS
<1>2. n \in KMem /\ n.env_pgdir = m.env_pgdir
  BY <1>1, WalkType, WalkKeepsDirs
<1>3. page_insert(m, p, d, va, w) =
        IF Present(n.mem[d][va[1]])
        THEN PutEntry(Increment(cleared, p), n.mem[d][va[1]].pp, va[2], word) ELSE n
  BY DEF page_insert
<1> HIDE DEF n
<1>4. Decrement(n, p).env_pgdir = n.env_pgdir /\ page_remove(n, d, va).env_pgdir = n.env_pgdir
  BY <1>2, RemoveKeepsDirs DEF Decrement, KMem
<1>5. cleared \in KMem /\ cleared.env_pgdir = n.env_pgdir
  BY <1>2, <1>4, CountType, RemoveType
<1> HIDE DEF cleared, word
<1>6. Increment(cleared, p).env_pgdir = n.env_pgdir /\ Increment(cleared, p) \in KMem
  BY <1>5, CountType DEF Increment, KMem
<1>7. PutEntry(Increment(cleared, p), n.mem[d][va[1]].pp, va[2], word).env_pgdir = n.env_pgdir
  BY <1>6 DEF PutEntry, KMem
<1> QED
  BY <1>2, <1>3, <1>7

\* region_alloc keeps the memory's type and every env_pgdir.
LEMMA RegionType ==
  ASSUME NEW m \in KMem, m.page_free_list # <<>>, NEW d \in Page, NEW va \in Idx \X Idx
  PROVE  region_alloc(m, d, va) \in KMem /\ region_alloc(m, d, va).env_pgdir = m.env_pgdir
<1>1. page_alloc(m) \in KMem /\ Head(m.page_free_list) \in Page
  BY AllocType
<1>2. page_alloc(m).env_pgdir = m.env_pgdir
  BY DEF page_alloc, KMem
<1> QED
  BY <1>1, <1>2, InsertType, InsertKeepsDirs DEF region_alloc

-----------------------------------------------------------------------------
(* Type correctness.  env_create does not look at the result of env_alloc,   *)
(* so the induction needs that the free list is not empty at boot.           *)

TypeInv == TypeOK /\ (mode = "boot" => k.page_free_list # <<>>)

\* TypeInv holds at boot.
LEMMA InitType == Init => TypeInv
<1> SUFFICES ASSUME Init PROVE TypeInv
  OBVIOUS
<1> DEFINE list == [i \in Page |-> NPages + 1 - i]
<1>1. list \in Seq(Page) /\ list # <<>>
  <2>1. \A i \in Page : NPages + 1 - i \in Page
    BY PagesAssumption DEF Page
  <2>2. list \in [1 .. NPages -> Page] /\ NPages \in Nat
    BY <2>1, PagesAssumption DEF Page
  <2>3. list \in Seq(Page)
    BY <2>2
  <2>4. 1 \in DOMAIN list
    BY PagesAssumption DEF Page
  <2> QED
    BY <2>3, <2>4
<1>2. [p \in Page |-> ZeroPage] \in [Page -> [Idx -> Word]]
  BY WordType
<1>3. [p \in Page |-> 0] \in [Page -> 0 .. RefMod - 1]
  BY RefAssumption
<1>4. [e \in Env |-> 0] \in [Env -> 0 .. NPages]
  BY PagesAssumption
<1> HIDE DEF list
<1>5. k = [page_free_list |-> list,
           pp_ref |-> [p \in Page |-> 0],
           mem |-> [p \in Page |-> ZeroPage],
           env_pgdir |-> [e \in Env |-> 0]]
  BY DEF Init, list
<1>6. k \in KMem /\ k.page_free_list # <<>>
  BY <1>1, <1>2, <1>3, <1>4, <1>5 DEF KMem
<1>7. tlb \in [VA -> Word] /\ 0 \in 0 .. NPages
  BY WordType, PagesAssumption DEF Init, EmptyTlb
<1> QED
  BY <1>6, <1>7 DEF Init, TypeInv, TypeOK

\* What page_insert and page_remove leave is a TLB.
LEMMA TlbType ==
  ASSUME TypeOK, NEW d \in Page, NEW va \in Idx \X Idx
  PROVE  TlbAfter(d, va) \subseteq [VA -> Word]
<1>1. page_lookup(k, d, va) \in Word /\ tlb \in [VA -> Word]
  BY LookupType DEF TypeOK
<1>2. tlb_invalidate(d, va) \in [VA -> Word]
  BY <1>1, WordType DEF tlb_invalidate
<1> QED
  BY <1>1, <1>2 DEF TlbAfter

\* Every step preserves TypeInv.
LEMMA NextType == TypeInv /\ [Next]_vars => TypeInv'
<1> SUFFICES ASSUME TypeInv, [Next]_vars PROVE TypeInv'
  OBVIOUS
<1> USE DEF TypeInv
<1>0. /\ k \in KMem /\ k.env_pgdir \in [Env -> 0 .. NPages]
      /\ \A e \in Env : Live(e) => k.env_pgdir[e] \in Page
      /\ VA \subseteq Idx \X Idx /\ NoEnv \notin Env
      /\ EmptyTlb \in [VA -> Word] /\ 0 \in 0 .. NPages
      /\ Page \subseteq 0 .. NPages /\ 0 \notin Page
  BY WordType, PagesAssumption, EnvAssumption, StoreAssumption
  DEF TypeOK, KMem, Live, Page, EmptyTlb
<1>1. ASSUME NEW e \in Env, EnvCreate(e) PROVE TypeInv'
  <2>1. k.page_free_list # <<>> /\ Head(k.page_free_list) \in Page
    BY <1>0, <1>1, AllocType DEF EnvCreate
  <2>2. k' \in KMem /\ k'.env_pgdir = [k.env_pgdir EXCEPT ![e] = Head(k.page_free_list)]
    BY <1>0, <1>1, <2>1, SetupType DEF EnvCreate
  <2> QED
    BY <1>0, <1>1, <2>1, <2>2 DEF EnvCreate, TypeOK, Live
<1>2. ASSUME NEW va \in VA, LoadSegment(va) PROVE TypeInv'
  <2>1. target \in Env /\ k.env_pgdir[target] \in Page
    BY <1>0, <1>2 DEF LoadSegment, TypeOK
  <2>2. k.page_free_list # <<>> =>
          /\ region_alloc(k, k.env_pgdir[target], va) \in KMem
          /\ region_alloc(k, k.env_pgdir[target], va).env_pgdir = k.env_pgdir
          /\ Head(k.page_free_list) \in Page
    BY <1>0, <2>1, RegionType, AllocType
  <2>3. k' \in KMem /\ k'.env_pgdir = k.env_pgdir /\ lost' \subseteq Page
    BY <1>0, <1>2, <2>2 DEF LoadSegment, TypeOK
  <2>4. tlb' \in [VA -> Word]
    BY <1>0, <1>2 DEF LoadSegment, TypeOK
  <2>5. mode' \in {"load", "halt"} /\ curenv' = curenv /\ cr3' = cr3 /\ target' = target
    BY <1>2 DEF LoadSegment
  <2> QED
    BY <1>0, <2>1, <2>3, <2>4, <2>5 DEF TypeOK, Live
<1>3. ASSUME NEW va \in VA, LoadStack(va) PROVE TypeInv'
  <2>1. target \in Env /\ k.env_pgdir[target] \in Page
    BY <1>0, <1>3 DEF LoadStack, TypeOK
  <2>2. k.page_free_list # <<>> =>
          /\ region_alloc(k, k.env_pgdir[target], va) \in KMem
          /\ region_alloc(k, k.env_pgdir[target], va).env_pgdir = k.env_pgdir
          /\ Head(k.page_free_list) \in Page
    BY <1>0, <2>1, RegionType, AllocType
  <2>3. k' \in KMem /\ k'.env_pgdir = k.env_pgdir /\ lost' \subseteq Page
    BY <1>0, <1>3, <2>2 DEF LoadStack, TypeOK
  <2>4. mode' \in {"ready", "halt"} /\ curenv' = curenv /\ cr3' = 0 /\ target' = NoEnv
        /\ tlb' = EmptyTlb
    BY <1>3 DEF LoadStack
  <2> QED
    BY <1>0, <2>1, <2>3, <2>4 DEF TypeOK, Live
<1>4. ASSUME NEW e \in Env, env_run(e) PROVE TypeInv'
  BY <1>0, <1>4 DEF env_run, TypeOK, Live
<1>5. ASSUME Trap \/ Monitor \/ Halted PROVE TypeInv'
  BY <1>5 DEF Trap, Monitor, Halted, vars, TypeOK, Live
<1>6. ASSUME NEW e \in Env, sys_exofork(e) PROVE TypeInv'
  <2>1. Head(k.page_free_list) \in Page
    BY <1>0, <1>6, AllocType DEF sys_exofork
  <2>2. k' \in KMem /\ k'.env_pgdir = [k.env_pgdir EXCEPT ![e] = Head(k.page_free_list)]
    BY <1>0, <1>6, SetupType DEF sys_exofork
  <2> QED
    BY <1>0, <1>6, <2>1, <2>2 DEF sys_exofork, Syscalls, TypeOK, Live
<1>7. ASSUME NEW s \in Env, NEW sv \in VA, NEW e \in Env, NEW dv \in VA, NEW w \in BOOLEAN,
             sys_page_map(s, sv, e, dv, w)
      PROVE  TypeInv'
  <2> DEFINE src == page_lookup(k, k.env_pgdir[s], sv)
             d == k.env_pgdir[e]
  <2>1. d \in Page /\ k.env_pgdir[s] \in Page
    BY <1>0, <1>7 DEF sys_page_map
  <2>2. src.pp \in Page
    BY <1>0, <1>7, <2>1, LookupType DEF sys_page_map
  <2>3. k' = page_insert(k, src.pp, d, dv, w) /\ tlb' \in TlbAfter(d, dv)
    BY <1>7 DEF sys_page_map
  <2>4. UNCHANGED <<curenv, cr3, target, lost>> /\ mode' = "kernel"
    BY <1>7 DEF sys_page_map, Syscalls
  <2> HIDE DEF src, d
  <2>5. k' \in KMem /\ k'.env_pgdir = k.env_pgdir
    <3>1. dv \in Idx \X Idx
      BY <1>0
    <3>2. page_insert(k, src.pp, d, dv, w) \in KMem
      BY <1>0, <2>1, <2>2, <3>1, InsertType
    <3>3. \A p \in Page : page_insert(k, p, d, dv, w).env_pgdir = k.env_pgdir
      BY <1>0, <2>1, <3>1, InsertKeepsDirs
    <3> QED
      BY <2>2, <2>3, <3>2, <3>3
  <2>6. tlb' \in [VA -> Word]
    BY <1>0, <2>1, <2>3, TlbType
  <2> QED
    BY <2>4, <2>5, <2>6 DEF TypeOK, Live
<1>8. ASSUME NEW e \in Env, NEW va \in VA, sys_page_unmap(e, va) PROVE TypeInv'
  <2>1. k.env_pgdir[e] \in Page
    BY <1>0, <1>8 DEF sys_page_unmap
  <2>2. k' \in KMem /\ k'.env_pgdir = k.env_pgdir
    BY <1>0, <1>8, <2>1, RemoveType, RemoveKeepsDirs DEF sys_page_unmap
  <2>3. tlb' \in [VA -> Word]
    BY <1>0, <1>8, <2>1, TlbType DEF sys_page_unmap
  <2> QED
    BY <1>8, <2>2, <2>3 DEF sys_page_unmap, Syscalls, TypeOK, Live
<1>9. ASSUME NEW e \in Env, env_destroy(e) PROVE TypeInv'
  BY <1>0, <1>9 DEF env_destroy, TypeOK, Live
<1>10. ASSUME mode = "free" PROVE target \in Env /\ FreeDir \in Page
  BY <1>0, <1>10 DEF FreeDir, TypeOK
<1>11. ASSUME NEW x \in Idx, NEW y \in Idx, EnvFreePte(x, y) PROVE TypeInv'
  <2>1. <<x, y>> \in Idx \X Idx /\ FreeDir \in Page
    BY <1>10, <1>11 DEF EnvFreePte
  <2>2. k' \in KMem /\ k'.env_pgdir = k.env_pgdir
    BY <1>0, <1>11, <2>1, RemoveType, RemoveKeepsDirs DEF EnvFreePte
  <2>3. tlb' \in [VA -> Word]
    BY <1>0, <1>11, <2>1, TlbType DEF EnvFreePte
  <2> QED
    BY <1>11, <2>2, <2>3 DEF EnvFreePte, TypeOK, Live
<1>12. ASSUME NEW x \in Idx, EnvFreeTable(x) PROVE TypeInv'
  <2> DEFINE t == k.mem[FreeDir][x].pp
             n == PutEntry(k, FreeDir, x, NotPresent)
  <2>1. FreeDir \in Page /\ t \in Page
    <3>1. FreeDir \in Page /\ Present(k.mem[FreeDir][x])
      BY <1>10, <1>12 DEF EnvFreeTable, AtPde
    <3>2. k.mem[FreeDir][x] \in Word
      BY <1>0, <3>1 DEF KMem
    <3> QED
      BY <3>1, <3>2 DEF Present, Word, Page
  <2>2. n \in KMem /\ n.env_pgdir = k.env_pgdir
    BY <1>0, <2>1, PutEntryType, WordType DEF PutEntry, KMem
  <2>3. k' = page_decref(n, t)
    BY <1>12 DEF EnvFreeTable
  <2> HIDE DEF n, t
  <2>4. k' \in KMem /\ k'.env_pgdir = k.env_pgdir
    BY <2>1, <2>2, <2>3, DecrefType, DecrefKeepsDirs
  <2> QED
    BY <1>12, <2>4 DEF EnvFreeTable, TypeOK, Live
<1>13. ASSUME EnvFreeDir PROVE TypeInv'
  <2> DEFINE n == [k EXCEPT !.env_pgdir[target] = 0]
  <2>1. target \in Env /\ FreeDir \in Page
    BY <1>10, <1>13 DEF EnvFreeDir
  <2>2. n \in KMem /\ n.env_pgdir = [k.env_pgdir EXCEPT ![target] = 0]
    BY <1>0 DEF KMem
  <2>3. k' = page_decref(n, FreeDir)
    BY <1>13 DEF EnvFreeDir
  <2> HIDE DEF n
  <2>4. k' \in KMem /\ k'.env_pgdir = [k.env_pgdir EXCEPT ![target] = 0]
    BY <2>1, <2>2, <2>3, DecrefType, DecrefKeepsDirs
  <2> QED
    BY <1>0, <1>13, <2>1, <2>4 DEF EnvFreeDir, TypeOK, Live
<1>14. ASSUME NEW va \in VA, TlbFill(va) PROVE TypeInv'
  <2>1. cr3 \in Page
    BY <1>14 DEF TlbFill, TypeOK, Page
  <2>2. tlb' \in [VA -> Word]
    BY <1>0, <1>14, <2>1, LookupType DEF TlbFill, TypeOK
  <2> QED
    BY <1>14, <2>2 DEF TlbFill, TypeOK, Live
<1>15. ASSUME NEW va \in VA, NEW i \in Idx, NEW word \in StoreWord, Store(va, i, word)
       PROVE  TypeInv'
  <2>1. tlb[va].pp \in Page /\ word \in Word
    BY <1>15, StoreAssumption DEF Store, Present, TypeOK, Word, Page
  <2>2. k' \in KMem
    BY <1>0, <1>15, <2>1, PutEntryType DEF Store
  <2>3. k'.env_pgdir = k.env_pgdir
    BY <1>0, <1>15 DEF Store, PutEntry, KMem
  <2> QED
    BY <1>15, <2>2, <2>3 DEF Store, TypeOK, Live
<1>16. ASSUME UNCHANGED vars PROVE TypeInv'
  BY <1>16 DEF vars, TypeOK, Live
<1> QED
  BY <1>1, <1>2, <1>3, <1>4, <1>5, <1>6, <1>7, <1>8, <1>9, <1>11, <1>12, <1>13, <1>14,
     <1>15, <1>16
  DEF Next, Boot, Syscall, Free, Cpu

\* Every reachable state is well typed and no pointer dangles: neither curenv nor
\* the environment that load_icode or env_free works on is ever a freed one.
THEOREM PmapTypeCorrect == Spec => []TypeOK
<1>1. Init => TypeInv
  BY InitType
<1>2. TypeInv /\ [Next]_vars => TypeInv'
  BY NextType
<1>3. TypeInv => TypeOK
  BY DEF TypeInv
<1> QED
  BY <1>1, <1>2, <1>3, PTL DEF Spec

-----------------------------------------------------------------------------
(* Reference counts, the free list and roles.                                *)

\* The invariant of the memory alone; out holds the unreferenced pages that are
\* deliberately off the free list.
Good(m, out) ==
  /\ m \in KMem
  /\ out \subseteq Page
  /\ FreeListOf(m, out)
  /\ RolesOf(m)
  /\ RefCountOf(m)

\* Directories, tables and frames are pages.
LEMMA RoleTypes ==
  ASSUME NEW m \in KMem
  PROVE  Dirs(m) \subseteq Page /\ Tables(m) \subseteq Page /\ Frames(m) \subseteq Page
<1>1. Dirs(m) \subseteq Page
  BY DEF Dirs, KMem, Page
<1>2. \A q \in Page, i \in Idx : m.mem[q][i].pp \in 0 .. NPages
  BY DEF KMem, Word
<1>3. Tables(m) \subseteq Page
  BY <1>1, <1>2 DEF Tables, Page
<1>4. Frames(m) \subseteq Page
  BY <1>2, <1>3 DEF Frames, Page
<1> QED
  BY <1>1, <1>3, <1>4

\* The pointers to a page are finitely many, and those in tables at most NPages * NIdx.
LEMMA RefsFinite ==
  ASSUME NEW m \in KMem, NEW p \in Page
  PROVE  /\ IsFiniteSet(DirRefs(m, p)) /\ Cardinality(DirRefs(m, p)) \in Nat
         /\ IsFiniteSet(EntryRefs(m, p)) /\ Cardinality(EntryRefs(m, p)) \in Nat
         /\ Cardinality(EntryRefs(m, p)) <= NPages * NIdx
<1>1. IsFiniteSet(Env) /\ DirRefs(m, p) \in SUBSET Env
  BY EnvAssumption DEF DirRefs
<1>2. IsFiniteSet(Page) /\ Cardinality(Page) = NPages
  BY FS_Interval, PagesAssumption DEF Page
<1>3. IsFiniteSet(Idx) /\ Cardinality(Idx) = NIdx
  BY FS_Interval, PagesAssumption DEF Idx
<1>4. IsFiniteSet(Page \X Idx) /\ Cardinality(Page \X Idx) = NPages * NIdx
  BY <1>2, <1>3, FS_Product
<1>5. EntryRefs(m, p) \in SUBSET (Page \X Idx)
  BY RoleTypes DEF EntryRefs
<1>6. IsFiniteSet(DirRefs(m, p)) /\ IsFiniteSet(EntryRefs(m, p))
  BY <1>1, <1>4, <1>5, FS_Subset
<1>7. Cardinality(EntryRefs(m, p)) <= NPages * NIdx
  BY <1>4, <1>5, FS_Subset
<1> QED
  BY <1>6, <1>7, FS_CardinalityType

\* A page with a count of 0 is neither a directory, a table nor mapped.
LEMMA Unreferenced ==
  ASSUME NEW m, NEW out, Good(m, out), NEW p \in Page, m.pp_ref[p] = 0
  PROVE  /\ DirRefs(m, p) = {} /\ EntryRefs(m, p) = {}
         /\ p \notin Dirs(m) /\ p \notin Tables(m) /\ p \notin Frames(m)
<1>1. m \in KMem
  BY DEF Good
<1>2. Cardinality(DirRefs(m, p)) = 0 /\ Cardinality(EntryRefs(m, p)) = 0
  BY <1>1, RefsFinite DEF Good, RefCountOf
<1>3. DirRefs(m, p) = {} /\ EntryRefs(m, p) = {}
  BY <1>1, <1>2, RefsFinite, FS_EmptySet
<1>4. p \notin Dirs(m)
  BY <1>3 DEF DirRefs, Dirs
<1>5. \A q \in Dirs(m) \cup Tables(m), i \in Idx : m.mem[q][i].pp # p
  <2> SUFFICES ASSUME NEW q \in Dirs(m) \cup Tables(m), NEW i \in Idx, m.mem[q][i].pp = p
               PROVE  FALSE
    OBVIOUS
  <2>1. <<q, i>> \in EntryRefs(m, p)
    BY DEF EntryRefs
  <2> QED
    BY <2>1, <1>3
<1> QED
  BY <1>3, <1>4, <1>5 DEF Tables, Frames

\* A page that something points at is not on the free list, nor in out.
LEMMA ReferencedNotFree ==
  ASSUME NEW m, NEW out, Good(m, out)
  PROVE  \A p \in Dirs(m) \cup Tables(m) \cup Frames(m) :
           p \in Page /\ m.pp_ref[p] # 0 /\ p \notin OnList(m) /\ p \notin out
<1>1. m \in KMem
  BY DEF Good
<1>2. \A p \in Dirs(m) \cup Tables(m) \cup Frames(m) : p \in Page /\ m.pp_ref[p] # 0
  BY <1>1, RoleTypes, Unreferenced
<1> QED
  BY <1>2 DEF Good, FreeListOf

-----------------------------------------------------------------------------
(* The free list.                                                            *)

\* Taking the head of a free list without duplicates removes exactly that page.
LEMMA PopList ==
  ASSUME NEW m \in KMem, m.page_free_list # <<>>,
         \A i, j \in DOMAIN m.page_free_list :
           m.page_free_list[i] = m.page_free_list[j] => i = j
  PROVE  LET l == m.page_free_list
             r == Tail(l)
         IN  /\ Head(l) \in OnList(m) /\ Head(l) \in Page
             /\ {r[i] : i \in DOMAIN r} = OnList(m) \ {Head(l)}
             /\ \A i, j \in DOMAIN r : r[i] = r[j] => i = j
<1> DEFINE l == m.page_free_list
           r == Tail(l)
<1>1. l \in Seq(Page) /\ l # <<>>
  BY DEF KMem
<1>2. OnList(m) = {l[i] : i \in DOMAIN l}
  BY DEF OnList
<1>3. \A i, j \in DOMAIN l : l[i] = l[j] => i = j
  OBVIOUS
<1> HIDE DEF l
<1>4. Len(l) \in Nat \ {0} /\ DOMAIN l = 1 .. Len(l) /\ Head(l) = l[1]
  BY <1>1
<1>5. DOMAIN r = 1 .. Len(l) - 1 /\ \A i \in 1 .. Len(l) - 1 : r[i] = l[i + 1]
  BY <1>1
<1>6. Head(l) \in OnList(m) /\ Head(l) \in Page
  BY <1>1, <1>2, <1>4
<1>7. \A i, j \in DOMAIN r : r[i] = r[j] => i = j
  BY <1>3, <1>4, <1>5
<1>8. {r[i] : i \in DOMAIN r} \subseteq OnList(m) \ {Head(l)}
  BY <1>2, <1>3, <1>4, <1>5
<1>9. ASSUME NEW i \in DOMAIN l, l[i] # Head(l)
      PROVE  \E j \in DOMAIN r : r[j] = l[i]
  <2>1. i - 1 \in DOMAIN r /\ r[i - 1] = l[i]
    BY <1>4, <1>5, <1>9
  <2> QED
    BY <2>1
<1>10. OnList(m) \ {Head(l)} \subseteq {r[i] : i \in DOMAIN r}
  BY <1>2, <1>9
<1> QED
  BY <1>6, <1>7, <1>8, <1>10 DEF l

\* Putting a page back in front adds exactly that page.
LEMMA PushList ==
  ASSUME NEW l \in Seq(Page), NEW p \in Page, \A i \in DOMAIN l : l[i] # p,
         \A i, j \in DOMAIN l : l[i] = l[j] => i = j
  PROVE  LET r == <<p>> \o l
         IN  /\ {r[i] : i \in DOMAIN r} = {l[i] : i \in DOMAIN l} \cup {p}
             /\ \A i, j \in DOMAIN r : r[i] = r[j] => i = j
<1> DEFINE r == <<p>> \o l
<1>1. Len(l) \in Nat /\ DOMAIN l = 1 .. Len(l)
  OBVIOUS
<1>2. DOMAIN r = 1 .. Len(l) + 1 /\ r[1] = p /\ \A i \in 2 .. Len(l) + 1 : r[i] = l[i - 1]
  <2>1. <<p>> \in Seq(Page) /\ Len(<<p>>) = 1 /\ <<p>>[1] = p
    OBVIOUS
  <2>2. r \in Seq(Page) /\ Len(r) = Len(l) + 1 /\ DOMAIN r = 1 .. Len(r)
    BY <1>1, <2>1
  <2>3. \A i \in 1 .. Len(r) : r[i] = IF i <= 1 THEN <<p>>[i] ELSE l[i - 1]
    BY <1>1, <2>1, <2>2
  <2> QED
    BY <1>1, <2>1, <2>2, <2>3
<1> HIDE DEF r
<1>3. ASSUME NEW i \in DOMAIN r, NEW j \in DOMAIN r, r[i] = r[j] PROVE i = j
  <2>1. i \in 1 .. Len(l) + 1 /\ j \in 1 .. Len(l) + 1
    BY <1>2
  <2>2. \A h \in 2 .. Len(l) + 1 : h - 1 \in DOMAIN l /\ r[h] = l[h - 1] /\ r[h] # p
    BY <1>1, <1>2
  <2>3. CASE i = 1 \/ j = 1
    BY <1>1, <1>2, <1>3, <2>1, <2>2, <2>3
  <2>4. CASE i # 1 /\ j # 1
    <3>1. i - 1 \in DOMAIN l /\ j - 1 \in DOMAIN l /\ l[i - 1] = l[j - 1]
      BY <1>1, <1>3, <2>1, <2>2, <2>4
    <3>2. i - 1 = j - 1
      BY <3>1
    <3> QED
      BY <2>1, <3>2, <1>1
  <2> QED
    BY <2>3, <2>4
<1>4. {r[i] : i \in DOMAIN r} \subseteq {l[i] : i \in DOMAIN l} \cup {p}
  BY <1>1, <1>2
<1>5. ASSUME NEW i \in DOMAIN l PROVE \E j \in DOMAIN r : r[j] = l[i]
  <2>1. i + 1 \in DOMAIN r /\ r[i + 1] = l[i]
    BY <1>1, <1>2
  <2> QED
    BY <2>1
<1>6. 1 \in DOMAIN r
  BY <1>1, <1>2
<1>7. {l[i] : i \in DOMAIN l} \cup {p} \subseteq {r[i] : i \in DOMAIN r}
  BY <1>2, <1>5, <1>6
<1> QED
  BY <1>3, <1>4, <1>7 DEF r

-----------------------------------------------------------------------------
(* pgdir_walk: a new, empty page table.                                      *)

\* What PutEntry changes, field by field.
LEMMA PutEntryFields ==
  ASSUME NEW m \in KMem, NEW q \in Page, NEW i \in Idx, NEW word \in Word
  PROVE  LET n == PutEntry(m, q, i, word)
         IN  /\ n.page_free_list = m.page_free_list
             /\ n.pp_ref = m.pp_ref
             /\ n.env_pgdir = m.env_pgdir
             /\ \A p \in Page, j \in Idx :
                  n.mem[p][j] = IF p = q /\ j = i THEN word ELSE m.mem[p][j]
<1> DEFINE n == PutEntry(m, q, i, word)
           f == m.mem
<1>1. /\ n.page_free_list = m.page_free_list /\ n.pp_ref = m.pp_ref
      /\ n.env_pgdir = m.env_pgdir /\ n.mem = [f EXCEPT ![q][i] = word]
  BY DEF PutEntry, KMem
<1>2. f \in [Page -> [Idx -> Word]]
  BY DEF KMem
<1> HIDE DEF f
<1>3. \A p \in Page, j \in Idx :
        [f EXCEPT ![q][i] = word][p][j] = IF p = q /\ j = i THEN word ELSE f[p][j]
  BY <1>2
<1> QED
  BY <1>1, <1>3 DEF f

\* What pgdir_walk changes when it makes a table.
LEMMA WalkFields ==
  ASSUME NEW m \in KMem, NEW d \in Page, NEW x \in Idx,
         ~Present(m.mem[d][x]), m.page_free_list # <<>>,
         NEW t, t = Head(m.page_free_list), t # d
  PROVE  LET n == pgdir_walk(m, d, x)
         IN  /\ n.page_free_list = Tail(m.page_free_list)
             /\ n.pp_ref = [m.pp_ref EXCEPT ![t] = 1]
             /\ n.env_pgdir = m.env_pgdir
             /\ \A q \in Page, i \in Idx :
                  n.mem[q][i] = IF q = d /\ i = x THEN [pp |-> t, w |-> TRUE]
                                ELSE IF q = t THEN NotPresent ELSE m.mem[q][i]
<1>1. t \in Page
  BY AllocType
<1> DEFINE a == page_alloc(m)
           r == [a EXCEPT !.pp_ref[t] = 1]
           n == PutEntry(r, d, x, [pp |-> t, w |-> TRUE])
<1>2. pgdir_walk(m, d, x) = n
  BY DEF pgdir_walk
<1>3. /\ a \in KMem
      /\ a.page_free_list = Tail(m.page_free_list)
      /\ a.pp_ref = m.pp_ref
      /\ a.env_pgdir = m.env_pgdir
      /\ a.mem = [m.mem EXCEPT ![t] = ZeroPage]
  BY AllocType DEF page_alloc, KMem
<1> HIDE DEF a
<1>4. /\ r \in KMem
      /\ r.page_free_list = a.page_free_list
      /\ r.pp_ref = [a.pp_ref EXCEPT ![t] = 1]
      /\ r.env_pgdir = a.env_pgdir
      /\ r.mem = a.mem
  BY <1>1, <1>3, FirstRefType DEF KMem
<1> HIDE DEF r
<1>5. /\ n.page_free_list = r.page_free_list
      /\ n.pp_ref = r.pp_ref
      /\ n.env_pgdir = r.env_pgdir
      /\ \A q \in Page, i \in Idx :
           n.mem[q][i] = IF q = d /\ i = x THEN [pp |-> t, w |-> TRUE] ELSE r.mem[q][i]
  <2> DEFINE word == [pp |-> t, w |-> TRUE]
  <2>1. word \in Word
    BY <1>1 DEF Word, Page
  <2> HIDE DEF word
  <2>2. LET v == PutEntry(r, d, x, word)
        IN  /\ v.page_free_list = r.page_free_list
            /\ v.pp_ref = r.pp_ref
            /\ v.env_pgdir = r.env_pgdir
            /\ \A q \in Page, i \in Idx :
                 v.mem[q][i] = IF q = d /\ i = x THEN word ELSE r.mem[q][i]
    BY <1>4, <2>1, PutEntryFields
  <2> QED
    BY <2>2 DEF word
<1>6. m.mem \in [Page -> [Idx -> Word]]
  BY DEF KMem
<1>7. \A q \in Page, i \in Idx :
        n.mem[q][i] = IF q = d /\ i = x THEN [pp |-> t, w |-> TRUE]
                      ELSE IF q = t THEN NotPresent ELSE m.mem[q][i]
  <2>1. [m.mem EXCEPT ![t] = ZeroPage] \in [Page -> [Idx -> Word]]
    BY <1>6, WordType
  <2>2. r.mem \in [Page -> [Idx -> Word]] /\ r.mem = [m.mem EXCEPT ![t] = ZeroPage]
    BY <1>3, <1>4, <2>1
  <2>3. \A q \in Page, i \in Idx :
          r.mem[q][i] = IF q = t THEN NotPresent ELSE m.mem[q][i]
    BY <1>6, <2>2 DEF ZeroPage
  <2> QED
    BY <1>5, <2>3
<1> HIDE DEF n
<1> QED
  BY <1>2, <1>3, <1>4, <1>5, <1>7

\* pgdir_walk (create = 1) keeps reference counts, the free list and the roles exact,
\* whether it finds a table, makes one or runs out of memory.
THEOREM WalkGood ==
  ASSUME NEW m, NEW out, Good(m, out), NEW d \in Dirs(m), NEW x \in Idx
  PROVE  LET n == pgdir_walk(m, d, x)
         IN  /\ Good(n, out)
             /\ n.env_pgdir = m.env_pgdir
             /\ OnList(n) \subseteq OnList(m)
             /\ Frames(n) = Frames(m)
             /\ \A q \in Dirs(n) \cup Tables(n) : q \in Dirs(m) \cup Tables(m) \cup OnList(m)
             /\ \A p \in Page \ OnList(m) : n.pp_ref[p] = m.pp_ref[p]
<1> DEFINE n == pgdir_walk(m, d, x)
           t == Head(m.page_free_list)
<1>1. m \in KMem /\ d \in Page /\ out \subseteq Page
  BY RoleTypes DEF Good
<1>2. CASE Present(m.mem[d][x]) \/ m.page_free_list = <<>>
  <2>1. n = m
    BY <1>2 DEF pgdir_walk
  <2> QED
    BY <2>1
<1>3. CASE ~Present(m.mem[d][x]) /\ m.page_free_list # <<>>
  <2>1. /\ t \in Page /\ t \in OnList(m)
        /\ {Tail(m.page_free_list)[i] : i \in DOMAIN Tail(m.page_free_list)} = OnList(m) \ {t}
        /\ \A i, j \in DOMAIN Tail(m.page_free_list) :
             Tail(m.page_free_list)[i] = Tail(m.page_free_list)[j] => i = j
    BY <1>1, <1>3, PopList DEF Good, FreeListOf
  <2>2. m.pp_ref[t] = 0 /\ t \notin out
    BY <2>1 DEF Good, FreeListOf
  <2>3. /\ DirRefs(m, t) = {} /\ EntryRefs(m, t) = {}
        /\ t \notin Dirs(m) /\ t \notin Tables(m) /\ t \notin Frames(m)
    BY <2>1, <2>2, Unreferenced
  <2>4. t # d
    BY <2>3
  <2>5. /\ n.page_free_list = Tail(m.page_free_list)
        /\ n.pp_ref = [m.pp_ref EXCEPT ![t] = 1]
        /\ n.env_pgdir = m.env_pgdir
        /\ \A q \in Page, i \in Idx :
             n.mem[q][i] = IF q = d /\ i = x THEN [pp |-> t, w |-> TRUE]
                           ELSE IF q = t THEN NotPresent ELSE m.mem[q][i]
    BY <1>1, <1>3, <2>4, WalkFields
  <2>6. n \in KMem
    BY <1>1, WalkType
  <2> HIDE DEF n, t
  <2>7. OnList(n) = OnList(m) \ {t}
    <3> DEFINE l == Tail(m.page_free_list)
    <3>1. {l[i] : i \in DOMAIN l} = OnList(m) \ {t} /\ n.page_free_list = l
      BY <2>1, <2>5
    <3> HIDE DEF l
    <3>2. \A p : p \in OnList(n) <=> \E i \in DOMAIN l : l[i] = p
      BY <3>1 DEF OnList
    <3> QED
      BY <3>1, <3>2
  <2>8. \A p \in Page : n.pp_ref[p] = IF p = t THEN 1 ELSE m.pp_ref[p]
    BY <1>1, <2>1, <2>5 DEF KMem
  <2>9. FreeListOf(n, out)
    BY <2>1, <2>2, <2>5, <2>7, <2>8 DEF FreeListOf, Good
  <2>10. Dirs(n) = Dirs(m)
    BY <2>5 DEF Dirs
  <2>11. Dirs(m) \subseteq Page /\ Tables(m) \subseteq Page /\ m.mem[d][x].pp = 0
    BY <1>1, <1>3, RoleTypes DEF Present
  <2>12. \A q \in Dirs(m), i \in Idx :
           n.mem[q][i].pp = IF q = d /\ i = x THEN t ELSE m.mem[q][i].pp
    BY <2>3, <2>5, <2>11
  <2>13. Tables(n) = Tables(m) \cup {t}
    <3>1. Tables(n) \subseteq Tables(m) \cup {t}
      BY <2>10, <2>12 DEF Tables
    <3>2. Tables(m) \subseteq Tables(n)
      BY <2>10, <2>11, <2>12 DEF Tables
    <3>3. t \in Tables(n)
      BY <2>1, <2>10, <2>12, PagesAssumption DEF Tables, Page
    <3> QED
      BY <3>1, <3>2, <3>3
  <2>14. Tables(m) \cap Dirs(m) = {}
    BY DEF Good, RolesOf
  <2>15. \A q \in Tables(m), i \in Idx : n.mem[q][i] = m.mem[q][i]
    BY <2>3, <2>5, <2>11, <2>14
  <2>16. \A i \in Idx : n.mem[t][i].pp = 0
    BY <2>1, <2>4, <2>5 DEF NotPresent
  <2>17. Frames(n) = Frames(m)
    <3>1. Frames(n) \subseteq Frames(m)
      BY <2>13, <2>15, <2>16 DEF Frames
    <3>2. Frames(m) \subseteq Frames(n)
      BY <2>13, <2>15 DEF Frames
    <3> QED
      BY <3>1, <3>2
  <2>18. RolesOf(n)
    <3>1. \A e, f \in Env : n.env_pgdir[e] # 0 /\ n.env_pgdir[e] = n.env_pgdir[f] => e = f
      BY <2>5 DEF Good, RolesOf
    <3>2. \A c \in Dirs(m), y \in Idx : m.mem[c][y].pp # t
      BY <2>3, <2>1, PagesAssumption DEF Tables, Page
    <3>3. \A b, c \in Dirs(n), y, z \in Idx :
            Present(n.mem[b][y]) /\ n.mem[b][y].pp = n.mem[c][z].pp => b = c /\ y = z
      BY <2>10, <2>12, <3>2 DEF Good, RolesOf, Present
    <3>4. Dirs(n) \cap Tables(n) = {}
      BY <2>3, <2>10, <2>13, <2>14
    <3>5. Frames(n) \cap (Dirs(n) \cup Tables(n)) = {}
      BY <2>3, <2>10, <2>13, <2>17 DEF Good, RolesOf
    <3> QED
      BY <3>1, <3>3, <3>4, <3>5 DEF RolesOf
  <2>19. \A p \in Page : DirRefs(n, p) = DirRefs(m, p)
    BY <2>5 DEF DirRefs
  <2>20. EntryRefs(n, t) = {<<d, x>>}
    <3>1. \A q \in Dirs(n) \cup Tables(n), i \in Idx :
            n.mem[q][i].pp = t <=> q = d /\ i = x
      <4>1. \A q \in Dirs(m) \cup Tables(m), i \in Idx : m.mem[q][i].pp # t
        BY <2>3, <2>1, PagesAssumption DEF Tables, Frames, Page
      <4> QED
        BY <2>1, <2>10, <2>12, <2>13, <2>14, <2>15, <2>16, <4>1, PagesAssumption DEF Page
    <3>2. d \in Dirs(n)
      BY <2>10
    <3> QED
      BY <3>1, <3>2 DEF EntryRefs
  <2>21. ASSUME NEW p \in Page, p # t PROVE EntryRefs(n, p) = EntryRefs(m, p)
    <3>1. \A q \in Dirs(n) \cup Tables(n), i \in Idx :
            n.mem[q][i].pp = p <=> q \in Dirs(m) \cup Tables(m) /\ m.mem[q][i].pp = p
      BY <2>3, <2>10, <2>11, <2>12, <2>13, <2>14, <2>15, <2>16, <2>21, PagesAssumption DEF Page
    <3> QED
      BY <2>10, <2>13, <3>1 DEF EntryRefs
  <2>22. RefCountOf(n)
    <3> SUFFICES ASSUME NEW p \in Page
                 PROVE  n.pp_ref[p] = Cardinality(DirRefs(n, p)) + Cardinality(EntryRefs(n, p))
      BY DEF RefCountOf
    <3>1. CASE p = t
      <4>1. Cardinality(DirRefs(n, p)) = 0
        BY <2>3, <2>19, <3>1, FS_EmptySet
      <4>2. Cardinality(EntryRefs(n, p)) = 1
        BY <2>20, <3>1, FS_Singleton
      <4> QED
        BY <2>8, <3>1, <4>1, <4>2
    <3>2. CASE p # t
      BY <2>8, <2>19, <2>21, <3>2 DEF Good, RefCountOf
    <3> QED
      BY <3>1, <3>2
  <2>23. Good(n, out)
    BY <1>1, <2>6, <2>9, <2>18, <2>22 DEF Good
  <2> QED
    BY <2>1, <2>5, <2>7, <2>8, <2>10, <2>13, <2>17, <2>23 DEF n
<1> QED
  BY <1>2, <1>3

-----------------------------------------------------------------------------
(* Writing one word of a page table.                                         *)

\* Writing one word of a page table moves no directory and no table.
LEMMA TableWrite ==
  ASSUME NEW m \in KMem, NEW n \in KMem, RolesOf(m),
         NEW t \in Tables(m), NEW y \in Idx, NEW word \in Word,
         n.env_pgdir = m.env_pgdir,
         \A q \in Page, i \in Idx : n.mem[q][i] = IF q = t /\ i = y THEN word ELSE m.mem[q][i],
         word.pp \notin Dirs(m) \cup Tables(m)
  PROVE  /\ Dirs(n) = Dirs(m) /\ Tables(n) = Tables(m)
         /\ \A p \in Frames(n) : p \in Frames(m) \/ p = word.pp
         /\ RolesOf(n)
         /\ \A p \in Page :
              /\ DirRefs(n, p) = DirRefs(m, p)
              /\ EntryRefs(n, p) = IF p = word.pp THEN EntryRefs(m, p) \cup {<<t, y>>}
                                   ELSE EntryRefs(m, p) \ {<<t, y>>}
<1>1. Dirs(m) \subseteq Page /\ Tables(m) \subseteq Page /\ Dirs(m) \cap Tables(m) = {}
  BY RoleTypes DEF RolesOf
<1>2. Dirs(n) = Dirs(m)
  BY DEF Dirs
<1>3. \A q \in Dirs(m), i \in Idx : n.mem[q][i] = m.mem[q][i]
  BY <1>1
<1>4. Tables(n) = Tables(m)
  <2>1. Tables(n) \subseteq Tables(m)
    BY <1>2, <1>3 DEF Tables
  <2>2. Tables(m) \subseteq Tables(n)
    BY <1>2, <1>3 DEF Tables
  <2> QED
    BY <2>1, <2>2
<1>5. \A q \in Tables(m), i \in Idx : n.mem[q][i] = IF q = t /\ i = y THEN word ELSE m.mem[q][i]
  BY <1>1
<1>6. \A p \in Frames(n) : p \in Frames(m) \/ p = word.pp
  BY <1>4, <1>5 DEF Frames
<1>7. RolesOf(n)
  <2>1. \A e, f \in Env : n.env_pgdir[e] # 0 /\ n.env_pgdir[e] = n.env_pgdir[f] => e = f
    BY DEF RolesOf
  <2>2. \A b, c \in Dirs(n), u, v \in Idx :
          Present(n.mem[b][u]) /\ n.mem[b][u].pp = n.mem[c][v].pp => b = c /\ u = v
    BY <1>2, <1>3 DEF RolesOf
  <2>3. Frames(n) \cap (Dirs(n) \cup Tables(n)) = {}
    BY <1>2, <1>4, <1>6 DEF RolesOf
  <2> QED
    BY <1>1, <1>2, <1>4, <2>1, <2>2, <2>3 DEF RolesOf
<1>8. ASSUME NEW p \in Page
      PROVE  /\ DirRefs(n, p) = DirRefs(m, p)
             /\ EntryRefs(n, p) = IF p = word.pp THEN EntryRefs(m, p) \cup {<<t, y>>}
                                  ELSE EntryRefs(m, p) \ {<<t, y>>}
  <2>1. DirRefs(n, p) = DirRefs(m, p)
    BY DEF DirRefs
  <2> DEFINE L == (Dirs(m) \cup Tables(m)) \X Idx
  <2>2. EntryRefs(n, p) = {s \in L : n.mem[s[1]][s[2]].pp = p}
    BY <1>2, <1>4 DEF EntryRefs
  <2>3. EntryRefs(m, p) = {s \in L : m.mem[s[1]][s[2]].pp = p}
    BY DEF EntryRefs
  <2>4. \A s \in L : n.mem[s[1]][s[2]] = IF s = <<t, y>> THEN word ELSE m.mem[s[1]][s[2]]
    BY <1>1
  <2>5. <<t, y>> \in L
    OBVIOUS
  <2> QED
    BY <2>1, <2>2, <2>3, <2>4, <2>5
<1> QED
  BY <1>1, <1>2, <1>4, <1>6, <1>7, <1>8

-----------------------------------------------------------------------------
(* page_decref.                                                              *)

\* What page_decref changes.
LEMMA DecrefFields ==
  ASSUME NEW m \in KMem, NEW p \in Page, m.pp_ref[p] # 0
  PROVE  LET n == page_decref(m, p)
         IN  /\ n \in KMem
             /\ n.mem = m.mem
             /\ n.env_pgdir = m.env_pgdir
             /\ n.pp_ref = [m.pp_ref EXCEPT ![p] = m.pp_ref[p] - 1]
             /\ n.page_free_list = IF m.pp_ref[p] = 1 THEN <<p>> \o m.page_free_list
                                   ELSE m.page_free_list
<1> DEFINE c == Decrement(m, p)
<1>1. m.pp_ref[p] \in 1 .. RefMod - 1
  BY RefAssumption DEF KMem
<1>2. (m.pp_ref[p] + RefMod - 1) % RefMod = m.pp_ref[p] - 1
  <2> DEFINE r == m.pp_ref[p]
  <2>1. r \in 1 .. RefMod - 1 /\ RefMod \in Nat /\ RefMod > 1
    BY <1>1, RefAssumption
  <2> HIDE DEF r
  <2>2. (r + RefMod - 1) % RefMod = r - 1
    BY <2>1
  <2> QED
    BY <2>2 DEF r
<1>3. /\ c \in KMem
      /\ c.mem = m.mem /\ c.env_pgdir = m.env_pgdir
      /\ c.page_free_list = m.page_free_list
      /\ c.pp_ref = [m.pp_ref EXCEPT ![p] = m.pp_ref[p] - 1]
  BY <1>2, CountType DEF Decrement, KMem
<1>4. c.pp_ref[p] = m.pp_ref[p] - 1
  BY <1>3 DEF KMem
<1>5. page_decref(m, p) = IF c.pp_ref[p] = 0 THEN [c EXCEPT !.page_free_list = <<p>> \o @] ELSE c
  BY DEF page_decref, page_free
<1>6. page_decref(m, p) \in KMem
  BY DecrefType
<1> HIDE DEF c
<1>7. CASE m.pp_ref[p] = 1
  <2>1. page_decref(m, p) = [c EXCEPT !.page_free_list = <<p>> \o c.page_free_list]
    BY <1>4, <1>5, <1>7
  <2> DEFINE r == <<p>> \o c.page_free_list
  <2> HIDE DEF r
  <2>2. LET n == [c EXCEPT !.page_free_list = r]
        IN  /\ n.mem = c.mem /\ n.env_pgdir = c.env_pgdir
            /\ n.pp_ref = c.pp_ref /\ n.page_free_list = r
    BY <1>3 DEF KMem
  <2> QED
    BY <1>3, <1>6, <1>7, <2>1, <2>2 DEF r
<1>8. CASE m.pp_ref[p] # 1
  <2>1. page_decref(m, p) = c
    BY <1>1, <1>4, <1>5, <1>8
  <2> QED
    BY <1>3, <1>8, <2>1
<1> QED
  BY <1>7, <1>8

\* page_decref keeps the free list exact.
LEMMA DecrefList ==
  ASSUME NEW m \in KMem, NEW out, FreeListOf(m, out), NEW p \in Page, m.pp_ref[p] # 0,
         NEW n \in KMem,
         n.pp_ref = [m.pp_ref EXCEPT ![p] = m.pp_ref[p] - 1],
         n.page_free_list = IF m.pp_ref[p] = 1 THEN <<p>> \o m.page_free_list
                            ELSE m.page_free_list
  PROVE  /\ FreeListOf(n, out)
         /\ \A q \in OnList(n) : q \in OnList(m) \/ q = p
<1>1. \A q \in Page : n.pp_ref[q] = IF q = p THEN m.pp_ref[p] - 1 ELSE m.pp_ref[q]
  BY DEF KMem
<1>2. m.pp_ref[p] \in Nat /\ p \notin OnList(m) /\ p \notin out
  BY RefAssumption DEF KMem, FreeListOf
<1>3. CASE m.pp_ref[p] = 1
  <2> DEFINE l == m.page_free_list
             r == <<p>> \o l
  <2>1. l \in Seq(Page) /\ \A i \in DOMAIN l : l[i] # p
    BY <1>2 DEF KMem, OnList
  <2>2. \A i, j \in DOMAIN l : l[i] = l[j] => i = j
    BY DEF FreeListOf
  <2>3. /\ {r[i] : i \in DOMAIN r} = {l[i] : i \in DOMAIN l} \cup {p}
        /\ \A i, j \in DOMAIN r : r[i] = r[j] => i = j
    BY <2>1, <2>2, PushList
  <2>4. n.page_free_list = r
    BY <1>3
  <2> HIDE DEF r
  <2>5. OnList(n) = OnList(m) \cup {p}
    <3>1. \A q : q \in OnList(n) <=> \E i \in DOMAIN r : r[i] = q
      BY <2>4 DEF OnList
    <3>2. \A q : q \in OnList(m) <=> \E i \in DOMAIN l : l[i] = q
      BY DEF OnList
    <3> HIDE DEF l
    <3> QED
      BY <2>3, <3>1, <3>2
  <2>6. \A i, j \in DOMAIN n.page_free_list :
          n.page_free_list[i] = n.page_free_list[j] => i = j
    BY <2>3, <2>4
  <2>7. OnList(n) \cap out = {}
    BY <1>2, <2>5 DEF FreeListOf
  <2>8. \A q \in Page : n.pp_ref[q] = 0 <=> q \in OnList(n) \cup out
    BY <1>1, <1>3, <2>5 DEF FreeListOf
  <2> QED
    BY <2>5, <2>6, <2>7, <2>8 DEF FreeListOf
<1>4. CASE m.pp_ref[p] # 1
  <2>1. n.page_free_list = m.page_free_list
    BY <1>4
  <2>2. OnList(n) = OnList(m)
    BY <2>1 DEF OnList
  <2> QED
    BY <1>1, <1>2, <1>4, <2>1, <2>2 DEF FreeListOf
<1> QED
  BY <1>3, <1>4

-----------------------------------------------------------------------------
(* page_remove and page_insert.                                              *)

\* page_remove keeps reference counts, the free list and the roles exact: it frees the
\* page just when the entry was the last pointer to it, and no other.
THEOREM RemoveGood ==
  ASSUME NEW m, NEW out, Good(m, out), NEW d \in Dirs(m), NEW va \in Idx \X Idx
  PROVE  LET n == page_remove(m, d, va)
             old == page_lookup(m, d, va)
         IN  /\ Good(n, out)
             /\ n.env_pgdir = m.env_pgdir
             /\ Dirs(n) = Dirs(m) /\ Tables(n) = Tables(m)
             /\ \A q \in OnList(n) : q \in OnList(m) \/ q = old.pp
             /\ \A q \in Page, i \in Idx :
                  n.mem[q][i] = IF Present(old) /\ q = m.mem[d][va[1]].pp /\ i = va[2]
                                THEN NotPresent ELSE m.mem[q][i]
<1> DEFINE n == page_remove(m, d, va)
           old == page_lookup(m, d, va)
           t == m.mem[d][va[1]].pp
           y == va[2]
<1>1. m \in KMem /\ d \in Page /\ va[1] \in Idx /\ y \in Idx
  BY RoleTypes DEF Good
<1>2. CASE ~Present(old)
  <2>1. n = m
    BY <1>2 DEF page_remove
  <2> QED
    BY <1>2, <2>1
<1>3. CASE Present(old)
  <2>1. Present(m.mem[d][va[1]]) /\ old = m.mem[t][y]
    BY <1>3 DEF page_lookup, NotPresent, Present
  <2>2. t \in Tables(m) /\ t \in Page
    BY <1>1, <2>1, RoleTypes DEF Tables, Present
  <2>3. old.pp \in Frames(m)
    <3> HIDE DEF old, t, y
    <3>1. m.mem[t][y].pp \in Frames(m) \/ m.mem[t][y].pp = 0
      BY <1>1, <2>2 DEF Frames
    <3> QED
      BY <1>3, <2>1, <3>1 DEF Present
  <2>4. old.pp \in Page /\ m.pp_ref[old.pp] # 0
    BY <2>3, ReferencedNotFree
  <2> DEFINE b == page_decref(m, old.pp)
  <2>5. /\ b \in KMem /\ b.mem = m.mem /\ b.env_pgdir = m.env_pgdir
        /\ b.pp_ref = [m.pp_ref EXCEPT ![old.pp] = m.pp_ref[old.pp] - 1]
        /\ b.page_free_list = IF m.pp_ref[old.pp] = 1 THEN <<old.pp>> \o m.page_free_list
                              ELSE m.page_free_list
    BY <1>1, <2>4, DecrefFields
  <2>6. n = PutEntry(b, t, y, NotPresent)
    BY <1>3 DEF page_remove
  <2> HIDE DEF b, n, old, t, y
  <2>7. /\ n \in KMem
        /\ n.page_free_list = b.page_free_list /\ n.pp_ref = b.pp_ref
        /\ n.env_pgdir = m.env_pgdir
        /\ \A q \in Page, i \in Idx :
             n.mem[q][i] = IF q = t /\ i = y THEN NotPresent ELSE m.mem[q][i]
    <3>0. b \in KMem /\ t \in Page /\ y \in Idx /\ NotPresent \in Word
      BY <1>1, <2>2, <2>5, WordType
    <3>1. LET v == PutEntry(b, t, y, NotPresent)
          IN  /\ v.page_free_list = b.page_free_list /\ v.pp_ref = b.pp_ref
              /\ v.env_pgdir = b.env_pgdir
              /\ \A q \in Page, i \in Idx :
                   v.mem[q][i] = IF q = t /\ i = y THEN NotPresent ELSE b.mem[q][i]
      BY <3>0, PutEntryFields
    <3>2. PutEntry(b, t, y, NotPresent) \in KMem
      BY <3>0, PutEntryType
    <3> QED
      BY <2>5, <2>6, <3>1, <3>2
  <2>8. FreeListOf(n, out) /\ \A q \in OnList(n) : q \in OnList(m) \/ q = old.pp
    BY <1>1, <2>4, <2>5, <2>7, DecrefList DEF Good
  <2>9. NotPresent.pp = 0 /\ 0 \notin Page /\ NotPresent \in Word
    BY WordType DEF NotPresent, Page
  <2>10. 0 \notin Dirs(m) \cup Tables(m)
    BY <1>1, <2>9, RoleTypes
  <2>11. /\ Dirs(n) = Dirs(m) /\ Tables(n) = Tables(m) /\ RolesOf(n)
         /\ \A p \in Page : /\ DirRefs(n, p) = DirRefs(m, p)
                            /\ EntryRefs(n, p) = EntryRefs(m, p) \ {<<t, y>>}
    BY <1>1, <2>2, <2>7, <2>9, <2>10, TableWrite DEF Good
  <2>12. RefCountOf(n)
    <3> SUFFICES ASSUME NEW p \in Page
                 PROVE  n.pp_ref[p] = Cardinality(DirRefs(n, p)) + Cardinality(EntryRefs(n, p))
      BY DEF RefCountOf
    <3>1. /\ IsFiniteSet(EntryRefs(m, p)) /\ Cardinality(EntryRefs(m, p)) \in Nat
          /\ Cardinality(DirRefs(m, p)) \in Nat
      BY <1>1, RefsFinite
    <3>2. <<t, y>> \in EntryRefs(m, p) <=> p = old.pp
      BY <1>1, <2>1, <2>2 DEF EntryRefs
    <3>3. Cardinality(EntryRefs(n, p))
            = IF p = old.pp THEN Cardinality(EntryRefs(m, p)) - 1 ELSE Cardinality(EntryRefs(m, p))
      <4>1. Cardinality(EntryRefs(m, p) \ {<<t, y>>})
              = IF <<t, y>> \in EntryRefs(m, p) THEN Cardinality(EntryRefs(m, p)) - 1
                ELSE Cardinality(EntryRefs(m, p))
        BY <3>1, FS_RemoveElement
      <4> QED
        BY <2>11, <3>2, <4>1
    <3>4. m.pp_ref[p] = Cardinality(DirRefs(m, p)) + Cardinality(EntryRefs(m, p))
      BY DEF Good, RefCountOf
    <3>5. n.pp_ref[p] = IF p = old.pp THEN m.pp_ref[p] - 1 ELSE m.pp_ref[p]
      <4> DEFINE o == old.pp
                 f == m.pp_ref
      <4>1. f \in [Page -> 0 .. RefMod - 1] /\ o \in Page /\ n.pp_ref = [f EXCEPT ![o] = f[o] - 1]
        BY <1>1, <2>4, <2>5, <2>7 DEF KMem
      <4> HIDE DEF o, f
      <4>2. n.pp_ref[p] = IF p = o THEN f[p] - 1 ELSE f[p]
        BY <4>1
      <4> QED
        BY <4>2 DEF o, f
    <3> QED
      BY <2>11, <3>1, <3>3, <3>4, <3>5
  <2>13. Good(n, out)
    BY <2>7, <2>8, <2>11, <2>12 DEF Good
  <2> QED
    BY <1>3, <2>7, <2>8, <2>11, <2>13 DEF n, old, t, y
<1> QED
  BY <1>2, <1>3

\* The pointers to each page are few enough for pp_ref to count them.  sys_page_map
\* puts no limit on them, so this is a hypothesis and not a consequence.
FitsOf(m) == \A p \in Page : Cardinality(EntryRefs(m, p)) < RefMod

\* A new mapping of a page that is not a table, in an entry that is not present.
LEMMA AddGood ==
  ASSUME NEW m, NEW out, Good(m, out),
         NEW t \in Tables(m), NEW y \in Idx, ~Present(m.mem[t][y]),
         NEW p \in Page, p \notin Dirs(m), p \notin Tables(m), p \notin OnList(m),
         NEW w \in BOOLEAN,
         FitsOf(PutEntry(Increment(m, p), t, y, [pp |-> p, w |-> w]))
  PROVE  LET n == PutEntry(Increment(m, p), t, y, [pp |-> p, w |-> w])
         IN  /\ Good(n, out \ {p})
             /\ n.env_pgdir = m.env_pgdir
             /\ \A q \in Page, i \in Idx :
                  n.mem[q][i] = IF q = t /\ i = y THEN [pp |-> p, w |-> w] ELSE m.mem[q][i]
<1> DEFINE word == [pp |-> p, w |-> w]
           b == Increment(m, p)
           n == PutEntry(b, t, y, word)
<1>1. m \in KMem /\ t \in Page
  BY RoleTypes DEF Good
<1>2. word \in Word /\ word.pp = p
  BY DEF Word, Page
<1> HIDE DEF word
<1>3. b \in KMem
  BY <1>1, CountType
<1>4. /\ b.mem = m.mem /\ b.env_pgdir = m.env_pgdir /\ b.page_free_list = m.page_free_list
      /\ b.pp_ref = [m.pp_ref EXCEPT ![p] = (m.pp_ref[p] + 1) % RefMod]
  BY <1>1 DEF Increment, KMem
<1> HIDE DEF b
<1>5. /\ n \in KMem
      /\ n.page_free_list = m.page_free_list /\ n.pp_ref = b.pp_ref
      /\ n.env_pgdir = m.env_pgdir
      /\ \A q \in Page, i \in Idx : n.mem[q][i] = IF q = t /\ i = y THEN word ELSE m.mem[q][i]
  BY <1>1, <1>2, <1>3, <1>4, PutEntryType, PutEntryFields
<1> HIDE DEF n
<1>6. /\ RolesOf(n)
      /\ \A q \in Page :
           /\ DirRefs(n, q) = DirRefs(m, q)
           /\ EntryRefs(n, q) = IF q = word.pp THEN EntryRefs(m, q) \cup {<<t, y>>}
                                ELSE EntryRefs(m, q) \ {<<t, y>>}
  BY <1>1, <1>2, <1>5, TableWrite DEF Good
<1>7. m.mem[t][y].pp = 0 /\ 0 \notin Page
  BY DEF Present, Page
<1>8. \A q \in Page : <<t, y>> \notin EntryRefs(m, q)
  BY <1>7 DEF EntryRefs
<1>9. \A q \in Page : EntryRefs(n, q) = IF q = p THEN EntryRefs(m, q) \cup {<<t, y>>}
                                        ELSE EntryRefs(m, q)
  BY <1>2, <1>6, <1>8
<1>10. /\ IsFiniteSet(EntryRefs(m, p)) /\ Cardinality(EntryRefs(m, p)) \in Nat
       /\ Cardinality(EntryRefs(n, p)) < RefMod
  BY <1>1, <1>5, RefsFinite DEF FitsOf, n, b, word
<1>11. Cardinality(EntryRefs(n, p)) = Cardinality(EntryRefs(m, p)) + 1
  BY <1>8, <1>9, <1>10, FS_AddElement
<1>12. Cardinality(DirRefs(m, p)) = 0
  <2>1. DirRefs(m, p) = {}
    BY <1>7 DEF DirRefs, Dirs
  <2> QED
    BY <2>1, FS_EmptySet
<1>13. m.pp_ref[p] = Cardinality(EntryRefs(m, p))
  BY <1>10, <1>12 DEF Good, RefCountOf
<1>14. m.pp_ref[p] + 1 < RefMod
  BY <1>10, <1>11, <1>13
<1>15. (m.pp_ref[p] + 1) % RefMod = m.pp_ref[p] + 1
  BY <1>10, <1>13, <1>14, RefAssumption
<1>16. \A q \in Page : n.pp_ref[q] = IF q = p THEN m.pp_ref[p] + 1 ELSE m.pp_ref[q]
  BY <1>1, <1>4, <1>5, <1>15 DEF KMem
<1>17. RefCountOf(n)
  <2> SUFFICES ASSUME NEW q \in Page
               PROVE  n.pp_ref[q] = Cardinality(DirRefs(n, q)) + Cardinality(EntryRefs(n, q))
    BY DEF RefCountOf
  <2>1. CASE q = p
    BY <1>6, <1>10, <1>11, <1>12, <1>13, <1>16, <2>1
  <2>2. CASE q # p
    BY <1>6, <1>9, <1>16, <2>2 DEF Good, RefCountOf
  <2> QED
    BY <2>1, <2>2
<1>18. OnList(n) = OnList(m)
  BY <1>5 DEF OnList
<1>19. FreeListOf(n, out \ {p})
  BY <1>5, <1>10, <1>13, <1>16, <1>18 DEF FreeListOf, Good
<1> QED
  BY <1>5, <1>6, <1>17, <1>19 DEF Good, n, b, word
=============================================================================
