-------------------------- MODULE PmapSafetyProofs --------------------------
(***************************************************************************)
(* The safety invariants of Pmap for every number of pages, environments   *)
(* and addresses: what each function of kern/pmap.c does to the memory,    *)
(* seen through page_lookup, then one lemma per step of the kernel, and    *)
(* the invariants along every behaviour of the specification.              *)
(***************************************************************************)
EXTENDS PmapProofs


-----------------------------------------------------------------------------
(* The memory as page_lookup shows it.                                       *)

\* A present directory entry leads to a page table.
LEMMA TableOf ==
  ASSUME NEW m \in KMem, NEW d \in Dirs(m), NEW x \in Idx, Present(m.mem[d][x])
  PROVE  m.mem[d][x].pp \in Tables(m) /\ m.mem[d][x].pp \in Page
<1>1. m.mem[d][x].pp \in Tables(m)
  BY DEF Tables, Present
<1> QED
  BY <1>1, RoleTypes

\* The frames are the pages that page_lookup can find.
LEMMA FramesLookup ==
  ASSUME NEW m \in KMem, NEW p
  PROVE  p \in Frames(m) <=>
           p # 0 /\ \E d \in Dirs(m), u \in Idx \X Idx : page_lookup(m, d, u).pp = p
<1>1. ASSUME p \in Frames(m)
      PROVE  p # 0 /\ \E d \in Dirs(m), u \in Idx \X Idx : page_lookup(m, d, u).pp = p
  <2>1. PICK t \in Tables(m), y \in Idx : m.mem[t][y].pp = p /\ p # 0
    BY <1>1 DEF Frames
  <2>2. PICK d \in Dirs(m), x \in Idx : m.mem[d][x].pp = t /\ t # 0
    BY DEF Tables
  <2>3. page_lookup(m, d, <<x, y>>).pp = p /\ <<x, y>> \in Idx \X Idx
    BY <2>1, <2>2 DEF page_lookup, Present
  <2> QED
    BY <2>1, <2>3
<1>2. ASSUME p # 0, NEW d \in Dirs(m), NEW u \in Idx \X Idx, page_lookup(m, d, u).pp = p
      PROVE  p \in Frames(m)
  <2>1. u[1] \in Idx /\ u[2] \in Idx
    OBVIOUS
  <2>2. Present(m.mem[d][u[1]]) /\ m.mem[m.mem[d][u[1]].pp][u[2]].pp = p
    BY <1>2 DEF page_lookup, NotPresent
  <2>3. m.mem[d][u[1]].pp \in Tables(m)
    BY <2>1, <2>2, TableOf
  <2> QED
    BY <1>2, <2>1, <2>2, <2>3 DEF Frames
<1> QED
  BY <1>1, <1>2

\* The words of memory n are those of m but for word number y of page t.
Written(m, n, t, y, word) ==
  \A q \in Page, i \in Idx : n.mem[q][i] = IF q = t /\ i = y THEN word ELSE m.mem[q][i]

\* Address va of directory d now shows word, all other addresses what they showed in m.
View(m, n, d, va, word) ==
  \A c \in Dirs(m), u \in Idx \X Idx :
    page_lookup(n, c, u) = IF c = d /\ u = va THEN word ELSE page_lookup(m, c, u)

\* Every address of the directories of m shows what it did.
SameView(m, n) ==
  \A c \in Dirs(m), u \in Idx \X Idx : page_lookup(n, c, u) = page_lookup(m, c, u)

\* The pages that are neither directory, table nor free hold what they did.
Kept(m, n) ==
  \A q \in Page \ (Dirs(m) \cup Tables(m) \cup OnList(m)), i \in Idx : n.mem[q][i] = m.mem[q][i]

\* One word of a page table is one address of one directory.
LEMMA TableWriteView ==
  ASSUME NEW m \in KMem, NEW n \in KMem, RolesOf(m),
         NEW d \in Dirs(m), NEW x \in Idx, NEW y \in Idx, NEW word \in Word, Present(m.mem[d][x]),
         Written(m, n, m.mem[d][x].pp, y, word)
  PROVE  View(m, n, d, <<x, y>>, word)
<1> SUFFICES ASSUME NEW c \in Dirs(m), NEW u \in Idx \X Idx
             PROVE  page_lookup(n, c, u)
                      = IF c = d /\ u = <<x, y>> THEN word ELSE page_lookup(m, c, u)
  BY DEF View
<1> DEFINE t == m.mem[d][x].pp
           v == u[1]
           z == u[2]
<1>1. u = <<v, z>> /\ v \in Idx /\ z \in Idx
  OBVIOUS
<1>2. t \in Tables(m) /\ t \in Page
  BY TableOf
<1>3. c \in Page /\ c # t
  BY <1>2, RoleTypes DEF RolesOf
<1>4. n.mem[c][v] = m.mem[c][v]
  BY <1>1, <1>3 DEF Written
<1>5. CASE ~Present(m.mem[c][v])
  BY <1>1, <1>4, <1>5 DEF page_lookup
<1>6. CASE Present(m.mem[c][v])
  <2>1. m.mem[c][v].pp \in Page
    BY <1>1, <1>6, TableOf
  <2>2. m.mem[c][v].pp = t <=> c = d /\ v = x
    BY <1>1, <1>6 DEF RolesOf
  <2>3. page_lookup(n, c, u) = n.mem[m.mem[c][v].pp][z]
        /\ page_lookup(m, c, u) = m.mem[m.mem[c][v].pp][z]
    BY <1>4, <1>6 DEF page_lookup
  <2>4. n.mem[m.mem[c][v].pp][z]
          = IF m.mem[c][v].pp = t /\ z = y THEN word ELSE m.mem[m.mem[c][v].pp][z]
    BY <1>1, <2>1 DEF Written
  <2> QED
    BY <1>1, <2>2, <2>3, <2>4
<1> QED
  BY <1>5, <1>6

\* Pages outside the page tables do not count: memories that agree on directories and
\* tables agree on every address.
LEMMA UntouchedView ==
  ASSUME NEW m \in KMem, NEW n \in KMem,
         \A q \in Dirs(m) \cup Tables(m), i \in Idx : n.mem[q][i] = m.mem[q][i]
  PROVE  SameView(m, n)
<1> SUFFICES ASSUME NEW d \in Dirs(m), NEW u \in Idx \X Idx
             PROVE  page_lookup(n, d, u) = page_lookup(m, d, u)
  BY DEF SameView
<1>1. u[1] \in Idx /\ u[2] \in Idx
  OBVIOUS
<1>2. n.mem[d][u[1]] = m.mem[d][u[1]]
  BY <1>1
<1>3. Present(m.mem[d][u[1]]) => m.mem[d][u[1]].pp \in Tables(m)
  BY <1>1, TableOf
<1> QED
  BY <1>1, <1>2, <1>3 DEF page_lookup

-----------------------------------------------------------------------------
(* pgdir_walk, page_remove and page_insert.                                  *)

\* Contents of pages that are equal word by word are equal.
LEMMA SamePage ==
  ASSUME NEW m \in KMem, NEW n \in KMem, NEW q \in Page,
         \A i \in Idx : n.mem[q][i] = m.mem[q][i]
  PROVE  n.mem[q] = m.mem[q]
<1>1. m.mem[q] \in [Idx -> Word] /\ n.mem[q] \in [Idx -> Word]
  BY DEF KMem
<1> QED
  BY <1>1

\* A table that pgdir_walk makes is empty: no address changes, and no page but the
\* directory and the one it takes.
LEMMA WalkView ==
  ASSUME NEW m, NEW out, Good(m, out), NEW d \in Dirs(m), NEW x \in Idx
  PROVE  LET n == pgdir_walk(m, d, x)
         IN  SameView(m, n) /\ Kept(m, n) /\ (Present(n.mem[d][x]) \/ n = m)
<1> DEFINE n == pgdir_walk(m, d, x)
           t == Head(m.page_free_list)
<1>1. m \in KMem /\ d \in Page
  BY RoleTypes DEF Good
<1>2. CASE Present(m.mem[d][x]) \/ m.page_free_list = <<>>
  <2>1. n = m
    BY <1>2 DEF pgdir_walk
  <2> QED
    BY <2>1 DEF SameView, Kept
<1>3. CASE ~Present(m.mem[d][x]) /\ m.page_free_list # <<>>
  <2>1. t \in Page /\ t \in OnList(m)
    BY <1>1, <1>3, PopList DEF Good, FreeListOf
  <2>2. t \notin Dirs(m) /\ t \notin Tables(m) /\ t # d
    BY <2>1, ReferencedNotFree
  <2>3. /\ n.page_free_list = Tail(m.page_free_list)
        /\ n.pp_ref = [m.pp_ref EXCEPT ![t] = 1]
        /\ n.env_pgdir = m.env_pgdir
        /\ \A q \in Page, i \in Idx :
             n.mem[q][i] = IF q = d /\ i = x THEN [pp |-> t, w |-> TRUE]
                           ELSE IF q = t THEN NotPresent ELSE m.mem[q][i]
    BY <1>1, <1>3, <2>2, WalkFields
  <2> HIDE DEF n, t
  <2>4. t # 0
    BY <2>1 DEF Page
  <2>5. ASSUME NEW c \in Dirs(m), NEW u \in Idx \X Idx
        PROVE  page_lookup(n, c, u) = page_lookup(m, c, u)
    <3>1. u[1] \in Idx /\ u[2] \in Idx /\ c \in Page /\ c # t
      BY <1>1, <2>2, RoleTypes
    <3>2. CASE c = d /\ u[1] = x
      <4>1. n.mem[c][u[1]] = [pp |-> t, w |-> TRUE]
        BY <2>3, <3>1, <3>2
      <4>2. n.mem[t][u[2]] = NotPresent
        BY <2>1, <2>2, <2>3, <3>1
      <4> QED
        BY <1>3, <2>4, <3>2, <4>1, <4>2 DEF page_lookup, Present
    <3>3. CASE ~(c = d /\ u[1] = x)
      <4>1. n.mem[c][u[1]] = m.mem[c][u[1]]
        BY <2>3, <3>1, <3>3
      <4>2. ASSUME Present(m.mem[c][u[1]])
            PROVE  n.mem[m.mem[c][u[1]].pp][u[2]] = m.mem[m.mem[c][u[1]].pp][u[2]]
        <5>1. m.mem[c][u[1]].pp \in Tables(m) /\ m.mem[c][u[1]].pp \in Page
          BY <1>1, <3>1, <4>2, TableOf
        <5>2. d \notin Tables(m)
          BY DEF Good, RolesOf
        <5> QED
          BY <2>2, <2>3, <3>1, <5>1, <5>2
      <4> QED
        BY <4>1, <4>2 DEF page_lookup
    <3> QED
      BY <3>2, <3>3
  <2>6. n.mem[d][x] = [pp |-> t, w |-> TRUE]
    BY <1>1, <2>3
  <2> QED
    BY <2>1, <2>3, <2>4, <2>5, <2>6 DEF n, Present, SameView, Kept
<1> QED
  BY <1>2, <1>3

\* page_remove empties one address, and touches no page but a table.
LEMMA RemoveView ==
  ASSUME NEW m, NEW out, Good(m, out), NEW d \in Dirs(m), NEW va \in Idx \X Idx
  PROVE  LET n == page_remove(m, d, va)
         IN  /\ IF Present(page_lookup(m, d, va)) THEN View(m, n, d, va, NotPresent) ELSE n = m
             /\ Kept(m, n)
<1> DEFINE n == page_remove(m, d, va)
           old == page_lookup(m, d, va)
           x == va[1]
           y == va[2]
           t == m.mem[d][x].pp
<1>1. m \in KMem /\ va = <<x, y>> /\ x \in Idx /\ y \in Idx
  BY DEF Good
<1>2. CASE ~Present(old)
  <2>1. n = m
    BY <1>2 DEF page_remove
  <2> QED
    BY <1>2, <2>1 DEF Kept
<1>3. CASE Present(old)
  <2>1. Present(m.mem[d][x])
    BY <1>3 DEF page_lookup, NotPresent, Present
  <2>2. Written(m, n, t, y, NotPresent)
    <3>1. \A q \in Page, i \in Idx :
            n.mem[q][i] = IF Present(old) /\ q = m.mem[d][va[1]].pp /\ i = va[2]
                          THEN NotPresent ELSE m.mem[q][i]
      BY RemoveGood
    <3> QED
      BY <1>3, <3>1 DEF Written
  <2>3. t \in Tables(m)
    BY <1>1, <2>1, TableOf
  <2>4. RolesOf(m) /\ n \in KMem /\ NotPresent \in Word
    BY <1>1, RoleTypes, RemoveType, WordType DEF Good
  <2> HIDE DEF n, x, y
  <2>5. View(m, n, d, <<x, y>>, NotPresent)
    BY <1>1, <2>1, <2>2, <2>4, TableWriteView
  <2>6. Kept(m, n)
    BY <2>2, <2>3 DEF Written, Kept
  <2> QED
    BY <1>1, <1>3, <2>5, <2>6 DEF n
<1> QED
  BY <1>2, <1>3

\* Mapping a page again where it is already mapped: the count ends where it was.
LEMMA ReplaceGood ==
  ASSUME NEW m, NEW out, Good(m, out), NEW t \in Tables(m), NEW y \in Idx,
         NEW p \in Page, m.mem[t][y].pp = p, NEW w \in BOOLEAN
  PROVE  LET n == PutEntry(Increment(Decrement(m, p), p), t, y, [pp |-> p, w |-> w])
         IN  /\ Good(n, out \ {p})
             /\ n.env_pgdir = m.env_pgdir
             /\ Written(m, n, t, y, [pp |-> p, w |-> w])
<1> DEFINE word == [pp |-> p, w |-> w]
           a == Decrement(m, p)
           b == Increment(a, p)
           n == PutEntry(b, t, y, word)
<1>1. m \in KMem /\ t \in Page
  BY RoleTypes DEF Good
<1>2. word \in Word /\ word.pp = p
  BY DEF Word, Page
<1> HIDE DEF word
<1>3. p # 0 /\ p \in Frames(m)
  BY DEF Page, Frames
<1>4. m.pp_ref[p] # 0 /\ p \notin out /\ p \notin Dirs(m) /\ p \notin Tables(m)
  BY <1>3, ReferencedNotFree DEF Good, RolesOf
<1>5. a \in KMem /\ b \in KMem
  BY <1>1, CountType
<1>6. b.mem = m.mem /\ b.env_pgdir = m.env_pgdir /\ b.page_free_list = m.page_free_list
  BY <1>1 DEF Increment, Decrement, KMem
<1>7. b.pp_ref = m.pp_ref
  <2> DEFINE f == m.pp_ref
             c == f[p]
  <2>1. f \in [Page -> 0 .. RefMod - 1] /\ c \in 1 .. RefMod - 1
    BY <1>1, <1>4, RefAssumption DEF KMem
  <2>2. a.pp_ref = [f EXCEPT ![p] = (c + RefMod - 1) % RefMod]
    BY <1>1 DEF Decrement, KMem
  <2>3. b.pp_ref = [a.pp_ref EXCEPT ![p] = (a.pp_ref[p] + 1) % RefMod]
    BY <1>5 DEF Increment, KMem
  <2> HIDE DEF a, b, c
  <2>4. (c + RefMod - 1) % RefMod = c - 1 /\ (c - 1 + 1) % RefMod = c
    BY <2>1, RefAssumption
  <2> HIDE DEF f
  <2>5. b.pp_ref = f
    BY <2>1, <2>2, <2>3, <2>4 DEF c
  <2> QED
    BY <2>5 DEF f, b
<1> HIDE DEF b
<1>8. /\ n \in KMem
      /\ n.page_free_list = m.page_free_list /\ n.pp_ref = m.pp_ref
      /\ n.env_pgdir = m.env_pgdir
      /\ \A q \in Page, i \in Idx : n.mem[q][i] = IF q = t /\ i = y THEN word ELSE m.mem[q][i]
  BY <1>1, <1>2, <1>5, <1>6, <1>7, PutEntryType, PutEntryFields
<1> HIDE DEF n
<1>9. /\ RolesOf(n)
      /\ \A q \in Page :
           /\ DirRefs(n, q) = DirRefs(m, q)
           /\ EntryRefs(n, q) = IF q = word.pp THEN EntryRefs(m, q) \cup {<<t, y>>}
                                ELSE EntryRefs(m, q) \ {<<t, y>>}
  BY <1>1, <1>2, <1>4, <1>8, TableWrite DEF Good
<1>10. \A q \in Page : <<t, y>> \in EntryRefs(m, q) <=> q = p
  BY DEF EntryRefs
<1>11. \A q \in Page : EntryRefs(n, q) = EntryRefs(m, q)
  BY <1>2, <1>9, <1>10
<1>12. RefCountOf(n)
  BY <1>8, <1>9, <1>11 DEF Good, RefCountOf
<1>13. OnList(n) = OnList(m) /\ out \ {p} = out
  BY <1>4, <1>8 DEF OnList
<1>14. FreeListOf(n, out \ {p})
  BY <1>8, <1>13 DEF FreeListOf, Good
<1>15. Good(n, out \ {p})
  BY <1>8, <1>9, <1>12, <1>14 DEF Good
<1> QED
  BY <1>8, <1>15 DEF Written, n, b, word

\* page_insert keeps reference counts, the free list and the roles exact, whether or not
\* the address was mapped, to this page or to another, and also when it fails: then it
\* has changed nothing.
THEOREM InsertGood ==
  ASSUME NEW m, NEW out, Good(m, out), NEW d \in Dirs(m), NEW va \in Idx \X Idx,
         NEW p \in Page, p \notin Dirs(m), p \notin Tables(m), p \notin OnList(m),
         NEW w \in BOOLEAN, FitsOf(page_insert(m, p, d, va, w))
  PROVE  LET r == page_insert(m, p, d, va, w)
         IN  /\ r.env_pgdir = m.env_pgdir
             /\ Kept(m, r)
             /\ \/ Good(r, out \ {p}) /\ View(m, r, d, va, [pp |-> p, w |-> w])
                \/ r = m /\ ~Present(page_lookup(m, d, va))
<1> DEFINE x == va[1]
           y == va[2]
           n == pgdir_walk(m, d, x)
           t == n.mem[d][x].pp
           old == page_lookup(n, d, va)
           c == IF old.pp = p THEN Decrement(n, p) ELSE page_remove(n, d, va)
           word == [pp |-> p, w |-> w]
           r == page_insert(m, p, d, va, w)
<1>1. m \in KMem /\ va = <<x, y>> /\ x \in Idx /\ y \in Idx
  BY DEF Good
<1>2. /\ Good(n, out)
      /\ n.env_pgdir = m.env_pgdir
      /\ OnList(n) \subseteq OnList(m)
      /\ \A q \in Dirs(n) \cup Tables(n) : q \in Dirs(m) \cup Tables(m) \cup OnList(m)
  BY <1>1, WalkGood
<1>3. SameView(m, n) /\ Kept(m, n) /\ (Present(n.mem[d][x]) \/ n = m)
  BY <1>1, WalkView
<1>4. n \in KMem /\ RolesOf(n)
  BY <1>2 DEF Good
<1>5. Dirs(n) = Dirs(m)
  BY <1>2 DEF Dirs
<1>6. r = IF Present(n.mem[d][x]) THEN PutEntry(Increment(c, p), t, y, word) ELSE n
  BY DEF page_insert
<1>7. CASE ~Present(n.mem[d][x])
  <2>1. n = m
    BY <1>3, <1>7
  <2>2. r = m
    BY <1>6, <1>7, <2>1
  <2>3. page_lookup(m, d, va) = NotPresent
    BY <1>7, <2>1 DEF page_lookup
  <2> QED
    BY <2>2, <2>3 DEF Kept, Present, NotPresent
<1>8. CASE Present(n.mem[d][x])
  <2>1. t \in Tables(n) /\ t \in Page /\ d \in Dirs(n)
    BY <1>1, <1>4, <1>5, <1>8, TableOf
  <2>2. p \notin Dirs(n) /\ p \notin Tables(n) /\ p \notin OnList(n)
    BY <1>2
  <2>3. old = n.mem[t][y]
    BY <1>8 DEF page_lookup
  <2>4. r = PutEntry(Increment(c, p), t, y, word)
    BY <1>6, <1>8
  <2>5. word \in Word
    BY DEF Word, Page
  <2>6. /\ Good(r, out \ {p}) /\ r.env_pgdir = n.env_pgdir
        /\ \A q \in Page, i \in Idx : q # t \/ i # y => r.mem[q][i] = n.mem[q][i]
        /\ r.mem[t][y] = word
    <3>1. CASE old.pp = p
      <4>1. c = Decrement(n, p) /\ n.mem[t][y].pp = p
        BY <2>3, <3>1
      <4> HIDE DEF n, t, old, c, r, x, y
      <4>2. LET v == PutEntry(Increment(Decrement(n, p), p), t, y, [pp |-> p, w |-> w])
            IN  /\ Good(v, out \ {p})
                /\ v.env_pgdir = n.env_pgdir
                /\ Written(n, v, t, y, [pp |-> p, w |-> w])
        BY <1>1, <1>2, <2>1, <4>1, ReplaceGood
      <4> QED
        BY <1>1, <2>1, <2>4, <4>1, <4>2 DEF Written
    <3>2. CASE old.pp # p
      <4>1. c = page_remove(n, d, va)
        BY <3>2
      <4>2. /\ Good(c, out)
            /\ c.env_pgdir = n.env_pgdir
            /\ Dirs(c) = Dirs(n) /\ Tables(c) = Tables(n)
            /\ \A q \in OnList(c) : q \in OnList(n) \/ q = old.pp
            /\ \A q \in Page, i \in Idx :
                 c.mem[q][i] = IF Present(old) /\ q = t /\ i = y THEN NotPresent ELSE n.mem[q][i]
        BY <1>2, <2>1, <4>1, RemoveGood
      <4>3. FitsOf(PutEntry(Increment(c, p), t, y, [pp |-> p, w |-> w]))
        BY <2>4
      <4> HIDE DEF n, t, old, c, r, x, y
      <4>4. p \notin OnList(c) /\ p \notin Dirs(c) /\ p \notin Tables(c)
        BY <2>2, <3>2, <4>2
      <4>5. ~Present(c.mem[t][y])
        BY <1>1, <2>1, <2>3, <4>2 DEF Present, NotPresent
      <4>6. LET v == PutEntry(Increment(c, p), t, y, [pp |-> p, w |-> w])
            IN  /\ Good(v, out \ {p})
                /\ v.env_pgdir = c.env_pgdir
                /\ \A q \in Page, i \in Idx :
                     v.mem[q][i] = IF q = t /\ i = y THEN [pp |-> p, w |-> w] ELSE c.mem[q][i]
        BY <1>1, <2>1, <4>2, <4>3, <4>4, <4>5, AddGood
      <4>7. r = PutEntry(Increment(c, p), t, y, [pp |-> p, w |-> w])
        BY <2>4
      <4> QED
        BY <1>1, <2>1, <4>2, <4>6, <4>7
    <3> QED
      BY <3>1, <3>2
  <2> HIDE DEF r, old, c, word
  <2>7. Written(n, r, t, y, word)
    BY <1>1, <2>1, <2>6 DEF Written
  <2>8. r \in KMem
    BY <2>6 DEF Good
  <2> HIDE DEF n, x, y
  <2>9. View(n, r, d, <<x, y>>, word)
    BY <1>1, <1>4, <1>8, <2>1, <2>5, <2>7, <2>8, TableWriteView
  <2>10. View(m, r, d, va, word)
    BY <1>1, <1>3, <1>5, <2>9 DEF View, SameView
  <2>11. Kept(m, r)
    <3>1. t \in Dirs(m) \cup Tables(m) \cup OnList(m)
      BY <1>2, <2>1
    <3> QED
      BY <1>3, <2>7, <3>1 DEF Kept, Written
  <2> QED
    BY <1>2, <2>6, <2>10, <2>11 DEF r, word
<1> QED
  BY <1>7, <1>8

-----------------------------------------------------------------------------
(* page_alloc, env_setup_vm and stores.                                      *)

\* Two memories that agree on directories, tables and counts play the same roles.
LEMMA SideGood ==
  ASSUME NEW m \in KMem, NEW n \in KMem, RolesOf(m), RefCountOf(m),
         n.env_pgdir = m.env_pgdir, n.pp_ref = m.pp_ref,
         \A q \in Dirs(m) \cup Tables(m), i \in Idx : n.mem[q][i] = m.mem[q][i]
  PROVE  /\ Dirs(n) = Dirs(m) /\ Tables(n) = Tables(m) /\ Frames(n) = Frames(m)
         /\ RolesOf(n) /\ RefCountOf(n)
<1>1. Dirs(n) = Dirs(m)
  BY DEF Dirs
<1>2. Tables(n) = Tables(m)
  BY <1>1 DEF Tables
<1>3. Frames(n) = Frames(m)
  BY <1>2 DEF Frames
<1>4. RolesOf(n)
  BY <1>1, <1>2, <1>3 DEF RolesOf
<1>5. \A p \in Page : DirRefs(n, p) = DirRefs(m, p)
  BY DEF DirRefs
<1>6. ASSUME NEW p \in Page PROVE EntryRefs(n, p) = EntryRefs(m, p)
  <2>1. \A s \in (Dirs(m) \cup Tables(m)) \X Idx : n.mem[s[1]][s[2]].pp = m.mem[s[1]][s[2]].pp
    OBVIOUS
  <2> QED
    BY <1>1, <1>2, <2>1 DEF EntryRefs
<1>7. RefCountOf(n)
  BY <1>5, <1>6 DEF RefCountOf
<1> QED
  BY <1>1, <1>2, <1>3, <1>4, <1>7

\* page_alloc takes a page that nothing points at, and clears it.
LEMMA AllocGood ==
  ASSUME NEW m, NEW out, Good(m, out), m.page_free_list # <<>>
  PROVE  LET n == page_alloc(m)
             p == Head(m.page_free_list)
         IN  /\ p \in Page /\ p \in OnList(m) /\ p \notin out
             /\ p \notin Dirs(m) /\ p \notin Tables(m) /\ p \notin Frames(m)
             /\ Good(n, out \cup {p}) /\ OnList(n) = OnList(m) \ {p}
             /\ Dirs(n) = Dirs(m) /\ Tables(n) = Tables(m) /\ Frames(n) = Frames(m)
             /\ n.env_pgdir = m.env_pgdir /\ n.pp_ref = m.pp_ref
             /\ \A q \in Page, i \in Idx :
                  n.mem[q][i] = IF q = p THEN NotPresent ELSE m.mem[q][i]
             /\ SameView(m, n)
<1> DEFINE n == page_alloc(m)
           p == Head(m.page_free_list)
           l == Tail(m.page_free_list)
<1>1. m \in KMem
  BY DEF Good
<1>2. /\ p \in Page /\ p \in OnList(m)
      /\ {l[i] : i \in DOMAIN l} = OnList(m) \ {p}
      /\ \A i, j \in DOMAIN l : l[i] = l[j] => i = j
  BY <1>1, PopList DEF Good, FreeListOf
<1>3. p \notin out /\ p \notin Dirs(m) /\ p \notin Tables(m) /\ p \notin Frames(m)
  BY <1>2, ReferencedNotFree DEF Good, FreeListOf
<1>4. /\ n \in KMem
      /\ n.page_free_list = l /\ n.pp_ref = m.pp_ref /\ n.env_pgdir = m.env_pgdir
      /\ n.mem = [m.mem EXCEPT ![p] = ZeroPage]
  BY <1>1, AllocType DEF page_alloc, KMem
<1> HIDE DEF n, p
<1>5. \A q \in Page, i \in Idx : n.mem[q][i] = IF q = p THEN NotPresent ELSE m.mem[q][i]
  <2> DEFINE f == m.mem
  <2>1. f \in [Page -> [Idx -> Word]] /\ n.mem = [f EXCEPT ![p] = ZeroPage]
    BY <1>1, <1>4 DEF KMem
  <2> HIDE DEF f
  <2>2. \A q \in Page, i \in Idx : n.mem[q][i] = IF q = p THEN NotPresent ELSE f[q][i]
    BY <2>1 DEF ZeroPage
  <2> QED
    BY <2>2 DEF f
<1>6. \A q \in Dirs(m) \cup Tables(m), i \in Idx : n.mem[q][i] = m.mem[q][i]
  BY <1>1, <1>3, <1>5, RoleTypes
<1>7. /\ Dirs(n) = Dirs(m) /\ Tables(n) = Tables(m) /\ Frames(n) = Frames(m)
      /\ RolesOf(n) /\ RefCountOf(n)
  BY <1>1, <1>4, <1>6, SideGood DEF Good
<1>8. OnList(n) = OnList(m) \ {p}
  <2> HIDE DEF l
  <2>1. \A q : q \in OnList(n) <=> \E i \in DOMAIN l : l[i] = q
    BY <1>4 DEF OnList
  <2> QED
    BY <1>2, <2>1
<1>9. FreeListOf(n, out \cup {p})
  BY <1>2, <1>3, <1>4, <1>8 DEF FreeListOf, Good
<1>10. Good(n, out \cup {p})
  BY <1>2, <1>4, <1>7, <1>9 DEF Good
<1>11. SameView(m, n)
  BY <1>1, <1>4, <1>6, UntouchedView
<1> QED
  BY <1>2, <1>3, <1>4, <1>5, <1>7, <1>8, <1>10, <1>11 DEF n, p

\* A store into a page that is neither directory nor table.
LEMMA StoreGood ==
  ASSUME NEW m, NEW out, Good(m, out), NEW q \in Page, q \notin Dirs(m), q \notin Tables(m),
         NEW i \in Idx, NEW word \in Word
  PROVE  LET n == PutEntry(m, q, i, word)
         IN  /\ Good(n, out)
             /\ Dirs(n) = Dirs(m) /\ Tables(n) = Tables(m) /\ Frames(n) = Frames(m)
             /\ n.env_pgdir = m.env_pgdir
             /\ Written(m, n, q, i, word)
             /\ SameView(m, n)
<1> DEFINE n == PutEntry(m, q, i, word)
<1>1. m \in KMem
  BY DEF Good
<1>2. /\ n \in KMem
      /\ n.page_free_list = m.page_free_list /\ n.pp_ref = m.pp_ref
      /\ n.env_pgdir = m.env_pgdir
      /\ \A p \in Page, j \in Idx : n.mem[p][j] = IF p = q /\ j = i THEN word ELSE m.mem[p][j]
  BY <1>1, PutEntryType, PutEntryFields
<1> HIDE DEF n
<1>3. \A p \in Dirs(m) \cup Tables(m), j \in Idx : n.mem[p][j] = m.mem[p][j]
  BY <1>1, <1>2, RoleTypes
<1>4. /\ Dirs(n) = Dirs(m) /\ Tables(n) = Tables(m) /\ Frames(n) = Frames(m)
      /\ RolesOf(n) /\ RefCountOf(n)
  BY <1>1, <1>2, <1>3, SideGood DEF Good
<1>5. OnList(n) = OnList(m)
  BY <1>2 DEF OnList
<1>6. FreeListOf(n, out)
  BY <1>2, <1>5 DEF FreeListOf, Good
<1>7. SameView(m, n)
  BY <1>1, <1>2, <1>3, UntouchedView
<1> QED
  BY <1>2, <1>4, <1>6, <1>7 DEF Good, Written, n

\* One page of region_alloc: a zeroed page appears at va, or, when there is no memory
\* for the page table, the page is taken from the free list and lost.
LEMMA RegionGood ==
  ASSUME NEW m, NEW out, Good(m, out), NEW d \in Dirs(m), NEW va \in Idx \X Idx,
         m.page_free_list # <<>>, FitsOf(region_alloc(m, d, va))
  PROVE  LET r == region_alloc(m, d, va)
             p == Head(m.page_free_list)
         IN  /\ p \in Page /\ p \notin out /\ p \in OnList(m) /\ p \notin Frames(m)
             /\ r.env_pgdir = m.env_pgdir
             /\ Kept(m, r)
             /\ \A i \in Idx : r.mem[p][i] = NotPresent
             /\ \/ /\ Good(r, out) /\ View(m, r, d, va, [pp |-> p, w |-> TRUE])
                   /\ Present(page_lookup(r, d, va))
                \/ /\ Good(r, out \cup {p}) /\ SameView(m, r)
                   /\ ~Present(page_lookup(r, d, va)) /\ ~Present(page_lookup(m, d, va))
<1> DEFINE n == page_alloc(m)
           p == Head(m.page_free_list)
           o == out \cup {p}
           r == region_alloc(m, d, va)
<1>1. /\ p \in Page /\ p \in OnList(m) /\ p \notin out
      /\ p \notin Dirs(m) /\ p \notin Tables(m) /\ p \notin Frames(m)
      /\ Good(n, o) /\ OnList(n) = OnList(m) \ {p}
      /\ Dirs(n) = Dirs(m) /\ Tables(n) = Tables(m)
      /\ n.env_pgdir = m.env_pgdir
      /\ \A q \in Page, i \in Idx : n.mem[q][i] = IF q = p THEN NotPresent ELSE m.mem[q][i]
      /\ SameView(m, n)
  BY AllocGood
<1>2. r = page_insert(n, p, d, va, TRUE)
  BY DEF region_alloc
<1> HIDE DEF n, r, p
<1>3. /\ d \in Dirs(n) /\ p \notin Dirs(n) /\ p \notin Tables(n) /\ p \notin OnList(n)
      /\ FitsOf(page_insert(n, p, d, va, TRUE)) /\ TRUE \in BOOLEAN
  BY <1>1, <1>2 DEF r
<1> HIDE DEF o
<1>4. LET v == page_insert(n, p, d, va, TRUE)
      IN  /\ v.env_pgdir = n.env_pgdir
          /\ Kept(n, v)
          /\ \/ Good(v, o \ {p}) /\ View(n, v, d, va, [pp |-> p, w |-> TRUE])
             \/ v = n /\ ~Present(page_lookup(n, d, va))
  BY <1>1, <1>3, InsertGood
<1>5. o \ {p} = out
  BY <1>1 DEF o
<1>6. r.env_pgdir = m.env_pgdir
  BY <1>1, <1>2, <1>4
<1>7. Kept(m, r)
  <2> SUFFICES ASSUME NEW q \in Page \ (Dirs(m) \cup Tables(m) \cup OnList(m)), NEW i \in Idx
               PROVE  r.mem[q][i] = m.mem[q][i]
    BY DEF Kept
  <2>1. q \in Page \ (Dirs(n) \cup Tables(n) \cup OnList(n)) /\ q # p
    BY <1>1
  <2>2. r.mem[q][i] = n.mem[q][i]
    BY <1>2, <1>4, <2>1 DEF Kept
  <2> QED
    BY <1>1, <2>1, <2>2
<1>8. \A i \in Idx : r.mem[p][i] = NotPresent
  BY <1>1, <1>2, <1>3, <1>4 DEF Kept
<1>9. CASE Good(r, out) /\ View(n, r, d, va, [pp |-> p, w |-> TRUE])
  <2>1. View(m, r, d, va, [pp |-> p, w |-> TRUE])
    BY <1>1, <1>9 DEF View, SameView
  <2>2. page_lookup(r, d, va) = [pp |-> p, w |-> TRUE] /\ p # 0
    BY <1>1, <2>1 DEF View, Page
  <2> QED
    BY <1>1, <1>6, <1>7, <1>8, <1>9, <2>1, <2>2 DEF r, p, Present
<1>10. CASE r = n /\ ~Present(page_lookup(n, d, va))
  <2>1. page_lookup(m, d, va) = page_lookup(n, d, va)
    BY <1>1 DEF SameView
  <2> QED
    BY <1>1, <1>6, <1>7, <1>8, <1>10, <2>1 DEF r, p, o
<1> QED
  BY <1>2, <1>4, <1>5, <1>9, <1>10

\* env_setup_vm: a free slot gets an empty directory.
LEMMA SetupGood ==
  ASSUME NEW m, NEW out, Good(m, out), m.page_free_list # <<>>,
         NEW e \in Env, m.env_pgdir[e] = 0
  PROVE  LET n == env_setup_vm(m, e)
             p == Head(m.page_free_list)
         IN  /\ p \in Page /\ p \notin Dirs(m) /\ p \notin Frames(m)
             /\ Good(n, out)
             /\ n.env_pgdir = [m.env_pgdir EXCEPT ![e] = p]
             /\ Dirs(n) = Dirs(m) \cup {p}
             /\ Frames(n) = Frames(m)
             /\ SameView(m, n) /\ Kept(m, n)
             /\ \A u \in Idx \X Idx : page_lookup(n, p, u) = NotPresent
<1> DEFINE a == page_alloc(m)
           p == Head(m.page_free_list)
           b == Increment(a, p)
           n == env_setup_vm(m, e)
<1>1. /\ p \in Page /\ p \in OnList(m) /\ p \notin out
      /\ p \notin Dirs(m) /\ p \notin Tables(m) /\ p \notin Frames(m)
      /\ Good(a, out \cup {p}) /\ OnList(a) = OnList(m) \ {p}
      /\ Dirs(a) = Dirs(m) /\ Tables(a) = Tables(m) /\ Frames(a) = Frames(m)
      /\ a.env_pgdir = m.env_pgdir /\ a.pp_ref = m.pp_ref
      /\ \A q \in Page, i \in Idx : a.mem[q][i] = IF q = p THEN NotPresent ELSE m.mem[q][i]
      /\ SameView(m, a)
  BY AllocGood
<1>2. a \in KMem /\ m \in KMem
  BY <1>1 DEF Good
<1>3. a.pp_ref[p] = 0
  BY <1>1 DEF Good, FreeListOf
<1>4. n = [b EXCEPT !.env_pgdir[e] = p]
  BY DEF env_setup_vm
<1>5. n \in KMem /\ n.env_pgdir = [m.env_pgdir EXCEPT ![e] = p]
  BY <1>2, SetupType
<1> HIDE DEF a, p
<1>6. b \in KMem /\ b.page_free_list = a.page_free_list /\ b.mem = a.mem
      /\ b.pp_ref = [a.pp_ref EXCEPT ![p] = 1]
  <2>1. (0 + 1) % RefMod = 1
    BY RefAssumption
  <2> QED
    BY <1>1, <1>2, <1>3, <2>1, CountType DEF Increment, KMem
<1> HIDE DEF b
<1>7. n.page_free_list = a.page_free_list /\ n.mem = a.mem /\ n.pp_ref = b.pp_ref
  BY <1>4, <1>6 DEF KMem
<1> HIDE DEF n
<1>8. \A q \in Page : n.pp_ref[q] = IF q = p THEN 1 ELSE a.pp_ref[q]
  BY <1>1, <1>2, <1>6, <1>7 DEF KMem
<1>9. \A f \in Env : n.env_pgdir[f] = IF f = e THEN p ELSE m.env_pgdir[f]
  BY <1>2, <1>5 DEF KMem
<1>10. p # 0 /\ 0 \notin Page
  BY <1>1 DEF Page
<1>11. Dirs(n) = Dirs(m) \cup {p}
  BY <1>9, <1>10 DEF Dirs
<1>12. \A i \in Idx : n.mem[p][i] = NotPresent /\ n.mem[p][i].pp = 0
  BY <1>1, <1>7 DEF NotPresent
<1>13. Tables(n) = Tables(m)
  <2>1. \A q \in Dirs(m), i \in Idx : n.mem[q][i] = a.mem[q][i]
    BY <1>7
  <2>2. Tables(n) \subseteq Tables(a)
    BY <1>1, <1>11, <1>12, <2>1 DEF Tables
  <2>3. Tables(a) \subseteq Tables(n)
    BY <1>1, <1>11, <2>1 DEF Tables
  <2> QED
    BY <1>1, <2>2, <2>3
<1>14. Frames(n) = Frames(m)
  BY <1>1, <1>7, <1>13 DEF Frames
<1>15. RolesOf(n)
  <2>1. RolesOf(a)
    BY <1>1 DEF Good
  <2>2. \A f \in Env : m.env_pgdir[f] # p
    BY <1>1, <1>10 DEF Dirs
  <2>3. \A f, g \in Env : n.env_pgdir[f] # 0 /\ n.env_pgdir[f] = n.env_pgdir[g] => f = g
    BY <1>1, <1>9, <2>1, <2>2 DEF RolesOf
  <2>4. \A c, d \in Dirs(n), x, y \in Idx :
          Present(n.mem[c][x]) /\ n.mem[c][x].pp = n.mem[d][y].pp => c = d /\ x = y
    <3>1. \A c \in Dirs(n), x \in Idx : Present(n.mem[c][x]) => c \in Dirs(m)
      BY <1>11, <1>12 DEF Present
    <3> QED
      BY <1>1, <1>7, <2>1, <3>1 DEF RolesOf, Present
  <2>5. Dirs(n) \cap Tables(n) = {}
    BY <1>1, <1>11, <1>13, <2>1 DEF RolesOf
  <2>6. Frames(n) \cap (Dirs(n) \cup Tables(n)) = {}
    BY <1>1, <1>11, <1>13, <1>14, <2>1 DEF RolesOf
  <2> QED
    BY <2>3, <2>4, <2>5, <2>6 DEF RolesOf
<1>16. RefCountOf(n)
  <2> SUFFICES ASSUME NEW q \in Page
               PROVE  n.pp_ref[q] = Cardinality(DirRefs(n, q)) + Cardinality(EntryRefs(n, q))
    BY DEF RefCountOf
  <2>1. EntryRefs(n, q) = EntryRefs(a, q)
    <3>1. \A s : s \in EntryRefs(n, q) => s \in EntryRefs(a, q)
      BY <1>1, <1>7, <1>10, <1>11, <1>12, <1>13 DEF EntryRefs
    <3>2. \A s : s \in EntryRefs(a, q) => s \in EntryRefs(n, q)
      BY <1>1, <1>7, <1>11, <1>13 DEF EntryRefs
    <3> QED
      BY <3>1, <3>2
  <2>2. CASE q = p
    <3>1. \A f \in Env : m.env_pgdir[f] # p
      BY <1>1, <1>10 DEF Dirs
    <3>2. DirRefs(n, q) = {e}
      BY <1>9, <2>2, <3>1 DEF DirRefs
    <3>3. EntryRefs(a, q) = {}
      BY <1>1, <1>3, <2>2, Unreferenced
    <3>4. Cardinality(DirRefs(n, q)) = 1 /\ Cardinality(EntryRefs(n, q)) = 0
      BY <2>1, <3>2, <3>3, FS_EmptySet, FS_Singleton
    <3> QED
      BY <1>8, <2>2, <3>4
  <2>3. CASE q # p
    <3>1. DirRefs(n, q) = DirRefs(a, q)
      <4>1. \A f \in Env : n.env_pgdir[f] = q <=> a.env_pgdir[f] = q
        BY <1>1, <1>9, <1>10, <2>3
      <4> QED
        BY <4>1 DEF DirRefs
    <3> QED
      BY <1>1, <1>8, <2>1, <2>3, <3>1 DEF Good, RefCountOf
  <2> QED
    BY <2>2, <2>3
<1>17. FreeListOf(n, out)
  <2>1. OnList(n) = OnList(a)
    BY <1>7 DEF OnList
  <2> QED
    BY <1>1, <1>7, <1>8, <2>1 DEF Good, FreeListOf
<1>18. Good(n, out)
  BY <1>5, <1>15, <1>16, <1>17 DEF Good
<1>19. SameView(m, n) /\ Kept(m, n)
  <2>1. \A c, u : page_lookup(n, c, u) = page_lookup(a, c, u)
    BY <1>7 DEF page_lookup
  <2> QED
    BY <1>1, <1>7, <2>1 DEF SameView, Kept
<1>20. \A u \in Idx \X Idx : page_lookup(n, p, u) = NotPresent
  BY <1>12 DEF page_lookup, Present
<1> QED
  BY <1>1, <1>5, <1>11, <1>14, <1>18, <1>19, <1>20 DEF n, p

-----------------------------------------------------------------------------
(* env_free: an emptied page table, then the emptied directory.              *)

\* The only pointer to a page table is its directory entry.
LEMMA TableRef ==
  ASSUME NEW m, NEW out, Good(m, out), NEW d \in Dirs(m), NEW x \in Idx, Present(m.mem[d][x])
  PROVE  LET t == m.mem[d][x].pp
         IN  DirRefs(m, t) = {} /\ EntryRefs(m, t) = {<<d, x>>} /\ m.pp_ref[t] = 1
<1> DEFINE t == m.mem[d][x].pp
<1>1. m \in KMem /\ RolesOf(m)
  BY DEF Good
<1>2. t \in Tables(m) /\ t \in Page /\ t # 0
  BY <1>1, TableOf DEF Present
<1>3. DirRefs(m, t) = {}
  BY <1>1, <1>2 DEF DirRefs, Dirs, RolesOf
<1>4. \A q \in Tables(m), i \in Idx : m.mem[q][i].pp # t
  BY <1>1, <1>2 DEF Frames, RolesOf
<1>5. \A q \in Dirs(m), i \in Idx : m.mem[q][i].pp = t => q = d /\ i = x
  BY <1>1 DEF RolesOf
<1> HIDE DEF t
<1>6. \A s \in EntryRefs(m, t) : s = <<d, x>>
  BY <1>4, <1>5 DEF EntryRefs
<1>7. <<d, x>> \in EntryRefs(m, t)
  BY DEF EntryRefs, t
<1>8. EntryRefs(m, t) = {<<d, x>>}
  BY <1>6, <1>7
<1>9. Cardinality(DirRefs(m, t)) = 0 /\ Cardinality(EntryRefs(m, t)) = 1
  BY <1>3, <1>8, FS_EmptySet, FS_Singleton
<1>10. m.pp_ref[t] = 1
  BY <1>2, <1>9 DEF Good, RefCountOf
<1> QED
  BY <1>3, <1>8, <1>10 DEF t

\* A page table without entries is given back: no address shows anything else.
LEMMA FreeTableGood ==
  ASSUME NEW m, NEW out, Good(m, out), NEW d \in Dirs(m), NEW x \in Idx, Present(m.mem[d][x]),
         \A y \in Idx : m.mem[m.mem[d][x].pp][y] = NotPresent
  PROVE  LET n == page_decref(PutEntry(m, d, x, NotPresent), m.mem[d][x].pp)
         IN  /\ Good(n, out)
             /\ n.env_pgdir = m.env_pgdir
             /\ Frames(n) = Frames(m)
             /\ SameView(m, n) /\ Kept(m, n)
<1> DEFINE t == m.mem[d][x].pp
           b == PutEntry(m, d, x, NotPresent)
           n == page_decref(b, t)
<1>1. m \in KMem /\ RolesOf(m) /\ d \in Page /\ NotPresent \in Word /\ NotPresent.pp = 0
  BY RoleTypes, WordType DEF Good, NotPresent
<1>2. t \in Tables(m) /\ t \in Page /\ t # 0
  BY <1>1, TableOf DEF Present
<1>3. DirRefs(m, t) = {} /\ EntryRefs(m, t) = {<<d, x>>} /\ m.pp_ref[t] = 1
  BY TableRef
<1>4. \A y \in Idx : m.mem[t][y] = NotPresent /\ m.mem[t][y].pp = 0
  BY <1>1
<1>5. /\ b \in KMem
      /\ b.page_free_list = m.page_free_list /\ b.pp_ref = m.pp_ref
      /\ b.env_pgdir = m.env_pgdir
      /\ \A q \in Page, i \in Idx :
           b.mem[q][i] = IF q = d /\ i = x THEN NotPresent ELSE m.mem[q][i]
  BY <1>1, PutEntryType, PutEntryFields
<1> HIDE DEF b, t
<1>6. b.pp_ref[t] # 0 /\ b.pp_ref[t] = 1
  BY <1>3, <1>5
<1>7. /\ n \in KMem /\ n.mem = b.mem /\ n.env_pgdir = b.env_pgdir
      /\ n.pp_ref = [b.pp_ref EXCEPT ![t] = b.pp_ref[t] - 1]
      /\ n.page_free_list = IF b.pp_ref[t] = 1 THEN <<t>> \o b.page_free_list
                            ELSE b.page_free_list
  BY <1>2, <1>5, <1>6, DecrefFields
<1> HIDE DEF n
<1>8. FreeListOf(b, out)
  BY <1>5 DEF Good, FreeListOf, OnList
<1>9. FreeListOf(n, out) /\ \A q \in OnList(n) : q \in OnList(b) \/ q = t
  BY <1>2, <1>5, <1>6, <1>7, <1>8, DecrefList
<1>10. \A q \in Page, i \in Idx : n.mem[q][i] = IF q = d /\ i = x THEN NotPresent ELSE m.mem[q][i]
  BY <1>5, <1>7
<1>11. \A q \in Page : n.pp_ref[q] = IF q = t THEN 0 ELSE m.pp_ref[q]
  <2>1. m.pp_ref \in [Page -> 0 .. RefMod - 1] /\ n.pp_ref = [m.pp_ref EXCEPT ![t] = 0]
    BY <1>1, <1>5, <1>6, <1>7 DEF KMem
  <2> QED
    BY <1>2, <2>1
<1>12. Dirs(n) = Dirs(m) /\ n.env_pgdir = m.env_pgdir
  BY <1>5, <1>7 DEF Dirs
<1>13. /\ Dirs(m) \subseteq Page /\ Tables(m) \subseteq Page /\ Dirs(m) \cap Tables(m) = {}
       /\ m.mem[d][x].pp = t /\ 0 \notin Page
  BY <1>1, RoleTypes DEF RolesOf, t, Page
<1>14. \A q \in Dirs(m), i \in Idx :
         n.mem[q][i].pp = IF q = d /\ i = x THEN 0 ELSE m.mem[q][i].pp
  BY <1>1, <1>10, <1>13
<1>15. \A q \in Dirs(m), i \in Idx : m.mem[q][i].pp = t => q = d /\ i = x
  BY <1>1, <1>2, <1>13 DEF RolesOf, Present
<1>16. Tables(n) = Tables(m) \ {t}
  <2>1. Tables(n) \subseteq Tables(m) \ {t}
    BY <1>12, <1>14, <1>15 DEF Tables
  <2>2. Tables(m) \ {t} \subseteq Tables(n)
    BY <1>12, <1>13, <1>14 DEF Tables
  <2> QED
    BY <2>1, <2>2
<1>17. \A q \in Tables(m), i \in Idx : n.mem[q][i] = m.mem[q][i]
  BY <1>10, <1>13
<1>18. Frames(n) = Frames(m)
  <2>1. Frames(n) \subseteq Frames(m)
    BY <1>16, <1>17 DEF Frames
  <2>2. Frames(m) \subseteq Frames(n)
    BY <1>4, <1>16, <1>17 DEF Frames
  <2> QED
    BY <2>1, <2>2
<1>19. RolesOf(n)
  <2>1. \A e, f \in Env : n.env_pgdir[e] # 0 /\ n.env_pgdir[e] = n.env_pgdir[f] => e = f
    BY <1>1, <1>12 DEF RolesOf
  <2>2. \A b1, c1 \in Dirs(n), u, v \in Idx :
          Present(n.mem[b1][u]) /\ n.mem[b1][u].pp = n.mem[c1][v].pp => b1 = c1 /\ u = v
    BY <1>1, <1>12, <1>14 DEF RolesOf, Present
  <2> QED
    BY <1>1, <1>12, <1>16, <1>18, <2>1, <2>2 DEF RolesOf
<1>20. RefCountOf(n)
  <2> SUFFICES ASSUME NEW p \in Page
               PROVE  n.pp_ref[p] = Cardinality(DirRefs(n, p)) + Cardinality(EntryRefs(n, p))
    BY DEF RefCountOf
  <2>1. DirRefs(n, p) = DirRefs(m, p)
    BY <1>12 DEF DirRefs
  <2>2. \A s : s \in EntryRefs(n, p) => s \in EntryRefs(m, p) /\ p # t
    <3> SUFFICES ASSUME NEW s \in EntryRefs(n, p) PROVE s \in EntryRefs(m, p) /\ p # t
      OBVIOUS
    <3>1. s \in (Dirs(m) \cup Tables(m)) \X Idx /\ n.mem[s[1]][s[2]].pp = p
      BY <1>12, <1>16 DEF EntryRefs
    <3>2. PICK q \in Dirs(m) \cup Tables(m), i \in Idx : s = <<q, i>> /\ n.mem[q][i].pp = p
      BY <3>1
    <3>3. ~(q = d /\ i = x)
      BY <1>1, <1>10, <1>13, <3>2
    <3>4. m.mem[q][i].pp = p
      BY <1>10, <1>13, <3>2, <3>3
    <3>5. s \in EntryRefs(m, p)
      BY <3>2, <3>4 DEF EntryRefs
    <3>6. p # t
      BY <1>3, <3>2, <3>3, <3>5
    <3> QED
      BY <3>5, <3>6
  <2>3. \A s : s \in EntryRefs(m, p) /\ p # t => s \in EntryRefs(n, p)
    <3> SUFFICES ASSUME NEW s \in EntryRefs(m, p), p # t PROVE s \in EntryRefs(n, p)
      OBVIOUS
    <3>1. PICK q \in Dirs(m) \cup Tables(m), i \in Idx : s = <<q, i>> /\ m.mem[q][i].pp = p
      BY DEF EntryRefs
    <3>2. ~(q = d /\ i = x) /\ q # t
      BY <1>4, <1>13, <3>1
    <3>3. n.mem[q][i].pp = p
      BY <1>10, <1>13, <3>1, <3>2
    <3>4. q \in Dirs(n) \cup Tables(n)
      BY <1>12, <1>16, <3>2
    <3> QED
      BY <3>1, <3>3, <3>4 DEF EntryRefs
  <2>4. CASE p = t
    <3>1. EntryRefs(n, p) = {}
      BY <2>2, <2>4
    <3>2. Cardinality(DirRefs(n, p)) = 0 /\ Cardinality(EntryRefs(n, p)) = 0
      BY <1>3, <2>1, <2>4, <3>1, FS_EmptySet
    <3> QED
      BY <1>11, <2>4, <3>2
  <2>5. CASE p # t
    <3>1. EntryRefs(n, p) = EntryRefs(m, p)
      BY <2>2, <2>3, <2>5
    <3> QED
      BY <1>11, <2>1, <2>5, <3>1 DEF Good, RefCountOf
  <2> QED
    BY <2>4, <2>5
<1>21. SameView(m, n)
  <2> SUFFICES ASSUME NEW c \in Dirs(m), NEW u \in Idx \X Idx
               PROVE  page_lookup(n, c, u) = page_lookup(m, c, u)
    BY DEF SameView
  <2>1. u[1] \in Idx /\ u[2] \in Idx
    OBVIOUS
  <2>2. m.mem \in [Page -> [Idx -> Word]]
    BY <1>1 DEF KMem
  <2>3. CASE c = d /\ u[1] = x
    <3>1. n.mem[c][u[1]] = NotPresent
      BY <1>1, <1>10, <2>3
    <3>2. page_lookup(n, c, u) = NotPresent
      BY <1>1, <3>1 DEF page_lookup, Present
    <3>3. page_lookup(m, c, u) = m.mem[t][u[2]]
      BY <1>2, <1>13, <2>3 DEF page_lookup, Present
    <3> QED
      BY <1>4, <2>1, <3>2, <3>3
  <2>4. CASE ~(c = d /\ u[1] = x)
    <3>1. n.mem[c][u[1]] = m.mem[c][u[1]]
      BY <1>10, <1>13, <2>1, <2>4
    <3>2. Present(m.mem[c][u[1]]) => m.mem[c][u[1]].pp \in Tables(m)
      BY <1>1, <2>1, TableOf
    <3>3. Present(m.mem[c][u[1]]) => n.mem[m.mem[c][u[1]].pp][u[2]] = m.mem[m.mem[c][u[1]].pp][u[2]]
      BY <1>17, <2>1, <3>2
    <3> QED
      BY <3>1, <3>3 DEF page_lookup
  <2> QED
    BY <2>3, <2>4
<1>22. Kept(m, n)
  BY <1>10 DEF Kept
<1> QED
  BY <1>7, <1>9, <1>12, <1>18, <1>19, <1>20, <1>21, <1>22 DEF Good, n, b, t

\* The only pointer to a page directory is its environment's env_pgdir.
LEMMA DirRef ==
  ASSUME NEW m, NEW out, Good(m, out), NEW e \in Env, m.env_pgdir[e] # 0
  PROVE  LET d == m.env_pgdir[e]
         IN  /\ d \in Dirs(m) /\ d \in Page
             /\ DirRefs(m, d) = {e} /\ EntryRefs(m, d) = {} /\ m.pp_ref[d] = 1
<1> DEFINE d == m.env_pgdir[e]
<1>1. m \in KMem /\ RolesOf(m)
  BY DEF Good
<1>2. d \in Dirs(m) /\ d \in Page /\ d # 0
  BY <1>1, RoleTypes DEF Dirs
<1>3. DirRefs(m, d) = {e}
  BY <1>1 DEF DirRefs, RolesOf
<1>4. \A q \in Tables(m), i \in Idx : m.mem[q][i].pp # d
  BY <1>1, <1>2 DEF Frames, RolesOf
<1>5. \A q \in Dirs(m), i \in Idx : m.mem[q][i].pp # d
  BY <1>1, <1>2 DEF Tables, RolesOf
<1> HIDE DEF d
<1>6. EntryRefs(m, d) = {}
  BY <1>4, <1>5 DEF EntryRefs
<1>7. Cardinality(DirRefs(m, d)) = 1 /\ Cardinality(EntryRefs(m, d)) = 0
  BY <1>3, <1>6, FS_EmptySet, FS_Singleton
<1>8. m.pp_ref[d] = 1
  BY <1>2, <1>7 DEF Good, RefCountOf
<1> QED
  BY <1>2, <1>3, <1>6, <1>8 DEF d

\* The emptied directory is given back: the addresses of the other directories show
\* what they did.
LEMMA FreeDirGood ==
  ASSUME NEW m, NEW out, Good(m, out), NEW e \in Env, m.env_pgdir[e] # 0,
         \A x \in Idx : ~Present(m.mem[m.env_pgdir[e]][x])
  PROVE  LET n == page_decref([m EXCEPT !.env_pgdir[e] = 0], m.env_pgdir[e])
         IN  /\ Good(n, out)
             /\ n.env_pgdir = [m.env_pgdir EXCEPT ![e] = 0]
             /\ Dirs(n) = Dirs(m) \ {m.env_pgdir[e]}
             /\ Frames(n) = Frames(m)
             /\ SameView(m, n) /\ Kept(m, n)
<1> DEFINE d == m.env_pgdir[e]
           b == [m EXCEPT !.env_pgdir[e] = 0]
           n == page_decref(b, d)
<1>1. m \in KMem /\ RolesOf(m) /\ d # 0 /\ 0 \notin Page
  BY DEF Good, Page
<1>2. /\ d \in Dirs(m) /\ d \in Page
      /\ DirRefs(m, d) = {e} /\ EntryRefs(m, d) = {} /\ m.pp_ref[d] = 1
  BY DirRef
<1>3. \A x \in Idx : m.mem[d][x].pp = 0
  BY DEF Present
<1>4. /\ b \in KMem
      /\ b.page_free_list = m.page_free_list /\ b.pp_ref = m.pp_ref /\ b.mem = m.mem
      /\ b.env_pgdir = [m.env_pgdir EXCEPT ![e] = 0]
  <2>1. 0 \in 0 .. NPages
    BY PagesAssumption
  <2>2. [m.env_pgdir EXCEPT ![e] = 0] \in [Env -> 0 .. NPages]
    BY <1>1, <2>1 DEF KMem
  <2> QED
    BY <1>1, <2>2 DEF KMem
<1> HIDE DEF b, d
<1>5. b.pp_ref[d] # 0 /\ b.pp_ref[d] = 1
  BY <1>2, <1>4
<1>6. /\ n \in KMem /\ n.mem = b.mem /\ n.env_pgdir = b.env_pgdir
      /\ n.pp_ref = [b.pp_ref EXCEPT ![d] = b.pp_ref[d] - 1]
      /\ n.page_free_list = IF b.pp_ref[d] = 1 THEN <<d>> \o b.page_free_list
                            ELSE b.page_free_list
  BY <1>2, <1>4, <1>5, DecrefFields
<1> HIDE DEF n
<1>7. FreeListOf(b, out)
  BY <1>4 DEF Good, FreeListOf, OnList
<1>8. FreeListOf(n, out)
  BY <1>2, <1>4, <1>5, <1>6, <1>7, DecrefList
<1>9. n.mem = m.mem /\ n.env_pgdir = [m.env_pgdir EXCEPT ![e] = 0]
  BY <1>4, <1>6
<1>10. \A q \in Page : n.pp_ref[q] = IF q = d THEN 0 ELSE m.pp_ref[q]
  <2>1. m.pp_ref \in [Page -> 0 .. RefMod - 1] /\ n.pp_ref = [m.pp_ref EXCEPT ![d] = 0]
    BY <1>1, <1>4, <1>5, <1>6 DEF KMem
  <2> QED
    BY <1>2, <2>1
<1>11. \A f \in Env : n.env_pgdir[f] = IF f = e THEN 0 ELSE m.env_pgdir[f]
  BY <1>1, <1>9 DEF KMem
<1>12. \A f \in Env : m.env_pgdir[f] = d <=> f = e
  BY <1>2 DEF DirRefs
<1>13. Dirs(n) = Dirs(m) \ {d}
  <2>1. Dirs(n) \subseteq Dirs(m) \ {d}
    BY <1>11, <1>12 DEF Dirs
  <2>2. Dirs(m) \ {d} \subseteq Dirs(n)
    BY <1>11, <1>12 DEF Dirs
  <2> QED
    BY <2>1, <2>2
<1>14. Tables(n) = Tables(m)
  <2>1. Tables(n) \subseteq Tables(m)
    BY <1>9, <1>13 DEF Tables
  <2>2. Tables(m) \subseteq Tables(n)
    BY <1>3, <1>9, <1>13 DEF Tables
  <2> QED
    BY <2>1, <2>2
<1>15. Frames(n) = Frames(m)
  BY <1>9, <1>14 DEF Frames
<1>16. RolesOf(n)
  <2>1. \A g, f \in Env : n.env_pgdir[g] # 0 /\ n.env_pgdir[g] = n.env_pgdir[f] => g = f
    BY <1>1, <1>11 DEF RolesOf
  <2>2. \A b1, c1 \in Dirs(n), u, v \in Idx :
          Present(n.mem[b1][u]) /\ n.mem[b1][u].pp = n.mem[c1][v].pp => b1 = c1 /\ u = v
    BY <1>1, <1>9, <1>13 DEF RolesOf, Present
  <2> QED
    BY <1>1, <1>13, <1>14, <1>15, <2>1, <2>2 DEF RolesOf
<1>17. RefCountOf(n)
  <2> SUFFICES ASSUME NEW p \in Page
               PROVE  n.pp_ref[p] = Cardinality(DirRefs(n, p)) + Cardinality(EntryRefs(n, p))
    BY DEF RefCountOf
  <2>1. EntryRefs(n, p) = EntryRefs(m, p)
    <3>1. \A s \in EntryRefs(n, p) : s \in EntryRefs(m, p)
      BY <1>9, <1>13, <1>14 DEF EntryRefs
    <3>2. \A s \in EntryRefs(m, p) : s \in EntryRefs(n, p)
      <4> SUFFICES ASSUME NEW s \in EntryRefs(m, p) PROVE s \in EntryRefs(n, p)
        OBVIOUS
      <4>1. PICK q \in Dirs(m) \cup Tables(m), i \in Idx : s = <<q, i>> /\ m.mem[q][i].pp = p
        BY DEF EntryRefs
      <4>2. q # d
        BY <1>1, <1>3, <4>1
      <4> QED
        BY <1>9, <1>13, <1>14, <4>1, <4>2 DEF EntryRefs
    <3> QED
      BY <3>1, <3>2
  <2>2. CASE p = d
    <3>1. DirRefs(n, p) = {}
      BY <1>1, <1>11, <1>12, <2>2 DEF DirRefs
    <3>2. Cardinality(DirRefs(n, p)) = 0 /\ Cardinality(EntryRefs(n, p)) = 0
      BY <1>2, <2>1, <2>2, <3>1, FS_EmptySet
    <3> QED
      BY <1>10, <2>2, <3>2
  <2>3. CASE p # d
    <3>1. DirRefs(n, p) = DirRefs(m, p)
      BY <1>1, <1>11, <1>12, <2>3 DEF DirRefs
    <3> QED
      BY <1>10, <2>1, <2>3, <3>1 DEF Good, RefCountOf
  <2> QED
    BY <2>2, <2>3
<1>18. SameView(m, n)
  BY <1>9 DEF SameView, page_lookup
<1>19. Kept(m, n)
  BY <1>9 DEF Kept
<1> QED
  BY <1>6, <1>8, <1>9, <1>13, <1>15, <1>16, <1>17, <1>18, <1>19 DEF Good, n, b, d

-----------------------------------------------------------------------------
(* The invariant of the whole system.                                        *)

\* Page-table entries are clear or present, and present only at addresses in use.
Tidy(m) ==
  \A d \in Dirs(m), u \in Idx \X Idx :
    \/ page_lookup(m, d, u) = NotPresent
    \/ Present(page_lookup(m, d, u)) /\ u \in VA

\* Which directory is loaded, by what the kernel is doing.
ControlInv ==
  /\ mode = "boot" => /\ curenv = NoEnv /\ cr3 = 0
                      /\ \A e \in Env : ~Live(e)
  /\ mode = "load" => curenv = NoEnv /\ cr3 = k.env_pgdir[target]
  /\ mode = "ready" => cr3 = 0
  /\ mode \in {"run", "kernel", "free"} /\ cr3 # 0 =>
        curenv # NoEnv /\ cr3 = k.env_pgdir[curenv]
  /\ mode = "free" /\ curenv = target => cr3 = 0

MemoryInv == Good(k, lost) /\ Tidy(k)

\* The inductive invariant.
PmapInv == TypeInv /\ MemoryInv /\ TlbCoherent /\ ControlInv

-----------------------------------------------------------------------------
(* What a change of one address does to Tidy and to the TLB.                 *)

\* A directory stays tidy (only mappable addresses are mapped) when one address changes.
LEMMA ViewTidy ==
  ASSUME NEW m, NEW n, Tidy(m), Dirs(n) = Dirs(m),
         NEW d \in Dirs(m), NEW va \in Idx \X Idx, NEW word, View(m, n, d, va, word),
         word = NotPresent \/ (Present(word) /\ va \in VA)
  PROVE  Tidy(n)
BY DEF Tidy, View

\* A memory that shows every address as before is as tidy.
LEMMA SameTidy ==
  ASSUME NEW m, NEW n, Tidy(m), Dirs(n) \subseteq Dirs(m), SameView(m, n)
  PROVE  Tidy(n)
BY DEF Tidy, SameView

\* The environments keep their directories when env_pgdir does not change.
LEMMA DirsOf ==
  ASSUME NEW m, NEW n, n.env_pgdir = m.env_pgdir
  PROVE  Dirs(n) = Dirs(m)
BY DEF Dirs

\* The directory of a live environment is one of Dirs.
LEMMA LiveDir ==
  ASSUME NEW e \in Env, Live(e)
  PROVE  k.env_pgdir[e] \in Dirs(k)
BY DEF Live, Dirs

\* After page_insert or page_remove in a system call or in env_free the directory in cr3
\* is live, and the TLB caches nothing unless one is loaded; the kernel does not use
\* what the TLB then holds.
LEMMA EditedTlb ==
  ASSUME TypeInv, TlbCoherent, NEW d, NEW va,
         k'.env_pgdir = k.env_pgdir, tlb' \in TlbAfter(d, va), cr3' = cr3,
         d # 0, mode' \notin {"load", "run"}
  PROVE  TlbCoherent'
<1>1. Dirs(k') = Dirs(k)
  BY DirsOf
<1>2. tlb \in [VA -> Word] /\ ~Present(NotPresent)
  BY DEF TypeInv, TypeOK, Present, NotPresent
<1>3. ASSUME NEW u \in VA, Present(tlb'[u]) PROVE cr3 # 0
  <2>1. \/ tlb'[u] \in {tlb[u], NotPresent}
        \/ cr3 = d
    BY <1>2 DEF TlbAfter, tlb_invalidate
  <2> QED
    BY <1>2, <1>3, <2>1 DEF TlbCoherent
<1> QED
  BY <1>1, <1>3 DEF TlbCoherent

\* Where nothing was mapped before, page_insert leaves the TLB alone and coherent.
LEMMA ViewTlb ==
  ASSUME TlbCoherent, NEW d \in Dirs(k), NEW va \in Idx \X Idx, NEW word,
         View(k, k', d, va, word), k'.env_pgdir = k.env_pgdir,
         ~Present(page_lookup(k, d, va)), mode \in {"load", "run"},
         tlb' = tlb, cr3' = cr3
  PROVE  TlbCoherent'
<1>1. Dirs(k') = Dirs(k) /\ VA \subseteq Idx \X Idx
  BY DirsOf, StoreAssumption
<1>2. ASSUME NEW u \in VA, Present(tlb[u])
      PROVE  cr3 # 0 /\ tlb[u] = page_lookup(k', cr3, u)
  <2>1. cr3 # 0 /\ cr3 \in Dirs(k) /\ tlb[u] = page_lookup(k, cr3, u) /\ u \in Idx \X Idx
    BY <1>1, <1>2 DEF TlbCoherent
  <2>2. ~(cr3 = d /\ u = va)
    BY <1>2, <2>1
  <2> QED
    BY <2>1, <2>2 DEF View
<1> QED
  BY <1>1, <1>2 DEF TlbCoherent

\* Steps after which every address of the loaded directory shows what it did.
LEMMA SameTlb ==
  ASSUME TlbCoherent, SameView(k, k'), cr3' = cr3, tlb' = tlb, cr3 # 0 => cr3 \in Dirs(k'),
         mode' \in {"load", "run"} => mode \in {"load", "run"}
  PROVE  TlbCoherent'
<1>1. VA \subseteq Idx \X Idx
  BY StoreAssumption
<1> QED
  BY <1>1 DEF TlbCoherent, SameView

\* A flushed TLB is coherent with any live directory.
LEMMA FlushedTlb ==
  ASSUME tlb' = EmptyTlb, cr3' # 0 => cr3' \in Dirs(k')
  PROVE  TlbCoherent'
BY DEF TlbCoherent, EmptyTlb, Present, NotPresent

-----------------------------------------------------------------------------
(* The induction.                                                            *)

\* The free list of page_init holds every page once.
LEMMA InitInv == Init => PmapInv
<1> SUFFICES ASSUME Init PROVE PmapInv
  OBVIOUS
<1> DEFINE list == [i \in Page |-> NPages + 1 - i]
<1>1. TypeInv
  BY InitType
<1>2. k \in KMem
  BY <1>1 DEF TypeInv, TypeOK
<1>3. /\ k.page_free_list = list
      /\ k.pp_ref = [p \in Page |-> 0]
      /\ k.env_pgdir = [e \in Env |-> 0]
  BY DEF Init
<1>4. Dirs(k) = {} /\ \A e \in Env : ~Live(e)
  BY <1>3 DEF Dirs, Live
<1>5. Tables(k) = {}
  BY <1>4 DEF Tables
<1>6. Frames(k) = {}
  BY <1>5 DEF Frames
<1>7. RolesOf(k)
  BY <1>3, <1>4, <1>5, <1>6 DEF RolesOf
<1>8. RefCountOf(k)
  <2> SUFFICES ASSUME NEW p \in Page
               PROVE  k.pp_ref[p] = Cardinality(DirRefs(k, p)) + Cardinality(EntryRefs(k, p))
    BY DEF RefCountOf
  <2>1. DirRefs(k, p) = {}
    BY <1>3 DEF DirRefs, Page
  <2>2. EntryRefs(k, p) = {}
    BY <1>4, <1>5 DEF EntryRefs
  <2>3. Cardinality(DirRefs(k, p)) = 0 /\ Cardinality(EntryRefs(k, p)) = 0
    BY <2>1, <2>2, FS_EmptySet
  <2> QED
    BY <1>3, <2>3
<1>9. FreeListOf(k, {})
  <2>1. NPages \in Nat /\ Page = 1 .. NPages
    BY PagesAssumption DEF Page
  <2>2. \A i, j \in Page : list[i] = list[j] => i = j
    BY <2>1
  <2>3. \A p \in Page : NPages + 1 - p \in Page /\ list[NPages + 1 - p] = p
    BY <2>1
  <2>4. DOMAIN list = Page
    OBVIOUS
  <2> HIDE DEF list
  <2>5. \A p \in Page : p \in OnList(k)
    BY <1>3, <2>3, <2>4 DEF OnList
  <2> QED
    BY <1>3, <2>2, <2>4, <2>5 DEF FreeListOf
<1>10. lost = {} /\ Good(k, lost)
  BY <1>2, <1>7, <1>8, <1>9 DEF Good, Init
<1>11. Tidy(k) /\ TlbCoherent
  BY <1>4 DEF Tidy, TlbCoherent, Init, EmptyTlb, Present, NotPresent
<1> QED
  BY <1>1, <1>4, <1>10, <1>11 DEF PmapInv, MemoryInv, ControlInv, Init

\* What LoadSegment and LoadStack do to the memory.
LEMMA RegionStep ==
  ASSUME Good(k, lost), Tidy(k), NEW d \in Dirs(k), NEW va \in VA, k.page_free_list # <<>>,
         k' = region_alloc(k, d, va), FitsOf(k'),
         lost' = IF Present(page_lookup(k', d, va)) THEN lost
                 ELSE lost \cup {Head(k.page_free_list)}
  PROVE  LET p == Head(k.page_free_list)
         IN  /\ p \in Page /\ p \notin Frames(k)
             /\ k'.env_pgdir = k.env_pgdir /\ Dirs(k') = Dirs(k)
             /\ Kept(k, k')
             /\ \A i \in Idx : k'.mem[p][i] = NotPresent
             /\ Good(k', lost') /\ Tidy(k')
             /\ \/ View(k, k', d, va, [pp |-> p, w |-> TRUE])
                \/ SameView(k, k') /\ ~Present(page_lookup(k, d, va))
<1> DEFINE p == Head(k.page_free_list)
<1>1. FitsOf(region_alloc(k, d, va)) /\ va \in Idx \X Idx
  BY StoreAssumption
<1>2. LET r == region_alloc(k, d, va)
          q == Head(k.page_free_list)
      IN  /\ q \in Page /\ q \notin lost /\ q \in OnList(k) /\ q \notin Frames(k)
          /\ r.env_pgdir = k.env_pgdir
          /\ Kept(k, r)
          /\ \A i \in Idx : r.mem[q][i] = NotPresent
          /\ \/ /\ Good(r, lost) /\ View(k, r, d, va, [pp |-> q, w |-> TRUE])
                /\ Present(page_lookup(r, d, va))
             \/ /\ Good(r, lost \cup {q}) /\ SameView(k, r)
                /\ ~Present(page_lookup(r, d, va)) /\ ~Present(page_lookup(k, d, va))
  BY <1>1, RegionGood
<1> HIDE DEF p
<1>3. /\ p \in Page /\ p \notin Frames(k)
      /\ k'.env_pgdir = k.env_pgdir
      /\ Kept(k, k')
      /\ \A i \in Idx : k'.mem[p][i] = NotPresent
      /\ \/ /\ Good(k', lost) /\ View(k, k', d, va, [pp |-> p, w |-> TRUE])
            /\ Present(page_lookup(k', d, va))
         \/ /\ Good(k', lost \cup {p}) /\ SameView(k, k')
            /\ ~Present(page_lookup(k', d, va)) /\ ~Present(page_lookup(k, d, va))
  BY <1>2 DEF p
<1>4. Dirs(k') = Dirs(k) /\ Present([pp |-> p, w |-> TRUE])
  BY <1>3, DirsOf DEF Present, Page
<1>5. Good(k', lost')
  BY <1>3 DEF p
<1>6. Tidy(k')
  BY <1>1, <1>3, <1>4, ViewTidy, SameTidy
<1> QED
  BY <1>3, <1>4, <1>5, <1>6 DEF p

\* Every step preserves PmapInv, as long as pp_ref can count the pointers afterwards.
LEMMA StepInv == PmapInv /\ FitsOf(k') /\ [Next]_vars => PmapInv'
<1> SUFFICES ASSUME PmapInv, FitsOf(k'), [Next]_vars
             PROVE  MemoryInv' /\ TlbCoherent' /\ ControlInv'
  BY NextType DEF PmapInv
<1>0. /\ TypeInv /\ TypeOK /\ Good(k, lost) /\ Tidy(k) /\ TlbCoherent /\ ControlInv
      /\ k \in KMem /\ k.env_pgdir \in [Env -> 0 .. NPages]
      /\ VA \subseteq Idx \X Idx /\ NoEnv \notin Env
  BY EnvAssumption, StoreAssumption DEF PmapInv, MemoryInv, TypeInv, Good, KMem
<1>1. ASSUME NEW e \in Env, EnvCreate(e) PROVE MemoryInv' /\ TlbCoherent' /\ ControlInv'
  <2> DEFINE p == Head(k.page_free_list)
  <2>1. k.page_free_list # <<>> /\ k.env_pgdir[e] = 0 /\ k' = env_setup_vm(k, e)
    BY <1>0, <1>1 DEF EnvCreate, TypeInv, ControlInv, Live
  <2>2. /\ p \in Page /\ p \notin Dirs(k) /\ p \notin Frames(k)
        /\ Good(k', lost)
        /\ k'.env_pgdir = [k.env_pgdir EXCEPT ![e] = p]
        /\ Dirs(k') = Dirs(k) \cup {p}
        /\ Frames(k') = Frames(k)
        /\ SameView(k, k') /\ Kept(k, k')
        /\ \A u \in Idx \X Idx : page_lookup(k', p, u) = NotPresent
    BY <1>0, <2>1, SetupGood
  <2> HIDE DEF p
  <2>3. k'.env_pgdir[e] = p /\ p # 0
    BY <1>0, <2>2 DEF Page
  <2>4. Tidy(k')
    BY <1>0, <2>2 DEF Tidy, SameView
  <2>5. TlbCoherent'
    BY <1>1, <2>2, <2>3, FlushedTlb DEF EnvCreate
  <2>6. ControlInv'
    BY <1>0, <1>1 DEF EnvCreate, ControlInv
  <2> QED
    BY <1>1, <2>2, <2>4, <2>5, <2>6 DEF MemoryInv, EnvCreate
<1>2. ASSUME NEW va \in VA, LoadSegment(va) PROVE MemoryInv' /\ TlbCoherent' /\ ControlInv'
  <2> DEFINE d == k.env_pgdir[target]
             p == Head(k.page_free_list)
  <2>1. target \in Env /\ d \in Dirs(k) /\ curenv = NoEnv /\ cr3 = d /\ va \in Idx \X Idx
    BY <1>0, <1>2, LiveDir DEF LoadSegment, TypeOK, ControlInv
  <2>2. /\ mode = "load" /\ mode' \in {"load", "halt"} /\ curenv' = curenv /\ cr3' = cr3
        /\ target' = target /\ tlb' = tlb /\ ~Present(page_lookup(k, d, va))
    BY <1>2 DEF LoadSegment
  <2>3. CASE k.page_free_list = <<>>
    <3>1. k' = k /\ lost' = lost
      BY <1>2, <2>3 DEF LoadSegment
    <3> QED
      BY <1>0, <2>1, <2>2, <3>1 DEF MemoryInv, TlbCoherent, ControlInv, Live
  <2>4. CASE k.page_free_list # <<>>
    <3>1. /\ k' = region_alloc(k, d, va)
          /\ lost' = IF Present(page_lookup(k', d, va)) THEN lost ELSE lost \cup {p}
      BY <1>2, <2>4 DEF LoadSegment
    <3> HIDE DEF d
    <3>2. /\ k'.env_pgdir = k.env_pgdir /\ Dirs(k') = Dirs(k)
          /\ Good(k', lost') /\ Tidy(k')
          /\ \/ View(k, k', d, va, [pp |-> p, w |-> TRUE])
             \/ SameView(k, k')
      BY <1>0, <2>1, <2>4, <3>1, RegionStep
    <3> HIDE DEF p
    <3>3. ASSUME View(k, k', d, va, [pp |-> p, w |-> TRUE]) PROVE TlbCoherent'
      BY <1>0, <2>1, <2>2, <3>2, <3>3, ViewTlb
    <3>4. ASSUME SameView(k, k') PROVE TlbCoherent'
      BY <1>0, <2>2, <3>2, <3>4, SameTlb DEF TlbCoherent
    <3>5. ControlInv'
      BY <1>0, <2>1, <2>2, <3>2 DEF ControlInv, d
    <3> QED
      BY <3>2, <3>3, <3>4, <3>5 DEF MemoryInv
  <2> QED
    BY <2>3, <2>4
<1>3. ASSUME NEW va \in VA, LoadStack(va) PROVE MemoryInv' /\ TlbCoherent' /\ ControlInv'
  <2> DEFINE d == k.env_pgdir[target]
             p == Head(k.page_free_list)
  <2>1. target \in Env /\ d \in Dirs(k) /\ curenv = NoEnv /\ va \in Idx \X Idx
    BY <1>0, <1>3, LiveDir DEF LoadStack, TypeOK, ControlInv
  <2>2. mode' \in {"ready", "halt"} /\ cr3' = 0 /\ tlb' = EmptyTlb
    BY <1>3 DEF LoadStack
  <2>3. TlbCoherent' /\ ControlInv'
    BY <2>2, FlushedTlb DEF ControlInv
  <2>4. CASE k.page_free_list = <<>>
    <3>1. k' = k /\ lost' = lost
      BY <1>3, <2>4 DEF LoadStack
    <3> QED
      BY <1>0, <2>3, <3>1 DEF MemoryInv
  <2>5. CASE k.page_free_list # <<>>
    <3>1. /\ k' = region_alloc(k, d, va)
          /\ lost' = IF Present(page_lookup(k', d, va)) THEN lost ELSE lost \cup {p}
      BY <1>3, <2>5 DEF LoadStack
    <3>2. Good(k', lost') /\ Tidy(k')
      BY <1>0, <2>1, <2>5, <3>1, RegionStep
    <3> QED
      BY <2>3, <3>2 DEF MemoryInv
  <2> QED
    BY <2>4, <2>5
<1>4. ASSUME NEW e \in Env, env_run(e) PROVE MemoryInv' /\ TlbCoherent' /\ ControlInv'
  <2>1. k' = k /\ lost' = lost /\ cr3' = k.env_pgdir[e] /\ tlb' = EmptyTlb
        /\ curenv' = e /\ mode' = "run" /\ cr3' \in Dirs(k')
    BY <1>4, LiveDir DEF env_run
  <2> QED
    BY <1>0, <2>1, FlushedTlb DEF MemoryInv, ControlInv
<1>5. ASSUME Trap \/ Monitor \/ Halted PROVE MemoryInv' /\ TlbCoherent' /\ ControlInv'
  BY <1>0, <1>5 DEF Trap, Monitor, Halted, vars, MemoryInv, TlbCoherent, ControlInv, Live
<1>16. ASSUME UNCHANGED vars PROVE MemoryInv' /\ TlbCoherent' /\ ControlInv'
  BY <1>0, <1>16 DEF vars, MemoryInv, TlbCoherent, ControlInv, Live

<1>6. ASSUME NEW e \in Env, sys_exofork(e) PROVE MemoryInv' /\ TlbCoherent' /\ ControlInv'
  <2> DEFINE p == Head(k.page_free_list)
  <2>1. k.page_free_list # <<>> /\ k.env_pgdir[e] = 0 /\ k' = env_setup_vm(k, e)
        /\ mode = "run" /\ mode' = "kernel" /\ UNCHANGED <<curenv, cr3, tlb, target, lost>>
    BY <1>6 DEF sys_exofork, Syscalls, Live
  <2>2. /\ p \in Page /\ p \notin Dirs(k) /\ p \notin Frames(k)
        /\ Good(k', lost)
        /\ k'.env_pgdir = [k.env_pgdir EXCEPT ![e] = p]
        /\ Dirs(k') = Dirs(k) \cup {p}
        /\ Frames(k') = Frames(k)
        /\ SameView(k, k') /\ Kept(k, k')
        /\ \A u \in Idx \X Idx : page_lookup(k', p, u) = NotPresent
    BY <1>0, <2>1, SetupGood
  <2> HIDE DEF p
  <2>3. Tidy(k')
    BY <1>0, <2>2 DEF Tidy, SameView
  <2>4. TlbCoherent'
    BY <1>0, <2>1, <2>2, SameTlb DEF TlbCoherent
  <2>5. ControlInv'
    <3>1. cr3 # 0 => curenv # e
      BY <1>0, <2>1 DEF ControlInv
    <3>2. curenv \in Env
      BY <1>0, <2>1 DEF TypeOK
    <3>3. cr3 # 0 => k'.env_pgdir[curenv] = k.env_pgdir[curenv]
      BY <1>0, <2>2, <3>1, <3>2
    <3> QED
      BY <1>0, <2>1, <3>3 DEF ControlInv
  <2> QED
    BY <2>1, <2>2, <2>3, <2>4, <2>5 DEF MemoryInv
<1>7. ASSUME NEW s \in Env, NEW sv \in VA, NEW e \in Env, NEW dv \in VA, NEW w \in BOOLEAN,
             sys_page_map(s, sv, e, dv, w)
      PROVE  MemoryInv' /\ TlbCoherent' /\ ControlInv'
  <2> DEFINE src == page_lookup(k, k.env_pgdir[s], sv)
             d == k.env_pgdir[e]
             p == src.pp
  <2>1. /\ mode = "run" /\ mode' = "kernel" /\ UNCHANGED <<curenv, cr3, target, lost>>
        /\ Live(s) /\ Live(e) /\ Present(src)
        /\ k' = page_insert(k, p, d, dv, w) /\ tlb' \in TlbAfter(d, dv)
    BY <1>7 DEF sys_page_map, Syscalls
  <2>2. d \in Dirs(k) /\ k.env_pgdir[s] \in Dirs(k) /\ sv \in Idx \X Idx /\ dv \in Idx \X Idx
    BY <1>0, <2>1, LiveDir
  <2>3. p \in Frames(k)
    BY <1>0, <2>1, <2>2, FramesLookup DEF Present
  <2>4. p \in Page /\ p \notin Dirs(k) /\ p \notin Tables(k) /\ p \notin OnList(k) /\ p \notin lost
    BY <1>0, <2>3, ReferencedNotFree DEF Good, RolesOf
  <2> HIDE DEF p, d, src
  <2>5. /\ k'.env_pgdir = k.env_pgdir
        /\ \/ Good(k', lost \ {p}) /\ View(k, k', d, dv, [pp |-> p, w |-> w])
           \/ k' = k /\ ~Present(page_lookup(k, d, dv))
    <3>1. FitsOf(page_insert(k, p, d, dv, w))
      BY <2>1
    <3>2. LET r == page_insert(k, p, d, dv, w)
          IN  /\ r.env_pgdir = k.env_pgdir
              /\ Kept(k, r)
              /\ \/ Good(r, lost \ {p}) /\ View(k, r, d, dv, [pp |-> p, w |-> w])
                 \/ r = k /\ ~Present(page_lookup(k, d, dv))
      BY <1>0, <2>2, <2>4, <3>1, InsertGood
    <3> QED
      BY <2>1, <3>2
  <2>6. ControlInv'
    BY <1>0, <2>1, <2>5 DEF ControlInv
  <2>9. TlbCoherent'
    <3>1. d # 0
      BY <2>2 DEF Dirs
    <3> QED
      BY <1>0, <2>1, <2>5, <3>1, EditedTlb
  <2>7. CASE Good(k', lost \ {p}) /\ View(k, k', d, dv, [pp |-> p, w |-> w])
    <3>1. lost \ {p} = lost
      BY <2>4
    <3>2. Dirs(k') = Dirs(k) /\ Present([pp |-> p, w |-> w])
      BY <2>4, <2>5, DirsOf DEF Present, Page
    <3>3. Tidy(k')
      BY <1>0, <2>2, <2>7, <3>2, ViewTidy
    <3> QED
      BY <2>1, <2>6, <2>7, <2>9, <3>1, <3>3 DEF MemoryInv
  <2>8. CASE k' = k /\ ~Present(page_lookup(k, d, dv))
    BY <1>0, <2>1, <2>6, <2>8, <2>9 DEF MemoryInv
  <2> QED
    BY <2>5, <2>7, <2>8
\* The common part of sys_page_unmap and of env_free's loop over a page table.
<1>8. ASSUME NEW d \in Dirs(k), NEW va \in Idx \X Idx,
             k' = page_remove(k, d, va), tlb' \in TlbAfter(d, va), mode' \in {"kernel", "free"},
             UNCHANGED <<curenv, cr3, lost>>
      PROVE  k'.env_pgdir = k.env_pgdir /\ MemoryInv' /\ TlbCoherent'
  <2>1. k'.env_pgdir = k.env_pgdir /\ Good(k', lost)
    BY <1>0, <1>8, RemoveGood
  <2>2. /\ IF Present(page_lookup(k, d, va)) THEN View(k, k', d, va, NotPresent) ELSE k' = k
    BY <1>0, <1>8, RemoveView
  <2>3. TlbCoherent'
    <3>1. d # 0
      BY <1>8 DEF Dirs
    <3> QED
      BY <1>0, <1>8, <2>1, <3>1, EditedTlb
  <2>4. CASE Present(page_lookup(k, d, va))
    <3>1. View(k, k', d, va, NotPresent) /\ Dirs(k') = Dirs(k)
      BY <2>1, <2>2, <2>4, DirsOf
    <3>2. Tidy(k')
      BY <1>0, <1>8, <3>1, ViewTidy
    <3> QED
      BY <1>8, <2>1, <2>3, <3>2 DEF MemoryInv
  <2>5. CASE ~Present(page_lookup(k, d, va))
    BY <1>0, <1>8, <2>1, <2>2, <2>3, <2>5 DEF MemoryInv
  <2> QED
    BY <2>4, <2>5
<1>9. ASSUME NEW e \in Env, NEW va \in VA, sys_page_unmap(e, va)
      PROVE  MemoryInv' /\ TlbCoherent' /\ ControlInv'
  <2> DEFINE d == k.env_pgdir[e]
  <2>1. /\ mode = "run" /\ mode' = "kernel" /\ UNCHANGED <<curenv, cr3, target, lost>>
        /\ Live(e) /\ k' = page_remove(k, d, va) /\ tlb' \in TlbAfter(d, va)
    BY <1>9 DEF sys_page_unmap, Syscalls
  <2>2. d \in Dirs(k) /\ va \in Idx \X Idx
    BY <1>0, <2>1, LiveDir
  <2>3. k'.env_pgdir = k.env_pgdir /\ MemoryInv' /\ TlbCoherent'
    BY <1>8, <2>1, <2>2
  <2> QED
    BY <1>0, <2>1, <2>3 DEF ControlInv
<1>10. ASSUME NEW e \in Env, env_destroy(e) PROVE MemoryInv' /\ TlbCoherent' /\ ControlInv'
  <2>1. /\ mode = "run" /\ mode' = "free" /\ target' = e /\ UNCHANGED <<k, curenv, lost>>
        /\ IF e = curenv THEN cr3' = 0 /\ tlb' = EmptyTlb ELSE UNCHANGED <<cr3, tlb>>
    BY <1>10 DEF env_destroy
  <2>2. MemoryInv'
    BY <1>0, <2>1 DEF MemoryInv
  <2>3. TlbCoherent'
    BY <1>0, <2>1, FlushedTlb DEF TlbCoherent
  <2> QED
    BY <1>0, <2>1, <2>2, <2>3 DEF ControlInv
<1>11. ASSUME mode = "free"
       PROVE  target \in Env /\ Live(target) /\ FreeDir \in Dirs(k) /\ FreeDir = k.env_pgdir[target]
  BY <1>0, <1>11, LiveDir DEF FreeDir, TypeOK
<1>12. ASSUME NEW x \in Idx, NEW y \in Idx, EnvFreePte(x, y)
       PROVE  MemoryInv' /\ TlbCoherent' /\ ControlInv'
  <2>1. /\ mode = "free" /\ mode' = mode /\ UNCHANGED <<curenv, cr3, target, lost>>
        /\ k' = page_remove(k, FreeDir, <<x, y>>) /\ tlb' \in TlbAfter(FreeDir, <<x, y>>)
    BY <1>12 DEF EnvFreePte
  <2>2. FreeDir \in Dirs(k) /\ <<x, y>> \in Idx \X Idx
    BY <1>11, <2>1
  <2>3. k'.env_pgdir = k.env_pgdir /\ MemoryInv' /\ TlbCoherent'
    BY <1>8, <2>1, <2>2
  <2> QED
    BY <1>0, <2>1, <2>3 DEF ControlInv
<1>13. ASSUME NEW x \in Idx, EnvFreeTable(x) PROVE MemoryInv' /\ TlbCoherent' /\ ControlInv'
  <2> DEFINE d == FreeDir
             t == k.mem[d][x].pp
  <2>1. /\ mode = "free" /\ UNCHANGED <<curenv, cr3, tlb, mode, target, lost>>
        /\ Present(k.mem[d][x]) /\ \A y \in Idx : ~Present(k.mem[t][y])
        /\ k' = page_decref(PutEntry(k, d, x, NotPresent), t)
    BY <1>13 DEF EnvFreeTable, AtPde
  <2>2. d \in Dirs(k)
    BY <1>11, <2>1
  <2> HIDE DEF d
  <2>3. \A y \in Idx : k.mem[t][y] = NotPresent
    <3> SUFFICES ASSUME NEW y \in Idx PROVE k.mem[t][y] = NotPresent
      OBVIOUS
    <3>1. page_lookup(k, d, <<x, y>>) = k.mem[t][y] /\ <<x, y>> \in Idx \X Idx
      BY <2>1 DEF page_lookup
    <3> QED
      BY <1>0, <2>1, <2>2, <3>1 DEF Tidy
  <2>4. /\ Good(k', lost) /\ k'.env_pgdir = k.env_pgdir /\ SameView(k, k')
    BY <1>0, <2>1, <2>2, <2>3, FreeTableGood
  <2>5. Dirs(k') = Dirs(k)
    BY <2>4, DirsOf
  <2>6. Tidy(k') /\ TlbCoherent'
    BY <1>0, <2>1, <2>4, <2>5, SameTidy, SameTlb DEF TlbCoherent
  <2>7. ControlInv'
    BY <1>0, <2>1, <2>4 DEF ControlInv
  <2> QED
    BY <2>1, <2>4, <2>6, <2>7 DEF MemoryInv
<1>14. ASSUME EnvFreeDir PROVE MemoryInv' /\ TlbCoherent' /\ ControlInv'
  <2>1. /\ mode = "free" /\ mode' = "kernel" /\ UNCHANGED <<cr3, tlb, lost>>
        /\ curenv' = IF curenv = target THEN NoEnv ELSE curenv
        /\ \A x \in Idx : ~Present(k.mem[FreeDir][x])
        /\ k' = page_decref([k EXCEPT !.env_pgdir[target] = 0], FreeDir)
    BY <1>14 DEF EnvFreeDir
  <2>2. /\ target \in Env /\ k.env_pgdir[target] # 0 /\ FreeDir = k.env_pgdir[target]
        /\ FreeDir \in Dirs(k)
    BY <1>11, <2>1 DEF Live
  <2>3. /\ Good(k', lost)
        /\ k'.env_pgdir = [k.env_pgdir EXCEPT ![target] = 0]
        /\ Dirs(k') = Dirs(k) \ {FreeDir}
        /\ SameView(k, k')
    BY <1>0, <2>1, <2>2, FreeDirGood
  <2>4. /\ curenv \in Env
        /\ cr3 # 0 => curenv # target /\ cr3 = k.env_pgdir[curenv]
    BY <1>0, <2>1 DEF ControlInv, TypeOK
  <2>5. cr3 # 0 => cr3 # FreeDir /\ cr3 \in Dirs(k')
    BY <1>0, <2>2, <2>3, <2>4 DEF TlbCoherent, Good, RolesOf
  <2>6. Tidy(k') /\ TlbCoherent'
    BY <1>0, <2>1, <2>3, <2>5, SameTidy, SameTlb
  <2>7. cr3 # 0 => k'.env_pgdir[curenv] = k.env_pgdir[curenv]
    BY <1>0, <2>3, <2>4
  <2>8. ControlInv'
    BY <1>0, <2>1, <2>4, <2>7 DEF ControlInv
  <2> QED
    BY <2>1, <2>3, <2>6, <2>8 DEF MemoryInv
<1>15. ASSUME NEW va \in VA, TlbFill(va) PROVE MemoryInv' /\ TlbCoherent' /\ ControlInv'
  <2>1. /\ cr3 # 0 /\ UNCHANGED <<k, curenv, cr3, mode, target, lost>>
        /\ tlb' = [tlb EXCEPT ![va] = page_lookup(k, cr3, va)]
    BY <1>15 DEF TlbFill
  <2>2. tlb \in [VA -> Word]
    BY <1>0 DEF TypeOK
  <2>3. TlbCoherent'
    BY <1>0, <2>1, <2>2 DEF TlbCoherent
  <2> QED
    BY <1>0, <2>1, <2>3 DEF MemoryInv, ControlInv, Live
<1>17. ASSUME NEW va \in VA, NEW i \in Idx, NEW word \in StoreWord, Store(va, i, word)
       PROVE  MemoryInv' /\ TlbCoherent' /\ ControlInv'
  <2> DEFINE p == tlb[va].pp
  <2>1. /\ mode \in {"load", "run"} /\ UNCHANGED <<curenv, cr3, tlb, mode, target, lost>>
        /\ Present(tlb[va]) /\ k' = PutEntry(k, p, i, word)
    BY <1>17 DEF Store
  <2>2. cr3 \in Dirs(k) /\ page_lookup(k, cr3, va).pp = p /\ p # 0 /\ va \in Idx \X Idx
    BY <1>0, <2>1 DEF TlbCoherent, Present
  <2>3. p \in Frames(k)
    BY <1>0, <2>2, FramesLookup
  <2>4. p \in Page /\ p \notin Dirs(k) /\ p \notin Tables(k) /\ word \in Word
    BY <1>0, <2>3, RoleTypes, StoreAssumption DEF Good, RolesOf
  <2> HIDE DEF p
  <2>5. /\ Good(k', lost) /\ Dirs(k') = Dirs(k) /\ k'.env_pgdir = k.env_pgdir /\ SameView(k, k')
    BY <1>0, <2>1, <2>4, StoreGood
  <2>6. Tidy(k') /\ TlbCoherent'
    BY <1>0, <2>1, <2>5, SameTidy, SameTlb DEF TlbCoherent
  <2>7. ControlInv'
    BY <1>0, <2>1, <2>5 DEF ControlInv
  <2> QED
    BY <2>1, <2>5, <2>6, <2>7 DEF MemoryInv
<1> QED
  BY <1>1, <1>2, <1>3, <1>4, <1>5, <1>6, <1>7, <1>9, <1>10, <1>12, <1>13, <1>14, <1>15,
     <1>16, <1>17
  DEF Next, Boot, Syscall, Free, Cpu

-----------------------------------------------------------------------------
(* The theorems.                                                             *)

\* No page has as many pointers as overflow pp_ref, the uint16_t that counts them.
RefsFit == FitsOf(k)

\* PmapInv is an invariant of every behaviour in which no count overflows.
LEMMA PmapInvariant == Spec /\ []RefsFit => []PmapInv
<1>1. Init => PmapInv
  BY InitInv
<1>2. PmapInv /\ RefsFit' /\ [Next]_vars => PmapInv'
  BY StepInv DEF RefsFit
<1> QED
  BY <1>1, <1>2, PTL DEF Spec

\* pp_ref is the number of pointers to the page in every reachable state, env_free's
\* half-done ones included, unless some page gets RefMod or more pointers.
THEOREM RefCountExact == Spec /\ []RefsFit => []RefCount
<1>1. PmapInv => RefCount
  BY DEF PmapInv, MemoryInv, Good, RefCount
<1> QED
  BY <1>1, PmapInvariant, PTL

\* The free list holds exactly the unreferenced pages, each once, but for those
\* that region_alloc lost: nothing else leaks and nothing is freed while in use.
THEOREM NoLeakNoDoubleFree == Spec /\ []RefsFit => []FreeListExact
<1>1. PmapInv => FreeListExact
  BY DEF PmapInv, MemoryInv, Good, FreeListExact
<1> QED
  BY <1>1, PmapInvariant, PTL

\* No page is ever a directory and a table, or a table of two directories, or both a
\* page table and reachable by user code.
THEOREM PageRolesDisjoint == Spec /\ []RefsFit => []RolesDisjoint
<1>1. PmapInv => RolesDisjoint
  BY DEF PmapInv, MemoryInv, Good, RolesDisjoint
<1> QED
  BY <1>1, PmapInvariant, PTL

\* cr3 never holds a freed directory, and while user code runs or load_icode fills a
\* segment the TLB holds no translation that the loaded page tables do not give: what
\* page_remove and page_insert may leave in it, because they flush before they rewrite
\* the entry, is gone when env_run has loaded cr3.
THEOREM TlbAlwaysCoherent == Spec /\ []RefsFit => []TlbCoherent
<1>1. PmapInv => TlbCoherent
  BY DEF PmapInv
<1> QED
  BY <1>1, PmapInvariant, PTL

\* In a machine too small for a count to overflow, RefsFit needs no assuming.
THEOREM SmallMachineFits ==
  ASSUME NPages * NIdx < RefMod
  PROVE  Spec => []RefsFit
<1>1. TypeOK => RefsFit
  <2> SUFFICES ASSUME k \in KMem, NEW p \in Page
               PROVE  Cardinality(EntryRefs(k, p)) < RefMod
    BY DEF TypeOK, RefsFit, FitsOf
  <2>1. Cardinality(EntryRefs(k, p)) \in Nat /\ Cardinality(EntryRefs(k, p)) <= NPages * NIdx
    BY RefsFinite
  <2>2. NPages * NIdx \in Nat /\ RefMod \in Nat
    BY PagesAssumption, RefAssumption
  <2> QED
    BY <2>1, <2>2
<1> QED
  BY <1>1, PmapTypeCorrect, PTL

-----------------------------------------------------------------------------
(* The refinement: what user code sees of a step is a step of AddressSpaces. *)

\* The frames are the pages that some address of some environment shows.
LEMMA FramesMapped ==
  k \in KMem /\ Tidy(k) => \A p \in Page : p \in Frames(k) <=> Spaces!Mapped(p)
<1> SUFFICES ASSUME k \in KMem, Tidy(k), NEW p \in Page
             PROVE  p \in Frames(k) <=> Spaces!Mapped(p)
  OBVIOUS
<1>1. p # 0 /\ VA \subseteq Idx \X Idx /\ NotPresent.pp = 0
  BY StoreAssumption DEF Page, NotPresent
<1>2. ASSUME p \in Frames(k) PROVE Spaces!Mapped(p)
  <2>1. PICK d \in Dirs(k), u \in Idx \X Idx : page_lookup(k, d, u).pp = p
    BY <1>2, FramesLookup
  <2>2. PICK e \in Env : k.env_pgdir[e] = d /\ d # 0
    BY DEF Dirs
  <2>3. u \in VA
    BY <1>1, <2>1 DEF Tidy
  <2>4. space[e][u] = page_lookup(k, d, u)
    BY <2>2, <2>3 DEF space, Live
  <2> QED
    BY <2>1, <2>3, <2>4 DEF Spaces!Mapped
<1>3. ASSUME Spaces!Mapped(p) PROVE p \in Frames(k)
  <2>1. PICK e \in Env, va \in VA : space[e][va].pp = p
    BY <1>3 DEF Spaces!Mapped
  <2>2. Live(e) /\ page_lookup(k, k.env_pgdir[e], va).pp = p
    BY <1>1, <2>1 DEF space
  <2>3. k.env_pgdir[e] \in Dirs(k) /\ va \in Idx \X Idx
    BY <1>1, <2>2, LiveDir
  <2> QED
    BY <1>1, <2>2, <2>3, FramesLookup
<1> QED
  BY <1>2, <1>3

\* FramesMapped, after a step.
LEMMA FramesMappedAfter ==
  (k \in KMem /\ Tidy(k) => \A p \in Page : p \in Frames(k) <=> Spaces!Mapped(p))'
BY FramesMapped, PTL

\* A change of one address of one directory is a change of one entry of one space.
LEMMA ViewSpace ==
  ASSUME RolesOf(k), k'.env_pgdir = k.env_pgdir, NEW e \in Env, Live(e), NEW va \in VA,
         NEW word, View(k, k', k.env_pgdir[e], va, word)
  PROVE  space' = [space EXCEPT ![e][va] = word]
<1>1. VA \subseteq Idx \X Idx
  BY StoreAssumption
<1>2. ASSUME NEW f \in Env, NEW u \in VA
      PROVE  (IF k'.env_pgdir[f] # 0 THEN page_lookup(k', k'.env_pgdir[f], u) ELSE NotPresent)
               = IF f = e /\ u = va THEN word
                 ELSE IF Live(f) THEN page_lookup(k, k.env_pgdir[f], u) ELSE NotPresent
  <2>1. CASE Live(f)
    <3>1. k.env_pgdir[f] \in Dirs(k) /\ u \in Idx \X Idx
      BY <1>1, <2>1, LiveDir
    <3>2. k.env_pgdir[f] = k.env_pgdir[e] <=> f = e
      BY <2>1 DEF RolesOf, Live
    <3>3. page_lookup(k', k.env_pgdir[f], u)
            = IF k.env_pgdir[f] = k.env_pgdir[e] /\ u = va THEN word
              ELSE page_lookup(k, k.env_pgdir[f], u)
      BY <3>1 DEF View
    <3> QED
      BY <2>1, <3>2, <3>3 DEF Live
  <2>2. CASE ~Live(f)
    BY <2>2 DEF Live
  <2> QED
    BY <2>1, <2>2
<1>3. space' = [f \in Env |-> [u \in VA |->
                  IF k'.env_pgdir[f] # 0 THEN page_lookup(k', k'.env_pgdir[f], u) ELSE NotPresent]]
  BY DEF space, Live
<1>4. [space EXCEPT ![e][va] = word]
        = [f \in Env |-> [u \in VA |-> IF f = e /\ u = va THEN word ELSE space[f][u]]]
  BY DEF space
<1>5. \A f \in Env, u \in VA :
        space[f][u] = IF Live(f) THEN page_lookup(k, k.env_pgdir[f], u) ELSE NotPresent
  BY DEF space
<1> QED
  BY <1>2, <1>3, <1>4, <1>5

\* Steps after which every address shows what it did; slots may come and go as long
\* as their directories are empty.
LEMMA SameSpace ==
  ASSUME \A f \in Env, u \in VA :
           (IF k'.env_pgdir[f] # 0 THEN page_lookup(k', k'.env_pgdir[f], u) ELSE NotPresent)
             = IF Live(f) THEN page_lookup(k, k.env_pgdir[f], u) ELSE NotPresent
  PROVE  space' = space
BY DEF space, Live

\* SameSpace for steps that leave env_pgdir alone.
LEMMA SameViewSpace ==
  ASSUME SameView(k, k'), k'.env_pgdir = k.env_pgdir
  PROVE  space' = space
<1>1. VA \subseteq Idx \X Idx
  BY StoreAssumption
<1>2. \A f \in Env : Live(f) => k.env_pgdir[f] \in Dirs(k)
  BY LiveDir
<1> QED
  BY <1>1, <1>2, SameSpace DEF SameView, Live

\* The frames that stay mapped keep their contents, the others are cleared.
LEMMA KeptData ==
  ASSUME PmapInv, PmapInv', Kept(k, k'),
         \A p \in Frames(k') \ Frames(k), i \in Idx : k'.mem[p][i] = NotPresent
  PROVE  Spaces!KeepData
<1>1. /\ k \in KMem /\ Tidy(k) /\ k' \in KMem /\ Tidy(k') /\ Good(k, lost)
      /\ k.mem \in [Page -> [Idx -> Word]] /\ k'.mem \in [Page -> [Idx -> Word]]
  BY DEF PmapInv, MemoryInv, Good, KMem
<1>2. \A p \in Page : p \in Frames(k) <=> Spaces!Mapped(p)
  BY <1>1, FramesMapped
<1>3. \A p \in Page : p \in Frames(k') <=> Spaces!Mapped(p)'
  BY <1>1, FramesMappedAfter
<1>4. \A p \in Frames(k) : p \in Page \ (Dirs(k) \cup Tables(k) \cup OnList(k))
  BY <1>1, ReferencedNotFree DEF Good, RolesOf
<1>5. ASSUME NEW p \in Frames(k), p \in Page PROVE k'.mem[p] = k.mem[p]
  <2>1. \A i \in Idx : k'.mem[p][i] = k.mem[p][i]
    BY <1>4, <1>5 DEF Kept
  <2>2. k'.mem[p] \in [Idx -> Word] /\ k.mem[p] \in [Idx -> Word]
    BY <1>1, <1>5
  <2> QED
    BY <2>1, <2>2
<1>6. ASSUME NEW p \in Page, p \in Frames(k'), p \notin Frames(k) PROVE k'.mem[p] = ZeroPage
  <2>1. \A i \in Idx : k'.mem[p][i] = NotPresent
    BY <1>6
  <2>2. k'.mem[p] \in [Idx -> Word]
    BY <1>1, <1>6
  <2> QED
    BY <2>1, <2>2 DEF ZeroPage
<1>7. data' = [p \in Page |-> IF p \in Frames(k') THEN k'.mem[p] ELSE ZeroPage]
  BY DEF data
<1>8. \A p \in Page : data[p] = IF p \in Frames(k) THEN k.mem[p] ELSE ZeroPage
  BY DEF data
<1>9. \A p \in Page : (IF p \in Frames(k') THEN k'.mem[p] ELSE ZeroPage)
                       = IF p \in Frames(k') /\ p \in Frames(k) THEN data[p] ELSE ZeroPage
  BY <1>5, <1>6, <1>8
<1> QED
  BY <1>2, <1>3, <1>7, <1>9 DEF Spaces!KeepData, Spaces!ZeroFrame, ZeroPage

\* A step that no space shows does not change what the frames hold either.
LEMMA StutterSpace ==
  ASSUME PmapInv, PmapInv', Kept(k, k'), space' = space
  PROVE  UNCHANGED Spaces!spaceVars
<1>1. k \in KMem /\ Tidy(k) /\ k' \in KMem /\ Tidy(k')
  BY DEF PmapInv, MemoryInv, Good
<1>2. \A p \in Page : Spaces!Mapped(p)' <=> Spaces!Mapped(p)
  BY DEF Spaces!Mapped
<1>3. /\ \A p \in Page : p \in Frames(k) <=> Spaces!Mapped(p)
      /\ \A p \in Page : p \in Frames(k') <=> Spaces!Mapped(p)'
  BY <1>1, FramesMapped, FramesMappedAfter
<1>4. Frames(k') \ Frames(k) = {}
  BY <1>1, <1>2, <1>3, RoleTypes
<1>5. Spaces!KeepData
  BY <1>4, KeptData
<1>6. \A p \in Page : data[p] = IF p \in Frames(k) THEN k.mem[p] ELSE ZeroPage
  BY DEF data
<1>7. data = [p \in Page |-> data[p]]
  BY DEF data
<1>8. data' = [p \in Page |-> IF p \in Frames(k) THEN data[p] ELSE ZeroPage]
  BY <1>2, <1>3, <1>5 DEF Spaces!KeepData, Spaces!ZeroFrame, ZeroPage
<1>9. data' = data
  BY <1>6, <1>7, <1>8
<1> QED
  BY <1>9 DEF Spaces!spaceVars

\* Only the frame of the new entry can be new.
LEMMA ViewFrames ==
  ASSUME NEW m \in KMem, NEW n \in KMem, Dirs(n) = Dirs(m),
         NEW d \in Dirs(m), NEW va \in Idx \X Idx, NEW word, View(m, n, d, va, word)
  PROVE  \A p \in Frames(n) : p \in Frames(m) \/ p = word.pp
<1> SUFFICES ASSUME NEW p \in Frames(n), p # word.pp PROVE p \in Frames(m)
  OBVIOUS
<1>1. p # 0 /\ \E c \in Dirs(n), u \in Idx \X Idx : page_lookup(n, c, u).pp = p
  BY FramesLookup
<1>2. PICK c \in Dirs(m), u \in Idx \X Idx : page_lookup(n, c, u).pp = p
  BY <1>1
<1>3. page_lookup(m, c, u).pp = p
  BY <1>2 DEF View
<1> QED
  BY <1>1, <1>3, FramesLookup

\* The initial states show empty address spaces.
LEMMA InitSpace == Init => Spaces!SpaceInit
<1> SUFFICES ASSUME Init PROVE Spaces!SpaceInit
  OBVIOUS
<1>1. k.env_pgdir = [e \in Env |-> 0]
  BY DEF Init
<1>2. Dirs(k) = {} /\ \A e \in Env : ~Live(e)
  BY <1>1 DEF Dirs, Live
<1>3. Tables(k) = {}
  BY <1>2 DEF Tables
<1>4. Frames(k) = {}
  BY <1>3 DEF Frames
<1>5. space = [e \in Env |-> [va \in VA |-> NotPresent]]
  BY <1>2 DEF space
<1>6. data = [p \in Page |-> ZeroPage]
  BY <1>4 DEF data
<1> QED
  BY <1>5, <1>6 DEF Spaces!SpaceInit, Spaces!NoEntry, Spaces!ZeroFrame, NotPresent, ZeroPage

\* page_remove, of sys_page_unmap or of env_free, shows as Unmap or as nothing.
LEMMA RemoveStep ==
  ASSUME PmapInv, PmapInv', NEW e \in Env, Live(e), NEW va \in Idx \X Idx,
         k' = page_remove(k, k.env_pgdir[e], va)
  PROVE  [Spaces!SpaceNext]_(Spaces!spaceVars)
<1> DEFINE d == k.env_pgdir[e]
<1>1. /\ k \in KMem /\ Tidy(k) /\ k' \in KMem /\ Good(k, lost) /\ RolesOf(k) /\ d \in Dirs(k)
      /\ NotPresent.pp = 0
  BY LiveDir DEF PmapInv, MemoryInv, Good, NotPresent
<1>2. /\ IF Present(page_lookup(k, d, va)) THEN View(k, k', d, va, NotPresent) ELSE k' = k
      /\ Kept(k, k')
  BY <1>1, RemoveView
<1>3. k'.env_pgdir = k.env_pgdir /\ Dirs(k') = Dirs(k)
  BY <1>1, RemoveGood, DirsOf
<1>4. CASE Present(page_lookup(k, d, va))
  <2>1. View(k, k', d, va, NotPresent)
    BY <1>2, <1>4
  <2>2. va \in VA
    BY <1>1, <1>4 DEF Tidy, Present
  <2>3. space' = [space EXCEPT ![e][va] = NotPresent]
    BY <1>1, <1>3, <2>1, <2>2, ViewSpace
  <2>4. Frames(k') \ Frames(k) = {}
    <3>1. 0 \notin Frames(k')
      BY DEF Frames
    <3>2. \A p \in Frames(k') : p \in Frames(k) \/ p = NotPresent.pp
      BY <1>1, <1>3, <2>1, ViewFrames
    <3> QED
      BY <1>1, <3>1, <3>2
  <2>5. Spaces!KeepData
    BY <1>2, <2>4, KeptData
  <2>6. Spaces!Unmap(e, va)
    BY <2>3, <2>5 DEF Spaces!Unmap, Spaces!NoEntry, NotPresent
  <2> QED
    BY <2>2, <2>6 DEF Spaces!SpaceNext
<1>5. CASE ~Present(page_lookup(k, d, va))
  <2>1. k' = k
    BY <1>2, <1>5
  <2>2. space' = space
    BY <2>1 DEF space, Live
  <2> QED
    BY <1>2, <2>2, StutterSpace
<1> QED
  BY <1>4, <1>5

\* region_alloc shows as MapFresh, or as nothing when the page is lost.
LEMMA RegionSpace ==
  ASSUME PmapInv, PmapInv', FitsOf(k'), NEW e \in Env, Live(e), NEW va \in VA,
         k.page_free_list # <<>>, k' = region_alloc(k, k.env_pgdir[e], va),
         lost' = IF Present(page_lookup(k', k.env_pgdir[e], va)) THEN lost
                 ELSE lost \cup {Head(k.page_free_list)}
  PROVE  [Spaces!SpaceNext]_(Spaces!spaceVars)
<1> DEFINE d == k.env_pgdir[e]
           p == Head(k.page_free_list)
           word == [pp |-> p, w |-> TRUE]
<1>1. /\ k \in KMem /\ Tidy(k) /\ k' \in KMem /\ Good(k, lost) /\ RolesOf(k) /\ d \in Dirs(k)
      /\ va \in Idx \X Idx
  BY LiveDir, StoreAssumption DEF PmapInv, MemoryInv, Good
<1>2. /\ p \in Page /\ p \notin Frames(k)
      /\ k'.env_pgdir = k.env_pgdir /\ Dirs(k') = Dirs(k)
      /\ Kept(k, k')
      /\ \A i \in Idx : k'.mem[p][i] = NotPresent
      /\ \/ View(k, k', d, va, [pp |-> p, w |-> TRUE])
         \/ SameView(k, k') /\ ~Present(page_lookup(k, d, va))
  BY <1>1, RegionStep
<1> HIDE DEF p
<1>3. CASE View(k, k', d, va, word)
  <2>1. space' = [space EXCEPT ![e][va] = word]
    BY <1>1, <1>2, <1>3, ViewSpace
  <2>2. \A q \in Frames(k') : q \in Frames(k) \/ q = word.pp
    BY <1>1, <1>2, <1>3, ViewFrames
  <2>3. \A q \in Frames(k') \ Frames(k), i \in Idx : k'.mem[q][i] = NotPresent
    BY <1>2, <2>2
  <2>4. Spaces!KeepData
    BY <1>2, <2>3, KeptData
  <2>5. ~Spaces!Mapped(p)
    BY <1>1, <1>2, FramesMapped
  <2>6. Spaces!MapFresh(e, va, p)
    BY <2>1, <2>4, <2>5 DEF Spaces!MapFresh
  <2> QED
    BY <1>2, <2>6 DEF Spaces!SpaceNext
<1>4. CASE SameView(k, k')
  BY <1>2, <1>4, SameViewSpace, StutterSpace
<1> QED
  BY <1>2, <1>3, <1>4

\* env_setup_vm shows as nothing: the new address space is empty.
LEMMA SetupStep ==
  ASSUME PmapInv, PmapInv', NEW e \in Env, ~Live(e), k.page_free_list # <<>>,
         k' = env_setup_vm(k, e)
  PROVE  UNCHANGED Spaces!spaceVars
<1> DEFINE p == Head(k.page_free_list)
<1>1. k \in KMem /\ Good(k, lost) /\ k.env_pgdir[e] = 0 /\ VA \subseteq Idx \X Idx
  BY StoreAssumption DEF PmapInv, MemoryInv, Good, Live
<1>2. /\ p \in Page
      /\ k'.env_pgdir = [k.env_pgdir EXCEPT ![e] = p]
      /\ SameView(k, k') /\ Kept(k, k')
      /\ \A u \in Idx \X Idx : page_lookup(k', p, u) = NotPresent
  BY <1>1, SetupGood
<1> HIDE DEF p
<1>3. \A f \in Env : k'.env_pgdir[f] = IF f = e THEN p ELSE k.env_pgdir[f]
  BY <1>1, <1>2 DEF KMem
<1>4. ASSUME NEW f \in Env, NEW u \in VA
      PROVE  (IF k'.env_pgdir[f] # 0 THEN page_lookup(k', k'.env_pgdir[f], u) ELSE NotPresent)
               = IF Live(f) THEN page_lookup(k, k.env_pgdir[f], u) ELSE NotPresent
  <2>1. CASE f = e
    BY <1>1, <1>2, <1>3, <2>1
  <2>2. CASE f # e
    <3>1. Live(f) => k.env_pgdir[f] \in Dirs(k)
      BY LiveDir
    <3> QED
      BY <1>1, <1>2, <1>3, <2>2, <3>1 DEF SameView, Live
  <2> QED
    BY <2>1, <2>2
<1>5. space' = space
  BY <1>4, SameSpace
<1> QED
  BY <1>2, <1>5, StutterSpace

\* A store through the TLB shows as Write: it reaches the frame that the address shows.
LEMMA StoreStep ==
  ASSUME PmapInv, PmapInv', NEW va \in VA, NEW i \in Idx, NEW word \in StoreWord,
         Store(va, i, word)
  PROVE  [Spaces!SpaceNext]_(Spaces!spaceVars)
<1> DEFINE p == tlb[va].pp
           e == IF mode = "load" THEN target ELSE curenv
<1>1. /\ k \in KMem /\ Tidy(k) /\ k' \in KMem /\ Good(k, lost) /\ RolesOf(k)
      /\ va \in Idx \X Idx /\ word \in Word /\ k.mem \in [Page -> [Idx -> Word]]
      /\ k'.mem \in [Page -> [Idx -> Word]]
  BY StoreAssumption DEF PmapInv, MemoryInv, Good, KMem
<1>2. mode \in {"load", "run"} /\ Present(tlb[va]) /\ tlb[va].w /\ k' = PutEntry(k, p, i, word)
  BY DEF Store
<1>3. cr3 \in Dirs(k) /\ cr3 # 0 /\ page_lookup(k, cr3, va) = tlb[va] /\ p # 0
  BY <1>2 DEF PmapInv, TlbCoherent, Present
<1>4. e \in Env /\ k.env_pgdir[e] = cr3 /\ Live(e)
  BY <1>2, <1>3 DEF PmapInv, ControlInv, TypeInv, TypeOK, Live
<1> HIDE DEF e
<1>5. space[e][va] = tlb[va]
  BY <1>3, <1>4 DEF space
<1>6. p \in Frames(k)
  BY <1>1, <1>3, FramesLookup
<1>7. p \in Page /\ p \notin Dirs(k) /\ p \notin Tables(k)
  BY <1>1, <1>6, RoleTypes DEF RolesOf
<1> HIDE DEF p
<1>8. /\ Frames(k') = Frames(k) /\ k'.env_pgdir = k.env_pgdir
      /\ SameView(k, k')
  <2>1. Good(k, lost) /\ p \in Page /\ p \notin Dirs(k) /\ p \notin Tables(k) /\ word \in Word
    BY <1>1, <1>7
  <2>2. LET n == PutEntry(k, p, i, word)
        IN  /\ Good(n, lost)
            /\ Dirs(n) = Dirs(k) /\ Tables(n) = Tables(k) /\ Frames(n) = Frames(k)
            /\ n.env_pgdir = k.env_pgdir
            /\ Written(k, n, p, i, word)
            /\ SameView(k, n)
    BY <2>1, StoreGood
  <2> QED
    BY <1>2, <2>2
<1>9. space' = space
  BY <1>8, SameViewSpace
<1>10. k'.mem = [k.mem EXCEPT ![p][i] = word]
  BY <1>1, <1>2 DEF PutEntry, KMem
<1>11. data = [q \in Page |-> IF q \in Frames(k) THEN k.mem[q] ELSE ZeroPage]
       /\ data' = [q \in Page |-> IF q \in Frames(k) THEN k'.mem[q] ELSE ZeroPage]
  BY <1>8 DEF data
<1>12. data' = [data EXCEPT ![p][i] = word]
  <2>1. data[p] = k.mem[p]
    BY <1>6, <1>7, <1>11
  <2>2. \A q \in Page : k'.mem[q] = IF q = p THEN [k.mem[p] EXCEPT ![i] = word] ELSE k.mem[q]
    BY <1>1, <1>7, <1>10
  <2>3. \A q \in Page : (IF q \in Frames(k) THEN k'.mem[q] ELSE ZeroPage)
                         = IF q = p THEN [data[p] EXCEPT ![i] = word] ELSE data[q]
    BY <1>6, <1>11, <2>1, <2>2
  <2>4. [data EXCEPT ![p][i] = word]
          = [q \in Page |-> IF q = p THEN [data[p] EXCEPT ![i] = word] ELSE data[q]]
    BY <1>11
  <2> QED
    BY <1>11, <2>3, <2>4
<1>13. Spaces!Write(e, va, i, word)
  BY <1>2, <1>5, <1>9, <1>12 DEF Spaces!Write, p
<1> QED
  BY <1>1, <1>4, <1>13 DEF Spaces!SpaceNext

\* Every step of the kernel and of the CPU shows as a step of AddressSpaces or as none.
LEMMA SpaceStep ==
  PmapInv /\ PmapInv' /\ RefsFit' /\ [Next]_vars => [Spaces!SpaceNext]_(Spaces!spaceVars)
<1> SUFFICES ASSUME PmapInv, PmapInv', FitsOf(k'), [Next]_vars
             PROVE  [Spaces!SpaceNext]_(Spaces!spaceVars)
  BY DEF RefsFit
<1>0. /\ TypeInv /\ TypeOK /\ Good(k, lost) /\ Tidy(k) /\ TlbCoherent /\ ControlInv
      /\ k \in KMem /\ k' \in KMem /\ k.env_pgdir \in [Env -> 0 .. NPages] /\ RolesOf(k)
      /\ VA \subseteq Idx \X Idx /\ NoEnv \notin Env
  BY EnvAssumption, StoreAssumption DEF PmapInv, MemoryInv, TypeInv, Good, KMem
<1>1. ASSUME NEW e \in Env, EnvCreate(e) PROVE [Spaces!SpaceNext]_(Spaces!spaceVars)
  <2>1. k.page_free_list # <<>> /\ ~Live(e) /\ k' = env_setup_vm(k, e)
    BY <1>0, <1>1 DEF EnvCreate, TypeInv, ControlInv
  <2> QED
    BY <2>1, SetupStep
<1>2. ASSUME NEW va \in VA, LoadSegment(va) \/ LoadStack(va)
      PROVE  [Spaces!SpaceNext]_(Spaces!spaceVars)
  <2>1. target \in Env /\ Live(target)
    BY <1>0, <1>2 DEF LoadSegment, LoadStack, TypeOK
  <2>2. CASE k.page_free_list = <<>>
    BY <1>2, <2>2, StutterSpace DEF LoadSegment, LoadStack, space, Live, Kept
  <2>3. CASE k.page_free_list # <<>>
    <3>1. /\ k' = region_alloc(k, k.env_pgdir[target], va)
          /\ lost' = IF Present(page_lookup(k', k.env_pgdir[target], va)) THEN lost
                     ELSE lost \cup {Head(k.page_free_list)}
      BY <1>2, <2>3 DEF LoadSegment, LoadStack
    <3> QED
      BY <2>1, <2>3, <3>1, RegionSpace
  <2> QED
    BY <2>2, <2>3
<1>3. ASSUME k' = k PROVE [Spaces!SpaceNext]_(Spaces!spaceVars)
  BY <1>3, StutterSpace DEF space, Live, Kept
<1>4. ASSUME NEW e \in Env, sys_exofork(e) PROVE [Spaces!SpaceNext]_(Spaces!spaceVars)
  BY <1>4, SetupStep DEF sys_exofork
<1>5. ASSUME NEW s \in Env, NEW sv \in VA, NEW e \in Env, NEW dv \in VA, NEW w \in BOOLEAN,
             sys_page_map(s, sv, e, dv, w)
      PROVE  [Spaces!SpaceNext]_(Spaces!spaceVars)
  <2> DEFINE src == page_lookup(k, k.env_pgdir[s], sv)
             d == k.env_pgdir[e]
             p == src.pp
             word == [pp |-> p, w |-> w]
  <2>1. /\ Live(s) /\ Live(e) /\ Present(src) /\ (w => src.w)
        /\ k' = page_insert(k, p, d, dv, w)
    BY <1>5 DEF sys_page_map
  <2>2. d \in Dirs(k) /\ k.env_pgdir[s] \in Dirs(k) /\ sv \in Idx \X Idx /\ dv \in Idx \X Idx
    BY <1>0, <2>1, LiveDir
  <2>3. p \in Frames(k) /\ p # 0
    BY <1>0, <2>1, <2>2, FramesLookup DEF Present
  <2>4. p \in Page /\ p \notin Dirs(k) /\ p \notin Tables(k) /\ p \notin OnList(k) /\ p \notin lost
    BY <1>0, <2>3, ReferencedNotFree DEF Good, RolesOf
  <2>5. space[s][sv] = src
    BY <2>1 DEF space
  <2> HIDE DEF p, d, src
  <2>6. /\ k'.env_pgdir = k.env_pgdir
        /\ Kept(k, k')
        /\ \/ View(k, k', d, dv, word)
           \/ k' = k
    <3>1. FitsOf(page_insert(k, p, d, dv, w))
      BY <2>1
    <3>2. LET r == page_insert(k, p, d, dv, w)
          IN  /\ r.env_pgdir = k.env_pgdir
              /\ Kept(k, r)
              /\ \/ Good(r, lost \ {p}) /\ View(k, r, d, dv, [pp |-> p, w |-> w])
                 \/ r = k /\ ~Present(page_lookup(k, d, dv))
      BY <1>0, <2>2, <2>4, <3>1, InsertGood
    <3> QED
      BY <2>1, <3>2
  <2>7. CASE View(k, k', d, dv, word)
    <3>1. word.pp = p /\ Dirs(k') = Dirs(k)
      BY <2>6, DirsOf
    <3> HIDE DEF word
    <3>2. space' = [space EXCEPT ![e][dv] = word]
      BY <1>0, <2>1, <2>6, <2>7, ViewSpace DEF d
    <3>3. \A q \in Frames(k') : q \in Frames(k) \/ q = word.pp
      BY <1>0, <2>2, <2>7, <3>1, ViewFrames
    <3>4. Frames(k') \ Frames(k) = {}
      BY <2>3, <3>1, <3>3
    <3>5. Spaces!KeepData
      BY <2>6, <3>4, KeptData
    <3>6. Spaces!Share(s, sv, e, dv, w)
      BY <2>1, <2>3, <2>5, <3>2, <3>5 DEF Spaces!Share, p, word
    <3> QED
      BY <3>6 DEF Spaces!SpaceNext
  <2> QED
    BY <1>3, <2>6, <2>7
<1>6. ASSUME NEW e \in Env, NEW va \in VA, sys_page_unmap(e, va)
      PROVE  [Spaces!SpaceNext]_(Spaces!spaceVars)
  BY <1>0, <1>6, RemoveStep DEF sys_page_unmap
<1>7. ASSUME mode = "free"
      PROVE  target \in Env /\ Live(target) /\ FreeDir \in Dirs(k) /\ FreeDir = k.env_pgdir[target]
  BY <1>0, <1>7, LiveDir DEF FreeDir, TypeOK
<1>8. ASSUME NEW x \in Idx, NEW y \in Idx, EnvFreePte(x, y)
      PROVE  [Spaces!SpaceNext]_(Spaces!spaceVars)
  <2>1. mode = "free" /\ k' = page_remove(k, FreeDir, <<x, y>>) /\ <<x, y>> \in Idx \X Idx
    BY <1>8 DEF EnvFreePte
  <2> QED
    BY <1>7, <2>1, RemoveStep
<1>9. ASSUME NEW x \in Idx, EnvFreeTable(x) PROVE [Spaces!SpaceNext]_(Spaces!spaceVars)
  <2> DEFINE d == FreeDir
             t == k.mem[d][x].pp
  <2>1. /\ mode = "free" /\ Present(k.mem[d][x]) /\ \A y \in Idx : ~Present(k.mem[t][y])
        /\ k' = page_decref(PutEntry(k, d, x, NotPresent), t)
    BY <1>9 DEF EnvFreeTable, AtPde
  <2>2. d \in Dirs(k)
    BY <1>7, <2>1
  <2> HIDE DEF d
  <2>3. \A y \in Idx : k.mem[t][y] = NotPresent
    <3> SUFFICES ASSUME NEW y \in Idx PROVE k.mem[t][y] = NotPresent
      OBVIOUS
    <3>1. page_lookup(k, d, <<x, y>>) = k.mem[t][y] /\ <<x, y>> \in Idx \X Idx
      BY <2>1 DEF page_lookup
    <3> QED
      BY <1>0, <2>1, <2>2, <3>1 DEF Tidy
  <2>4. k'.env_pgdir = k.env_pgdir /\ SameView(k, k') /\ Kept(k, k')
    BY <1>0, <2>1, <2>2, <2>3, FreeTableGood
  <2> QED
    BY <2>4, SameViewSpace, StutterSpace
<1>10. ASSUME EnvFreeDir PROVE [Spaces!SpaceNext]_(Spaces!spaceVars)
  <2>1. /\ mode = "free" /\ \A x \in Idx : ~Present(k.mem[FreeDir][x])
        /\ k' = page_decref([k EXCEPT !.env_pgdir[target] = 0], FreeDir)
    BY <1>10 DEF EnvFreeDir
  <2>2. /\ target \in Env /\ k.env_pgdir[target] # 0 /\ FreeDir = k.env_pgdir[target]
    BY <1>7, <2>1 DEF Live
  <2>3. /\ k'.env_pgdir = [k.env_pgdir EXCEPT ![target] = 0]
        /\ SameView(k, k') /\ Kept(k, k')
    BY <1>0, <2>1, <2>2, FreeDirGood
  <2>4. \A f \in Env : k'.env_pgdir[f] = IF f = target THEN 0 ELSE k.env_pgdir[f]
    BY <1>0, <2>3
  <2>5. ASSUME NEW f \in Env, NEW u \in VA
        PROVE  (IF k'.env_pgdir[f] # 0 THEN page_lookup(k', k'.env_pgdir[f], u) ELSE NotPresent)
                 = IF Live(f) THEN page_lookup(k, k.env_pgdir[f], u) ELSE NotPresent
    <3>1. CASE f = target
      <4>1. u[1] \in Idx
        BY <1>0, <2>5
      <4>2. page_lookup(k, k.env_pgdir[f], u) = NotPresent
        BY <2>1, <2>2, <3>1, <4>1 DEF page_lookup
      <4> QED
        BY <2>4, <3>1, <4>2
    <3>2. CASE f # target
      <4>1. Live(f) => k.env_pgdir[f] \in Dirs(k)
        BY LiveDir
      <4> QED
        BY <1>0, <2>3, <2>4, <3>2, <4>1 DEF SameView, Live
    <3> QED
      BY <3>1, <3>2
  <2>6. space' = space
    BY <2>5, SameSpace
  <2> QED
    BY <2>3, <2>6, StutterSpace
<1>11. ASSUME NEW va \in VA, NEW i \in Idx, NEW word \in StoreWord, Store(va, i, word)
       PROVE  [Spaces!SpaceNext]_(Spaces!spaceVars)
  BY <1>11, StoreStep
<1>12. ASSUME \/ \E e \in Env : env_run(e) \/ env_destroy(e)
              \/ Trap \/ Monitor \/ Halted \/ UNCHANGED vars
              \/ \E va \in VA : TlbFill(va)
       PROVE  k' = k
  BY <1>12 DEF env_run, env_destroy, Trap, Monitor, Halted, TlbFill, vars
<1> QED
  BY <1>1, <1>2, <1>3, <1>4, <1>5, <1>6, <1>8, <1>9, <1>10, <1>11, <1>12
  DEF Next, Boot, Syscall, Free, Cpu

\* pmap.c implements AddressSpaces: page tables, reference counts, reuse of freed pages,
\* env_free's page-by-page loop and the TLB are invisible to user code.
THEOREM PmapImplementsSpaces == Spec /\ []RefsFit => ImplementsSpaces
<1>1. Init => Spaces!SpaceInit
  BY InitSpace
<1>2. PmapInv /\ PmapInv' /\ RefsFit' /\ [Next]_vars => [Spaces!SpaceNext]_(Spaces!spaceVars)
  BY SpaceStep
<1> QED
  BY <1>1, <1>2, PmapInvariant, PTL DEF Spec, ImplementsSpaces, Spaces!SpaceSpec

\* A page is writable when some address of some environment shows it so.
LEMMA WritableShown ==
  k \in KMem /\ Tidy(k) =>
    \A p \in Page : Writable(p) <=> \E e \in Env, va \in VA : space[e][va] = [pp |-> p, w |-> TRUE]
<1> SUFFICES ASSUME k \in KMem, Tidy(k), NEW p \in Page
             PROVE  Writable(p) <=> \E e \in Env, va \in VA : space[e][va] = [pp |-> p, w |-> TRUE]
  OBVIOUS
<1> DEFINE word == [pp |-> p, w |-> TRUE]
<1>1. word.pp # 0 /\ VA \subseteq Idx \X Idx /\ NotPresent.pp = 0
  BY StoreAssumption DEF Page, NotPresent
<1> HIDE DEF word
<1>2. ASSUME NEW t \in Tables(k), NEW y \in Idx, k.mem[t][y] = word
      PROVE  \E e \in Env, va \in VA : space[e][va] = word
  <2>1. PICK d \in Dirs(k), x \in Idx : k.mem[d][x].pp = t /\ t # 0
    BY DEF Tables
  <2>2. PICK e \in Env : k.env_pgdir[e] = d /\ d # 0
    BY DEF Dirs
  <2>3. page_lookup(k, d, <<x, y>>) = word /\ <<x, y>> \in Idx \X Idx
    BY <1>2, <2>1 DEF page_lookup, Present
  <2>4. <<x, y>> \in VA
    BY <1>1, <2>3 DEF Tidy
  <2>5. space[e][<<x, y>>] = word
    BY <2>2, <2>3, <2>4 DEF space, Live
  <2> QED
    BY <2>4, <2>5
<1>3. ASSUME NEW e \in Env, NEW va \in VA, space[e][va] = word
      PROVE  \E t \in Tables(k), y \in Idx : k.mem[t][y] = word
  <2>1. Live(e) /\ page_lookup(k, k.env_pgdir[e], va) = word
    BY <1>1, <1>3 DEF space
  <2>2. k.env_pgdir[e] \in Dirs(k) /\ va[1] \in Idx /\ va[2] \in Idx
    BY <1>1, <2>1, LiveDir
  <2>3. Present(k.mem[k.env_pgdir[e]][va[1]])
        /\ k.mem[k.mem[k.env_pgdir[e]][va[1]].pp][va[2]] = word
    BY <1>1, <2>1 DEF page_lookup
  <2>4. k.mem[k.env_pgdir[e]][va[1]].pp \in Tables(k)
    BY <2>2, <2>3, TableOf
  <2> QED
    BY <2>2, <2>3, <2>4
<1> QED
  BY <1>2, <1>3 DEF Writable, word

\* WritableShown, after a step.
LEMMA WritableShownAfter ==
  (k \in KMem /\ Tidy(k) =>
    \A p \in Page : Writable(p) <=> \E e \in Env, va \in VA : space[e][va] = [pp |-> p, w |-> TRUE])'
BY WritableShown, PTL

\* No step of the address spaces makes a frame writable that was mapped read-only.
LEMMA ReadOnlyStep ==
  ASSUME PmapInv, PmapInv', [Spaces!SpaceNext]_(Spaces!spaceVars),
         NEW p \in Frames(k) \cap Frames(k'), ~Writable(p)
  PROVE  ~Writable(p)'
<1> DEFINE word == [pp |-> p, w |-> TRUE]
<1>1. k \in KMem /\ Tidy(k) /\ k' \in KMem /\ Tidy(k')
  BY DEF PmapInv, MemoryInv, Good
<1>2. p \in Page /\ p # 0
  BY <1>1, RoleTypes DEF Page
<1>3. \A e \in Env, va \in VA : space[e][va] # word
  BY <1>1, <1>2, WritableShown
<1>4. \A e \in Env, va \in VA : space[e][va] \in Word
  <2>1. \A e \in Env, va \in VA : Live(e) => page_lookup(k, k.env_pgdir[e], va) \in Word
    BY <1>1, LiveDir, RoleTypes, LookupType, StoreAssumption
  <2> QED
    BY <2>1, WordType DEF space
<1>5. Spaces!Mapped(p)
  BY <1>1, <1>2, FramesMapped
<1>6. space \in [Env -> [VA -> Word]]
  BY <1>4 DEF space
<1>7. \A e \in Env, va \in VA : space'[e][va] # word
  <2>1. CASE UNCHANGED Spaces!spaceVars
    BY <1>3, <2>1 DEF Spaces!spaceVars
  <2>2. ASSUME NEW e \in Env, NEW va \in VA, NEW f \in Page, Spaces!MapFresh(e, va, f)
        PROVE  \A c \in Env, u \in VA : space'[c][u] # word
    <3>1. f # p
      BY <1>5, <2>2 DEF Spaces!MapFresh
    <3>2. [pp |-> f, w |-> TRUE] # word
      BY <3>1
    <3>3. space' = [space EXCEPT ![e][va] = [pp |-> f, w |-> TRUE]]
      BY <2>2 DEF Spaces!MapFresh
    <3> QED
      BY <1>3, <1>6, <3>2, <3>3
  <2>3. ASSUME NEW s \in Env, NEW sv \in VA, NEW e \in Env, NEW va \in VA, NEW w \in BOOLEAN,
               Spaces!Share(s, sv, e, va, w)
        PROVE  \A c \in Env, u \in VA : space'[c][u] # word
    <3> DEFINE src == space[s][sv]
    <3>1. space' = [space EXCEPT ![e][va] = [pp |-> src.pp, w |-> w]] /\ (w => src.w)
      BY <2>3 DEF Spaces!Share
    <3>2. src \in Word /\ src # word
      BY <1>3, <1>4
    <3> HIDE DEF src
    <3>3. [pp |-> src.pp, w |-> w] # word
      BY <3>1, <3>2 DEF Word
    <3> QED
      BY <1>3, <1>6, <3>1, <3>3
  <2>4. ASSUME NEW e \in Env, NEW va \in VA, Spaces!Unmap(e, va)
        PROVE  \A c \in Env, u \in VA : space'[c][u] # word
    <3>1. space' = [space EXCEPT ![e][va] = NotPresent] /\ NotPresent # word
      BY <1>2, <2>4 DEF Spaces!Unmap, Spaces!NoEntry, NotPresent
    <3> QED
      BY <1>3, <1>6, <3>1
  <2>5. ASSUME NEW e \in Env, NEW va \in VA, NEW i \in Idx, NEW v \in Word,
               Spaces!Write(e, va, i, v)
        PROVE  \A c \in Env, u \in VA : space'[c][u] # word
    BY <1>3, <2>5 DEF Spaces!Write
  <2> QED
    BY <2>1, <2>2, <2>3, <2>4, <2>5 DEF Spaces!SpaceNext
<1> QED
  BY <1>1, <1>2, <1>7, WritableShownAfter

\* sys_page_map and the rest never give write access to a page that is mapped only
\* read-only, through no sequence of mappings.
THEOREM ReadOnlyPagesStay == Spec /\ []RefsFit => ReadOnlyStays
<1>1. ASSUME PmapInv, PmapInv', [Spaces!SpaceNext]_(Spaces!spaceVars)
      PROVE  \A p \in Frames(k) \cap Frames(k)' : ~Writable(p) => ~Writable(p)'
  BY <1>1, ReadOnlyStep
<1>2. PmapInv /\ PmapInv' /\ RefsFit' /\ [Next]_vars =>
        [\A p \in Frames(k) \cap Frames(k)' : ~Writable(p) => ~Writable(p)']_vars
  BY <1>1, SpaceStep
<1> QED
  BY <1>2, PmapInvariant, PTL DEF Spec, ReadOnlyStays
=============================================================================
