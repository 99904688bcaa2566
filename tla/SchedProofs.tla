---------------------------- MODULE SchedProofs ----------------------------
(***************************************************************************)
(* The scheduler and the environment table, for every number of slots, and *)
(* messages between environments, for every address space and value.       *)
(***************************************************************************)
EXTENDS Ipc, FiniteSetTheorems, TLAPS

-----------------------------------------------------------------------------
(* Arithmetic.                                                               *)

\* Min of a set of naturals is its least element.
LEMMA MinProperty ==
  ASSUME NEW S \in SUBSET Nat, S # {}
  PROVE  Min(S) \in S /\ \A y \in S : Min(S) <= y
<1> DEFINE R == OpToRel(<, Nat)
<1>1. PICK x \in S : \A y \in S : ~(<<y, x>> \in R)
  BY WFMin, NatLessThanWellFounded
<1>2. \A y \in S : ~(y < x)
  BY <1>1 DEF OpToRel
<1>3. \A y \in S : x <= y
  BY <1>2
<1> QED
  BY <1>3 DEF Min

\* A remainder is unique.
LEMMA ModUnique ==
  ASSUME NEW n \in Nat \ {0}, NEW a \in Int, NEW q \in Int, NEW r \in 0 .. n - 1,
         a = n * q + r
  PROVE  a % n = r
<1> DEFINE d == a \div n
           m == a % n
<1>1. d \in Int /\ m \in 0 .. n - 1 /\ a = n * d + m
  OBVIOUS
<1> HIDE DEF d, m
<1>2. n * (q - d) = m - r
  BY <1>1
<1>3. q - d < 1
  <2> SUFFICES ASSUME q - d >= 1 PROVE FALSE
    BY <1>1
  <2>1. n * (q - d) >= n
    BY <1>1
  <2> QED
    BY <1>1, <1>2, <2>1
<1>4. q - d > -1
  <2> SUFFICES ASSUME q - d <= -1 PROVE FALSE
    BY <1>1
  <2>1. n * (q - d) <= -n
    BY <1>1
  <2> QED
    BY <1>1, <1>2, <2>1
<1>5. q = d
  BY <1>1, <1>3, <1>4
<1> QED
  BY <1>1, <1>2, <1>5 DEF m

\* Adding a multiple of n does not change a remainder.
LEMMA ModAdd ==
  ASSUME NEW n \in Nat \ {0}, NEW a \in Nat, NEW b \in Nat, b % n = 0
  PROVE  (a + b) % n = a % n
<1> DEFINE d == a \div n
           m == a % n
           c == b \div n
<1>1. d \in Int /\ m \in 0 .. n - 1 /\ a = n * d + m
  OBVIOUS
<1>2. c \in Int /\ b = n * c
  OBVIOUS
<1> HIDE DEF d, m, c
<1>3. a + b = n * (d + c) + m /\ d + c \in Int
  BY <1>1, <1>2
<1>4. (a + b) % n = m
  BY <1>1, <1>3, ModUnique
<1> QED
  BY <1>4 DEF m

-----------------------------------------------------------------------------
(* The order in which sched_yield looks at the slots.                        *)

Start(s) == IF s.curenv = NoEnv THEN 0 ELSE s.curenv

\* Round r of the loop looks at slot start + r + 1, or wraps around to envs + 1.
LEMMA LookedAt ==
  ASSUME NEW s, s.curenv \in Slot \cup {NoEnv}, NEW r \in 0 .. NENV - 1
  PROVE  /\ Start(s) \in Slot
         /\ Looked(s, r) \in Slot \ {0}
         /\ Start(s) + r < NENV - 1 => Looked(s, r) = Start(s) + r + 1
         /\ Start(s) + r >= NENV - 1 /\ Start(s) + r < 2 * (NENV - 1) =>
              Looked(s, r) = Start(s) + r + 1 - (NENV - 1)
         /\ Start(s) + r = 2 * (NENV - 1) => Looked(s, r) = 1
<1> DEFINE a == Start(s) + r
           n == NENV - 1
<1>1. Start(s) \in 0 .. n /\ n \in Nat \ {0} /\ a \in 0 .. 2 * n
  BY TableAssumption DEF Start, Slot, NoEnv
<1>2. Looked(s, r) = 1 + (a % n)
  BY DEF Looked, Start
<1> HIDE DEF a, n
<1>3. a % n \in 0 .. n - 1
  BY <1>1
<1>4. ASSUME a < n PROVE a % n = a
  <2>1. a \in 0 .. n - 1 /\ a = n * 0 + a
    BY <1>1, <1>4
  <2> QED
    BY <1>1, <2>1, ModUnique
<1>5. ASSUME a >= n, a < 2 * n PROVE a % n = a - n
  <2>1. a - n \in 0 .. n - 1 /\ a = n * 1 + (a - n)
    BY <1>1, <1>5
  <2> QED
    BY <1>1, <2>1, ModUnique
<1>6. ASSUME a = 2 * n PROVE a % n = 0
  <2>1. 0 \in 0 .. n - 1 /\ a = n * 2 + 0
    BY <1>1, <1>6
  <2> QED
    BY <1>1, <2>1, ModUnique
<1>7. Start(s) \in Slot /\ 1 + (a % n) \in Slot \ {0}
  BY <1>1, <1>3, TableAssumption DEF Slot, n
<1> QED
  BY <1>1, <1>2, <1>4, <1>5, <1>6, <1>7 DEF a, n

\* The loop looks at every slot but 0; slot j is reached by round Reach(s, j).
Reach(s, j) == IF j > Start(s) THEN j - 1 - Start(s) ELSE j - 1 - Start(s) + (NENV - 1)

\* No slot but 0 is left out by the search of sched_yield, wherever it starts.
LEMMA LookedAll ==
  ASSUME NEW s, s.curenv \in Slot \cup {NoEnv}, NEW j \in Slot \ {0}
  PROVE  Reach(s, j) \in 0 .. NENV - 1 /\ Looked(s, Reach(s, j)) = j
<1> DEFINE r == Reach(s, j)
           a == Start(s)
<1>1. a \in Slot
  BY TableAssumption DEF Start, Slot, NoEnv
<1>2. a \in 0 .. NENV - 1 /\ j \in 1 .. NENV - 1
  BY <1>1, TableAssumption DEF Slot
<1>3. r = IF j > a THEN j - 1 - a ELSE j - 1 - a + (NENV - 1)
  BY DEF Reach
<1> HIDE DEF a, r
<1>4. r \in 0 .. NENV - 1
  BY <1>2, <1>3, TableAssumption
<1>5. /\ a + r < NENV - 1 => Looked(s, r) = a + r + 1
      /\ a + r >= NENV - 1 /\ a + r < 2 * (NENV - 1) => Looked(s, r) = a + r + 1 - (NENV - 1)
  BY <1>4, LookedAt DEF a
<1>6. Looked(s, r) = j
  BY <1>2, <1>3, <1>4, <1>5, TableAssumption
<1> QED
  BY <1>4, <1>6 DEF r

-----------------------------------------------------------------------------
(* The invariant of the kernel state, also inside a trap.                    *)

FreeSlots(s) == {e \in Slot : s.envs[e].env_status = "FREE"}

ListOf(s) ==
  /\ \A i, j \in DOMAIN s.env_free_list : s.env_free_list[i] = s.env_free_list[j] => i = j
  /\ {s.env_free_list[i] : i \in DOMAIN s.env_free_list} = FreeSlots(s)

Sane(s) ==
  /\ s \in Kernel
  /\ ListOf(s)
  /\ \A e \in Slot : s.envs[e].env_status # "DYING"
  /\ \A e \in Slot : s.envs[e].env_status = "RUNNING" => e = s.curenv
  /\ s.curenv # NoEnv => s.envs[s.curenv].env_status # "FREE"

\* The kernel has left the trap: for curenv, or for the monitor.
Settled(s) ==
  \/ s.mode = "user" /\ s.curenv \in Slot /\ s.envs[s.curenv].env_status = "RUNNING"
  \/ s.mode = "monitor" /\ \A e \in Slot : ~Runnable(s, e)

\* From s to n environments were only switched between running and runnable.
Moves(s, n) ==
  /\ n.env_free_list = s.env_free_list
  /\ \A e \in Slot :
       /\ n.envs[e].env_id = s.envs[e].env_id
       /\ n.envs[e].env_parent_id = s.envs[e].env_parent_id
       /\ n.envs[e].env_status # s.envs[e].env_status =>
            {n.envs[e].env_status, s.envs[e].env_status} \subseteq {"RUNNING", "RUNNABLE"}

\* What SetStatus changes.
LEMMA StatusFields ==
  ASSUME NEW s \in Kernel, NEW e \in Slot, NEW status \in Status
  PROVE  LET n == SetStatus(s, e, status)
         IN  /\ n \in Kernel
             /\ n.env_free_list = s.env_free_list /\ n.curenv = s.curenv /\ n.mode = s.mode
             /\ \A f \in Slot :
                  /\ n.envs[f].env_id = s.envs[f].env_id
                  /\ n.envs[f].env_parent_id = s.envs[f].env_parent_id
                  /\ n.envs[f].env_status = IF f = e THEN status ELSE s.envs[f].env_status
<1> DEFINE n == SetStatus(s, e, status)
           g == s.envs
           h == [g EXCEPT ![e].env_status = status]
<1>1. g \in [Slot -> EnvRec]
  BY DEF Kernel
<1>2. /\ n.env_free_list = s.env_free_list /\ n.curenv = s.curenv /\ n.mode = s.mode
      /\ n.envs = h /\ (h \in [Slot -> EnvRec] => n \in Kernel)
  BY DEF SetStatus, Kernel
<1> HIDE DEF g
<1>3. \A f \in Slot : h[f] = IF f = e THEN [g[e] EXCEPT !.env_status = status] ELSE g[f]
  BY <1>1
<1>4. [g[e] EXCEPT !.env_status = status] \in EnvRec
      /\ [g[e] EXCEPT !.env_status = status].env_status = status
      /\ [g[e] EXCEPT !.env_status = status].env_id = g[e].env_id
      /\ [g[e] EXCEPT !.env_status = status].env_parent_id = g[e].env_parent_id
  BY <1>1 DEF EnvRec
<1>5. h \in [Slot -> EnvRec]
  BY <1>1, <1>4
<1> HIDE DEF n, h
<1> QED
  BY <1>2, <1>3, <1>4, <1>5 DEF g, n

\* env_run: e runs, and what ran before is runnable again.
LEMMA RunSane ==
  ASSUME NEW s, Sane(s), NEW e \in Slot,
         s.envs[e].env_status = "RUNNABLE" \/ (e = s.curenv /\ s.envs[e].env_status = "RUNNING")
  PROVE  LET n == env_run(s, e)
         IN  /\ Sane(n) /\ Moves(s, n)
             /\ n.mode = "user" /\ n.curenv = e /\ n.envs[e].env_status = "RUNNING"
             /\ \A f \in Slot \ {e, s.curenv} : n.envs[f].env_status = s.envs[f].env_status
<1> DEFINE c == s.curenv
           p == IF c # NoEnv /\ s.envs[c].env_status = "RUNNING"
                THEN SetStatus(s, c, "RUNNABLE") ELSE s
           q == SetStatus(p, e, "RUNNING")
           n == env_run(s, e)
<1>1. s \in Kernel /\ c \in Slot \cup {NoEnv} /\ NoEnv \notin Slot
      /\ {"RUNNABLE", "RUNNING", "FREE"} \subseteq Status
  BY DEF Sane, Kernel, Slot, NoEnv, Status
<1>2. /\ p \in Kernel
      /\ p.env_free_list = s.env_free_list /\ p.curenv = s.curenv /\ p.mode = s.mode
      /\ \A f \in Slot :
           /\ p.envs[f].env_id = s.envs[f].env_id
           /\ p.envs[f].env_parent_id = s.envs[f].env_parent_id
           /\ p.envs[f].env_status = IF f = c /\ s.envs[f].env_status = "RUNNING" THEN "RUNNABLE"
                                     ELSE s.envs[f].env_status
  <2>1. CASE c # NoEnv /\ s.envs[c].env_status = "RUNNING"
    <3>1. p = SetStatus(s, c, "RUNNABLE") /\ c \in Slot /\ "RUNNABLE" \in Status
      BY <1>1, <2>1
    <3>2. /\ p \in Kernel
          /\ p.env_free_list = s.env_free_list /\ p.curenv = s.curenv /\ p.mode = s.mode
          /\ \A f \in Slot :
               /\ p.envs[f].env_id = s.envs[f].env_id
               /\ p.envs[f].env_parent_id = s.envs[f].env_parent_id
               /\ p.envs[f].env_status = IF f = c THEN "RUNNABLE" ELSE s.envs[f].env_status
      <4> DEFINE b == c
                 v == SetStatus(s, b, "RUNNABLE")
      <4>1. s \in Kernel /\ b \in Slot /\ "RUNNABLE" \in Status
        BY <1>1, <3>1
      <4> HIDE DEF c, p, b
      <4>2. /\ v \in Kernel
            /\ v.env_free_list = s.env_free_list /\ v.curenv = s.curenv /\ v.mode = s.mode
            /\ \A f \in Slot :
                 /\ v.envs[f].env_id = s.envs[f].env_id
                 /\ v.envs[f].env_parent_id = s.envs[f].env_parent_id
                 /\ v.envs[f].env_status = IF f = b THEN "RUNNABLE" ELSE s.envs[f].env_status
        BY <4>1, StatusFields
      <4>3. p = v /\ b = c
        BY <3>1 DEF b
      <4> QED
        BY <4>2, <4>3
    <3> HIDE DEF c, p
    <3> QED
      BY <2>1, <3>2
  <2>2. CASE ~(c # NoEnv /\ s.envs[c].env_status = "RUNNING")
    BY <1>1, <2>2
  <2> QED
    BY <2>1, <2>2
<1> HIDE DEF p
<1>3. /\ q \in Kernel
      /\ q.env_free_list = p.env_free_list /\ q.curenv = p.curenv /\ q.mode = p.mode
      /\ \A f \in Slot :
           /\ q.envs[f].env_id = p.envs[f].env_id
           /\ q.envs[f].env_parent_id = p.envs[f].env_parent_id
           /\ q.envs[f].env_status = IF f = e THEN "RUNNING" ELSE p.envs[f].env_status
  BY <1>1, <1>2, StatusFields
<1>4. n = [q EXCEPT !.curenv = e, !.mode = "user"]
  BY DEF env_run, p
<1> HIDE DEF q
<1>5. /\ n \in Kernel /\ n.envs = q.envs /\ n.env_free_list = q.env_free_list
      /\ n.curenv = e /\ n.mode = "user"
  BY <1>3, <1>4 DEF Kernel
<1> HIDE DEF n
<1>6. \A f \in Slot :
        n.envs[f].env_status = IF f = e THEN "RUNNING"
                               ELSE IF f = c /\ s.envs[f].env_status = "RUNNING" THEN "RUNNABLE"
                               ELSE s.envs[f].env_status
  BY <1>2, <1>3, <1>5
<1>7. Moves(s, n)
  BY <1>2, <1>3, <1>5, <1>6 DEF Moves
<1>8. FreeSlots(n) = FreeSlots(s)
  BY <1>6 DEF FreeSlots
<1>9. ListOf(n)
  BY <1>7, <1>8 DEF ListOf, Moves, Sane
<1>10. Sane(n)
  BY <1>1, <1>5, <1>6, <1>9 DEF Sane
<1> QED
  BY <1>5, <1>6, <1>7, <1>10 DEF n

\* The choice of sched_yield: the first runnable slot in its order, then slot 0.
LEMMA YieldChoice ==
  ASSUME NEW s, Sane(s)
  PROVE  LET n == sched_yield(s)
         IN  \/ /\ \A j \in Slot : ~Runnable(s, j)
                /\ n = [s EXCEPT !.mode = "monitor"]
             \/ /\ \A j \in Slot \ {0} : ~Runnable(s, j)
                /\ Runnable(s, 0) /\ n = env_run(s, 0)
             \/ \E r \in 0 .. NENV - 1 :
                  /\ Runnable(s, Looked(s, r)) /\ n = env_run(s, Looked(s, r))
                  /\ \A j \in Slot \ {0} : Runnable(s, j) => r <= Reach(s, j)
<1> DEFINE hits == {r \in 0 .. NENV - 1 : Runnable(s, Looked(s, r))}
           n == sched_yield(s)
<1>1. s.curenv \in Slot \cup {NoEnv} /\ hits \in SUBSET Nat
  BY TableAssumption DEF Sane, Kernel
<1>2. \A j \in Slot \ {0} : Runnable(s, j) => Reach(s, j) \in hits
  BY <1>1, LookedAll
<1>3. n = IF hits # {} THEN env_run(s, Looked(s, Min(hits)))
          ELSE IF Runnable(s, 0) THEN env_run(s, 0)
          ELSE [s EXCEPT !.mode = "monitor"]
  BY DEF sched_yield
<1>4. CASE hits # {}
  <2>1. Min(hits) \in hits /\ \A y \in hits : Min(hits) <= y
    BY <1>1, <1>4, MinProperty
  <2> DEFINE r == Min(hits)
  <2>2. r \in 0 .. NENV - 1 /\ Runnable(s, Looked(s, r)) /\ n = env_run(s, Looked(s, r))
    BY <1>3, <1>4, <2>1
  <2>3. \A j \in Slot \ {0} : Runnable(s, j) => r <= Reach(s, j)
    BY <1>2, <2>1
  <2> HIDE DEF r
  <2> QED
    BY <2>2, <2>3
<1>5. CASE hits = {}
  <2>1. \A j \in Slot \ {0} : ~Runnable(s, j)
    BY <1>2, <1>5
  <2> QED
    BY <1>3, <1>5, <2>1
<1> QED
  BY <1>4, <1>5

\* sched_yield settles the kernel, whatever environment was current.
LEMMA YieldSane ==
  ASSUME NEW s, Sane(s)
  PROVE  LET n == sched_yield(s)
         IN  Sane(n) /\ Settled(n) /\ Moves(s, n) /\ n.mode # "kernel"
<1> DEFINE n == sched_yield(s)
<1>1. CASE \E e \in Slot : Runnable(s, e) /\ n = env_run(s, e)
  <2>1. PICK e \in Slot : Runnable(s, e) /\ n = env_run(s, e)
    BY <1>1
  <2>2. s.envs[e].env_status = "RUNNABLE"
    BY <2>1 DEF Runnable
  <2> HIDE DEF n
  <2> QED
    BY <2>1, <2>2, RunSane DEF Settled, n
<1>2. CASE (\A j \in Slot : ~Runnable(s, j)) /\ n = [s EXCEPT !.mode = "monitor"]
  <2>1. s \in Kernel
    BY DEF Sane
  <2>2. n \in Kernel /\ n.envs = s.envs /\ n.env_free_list = s.env_free_list
        /\ n.curenv = s.curenv /\ n.mode = "monitor"
    BY <1>2, <2>1 DEF Kernel
  <2> HIDE DEF n
  <2>3. FreeSlots(n) = FreeSlots(s) /\ Moves(s, n)
    BY <2>2 DEF FreeSlots, Moves
  <2>4. Sane(n) /\ Settled(n)
    BY <1>2, <2>2, <2>3 DEF Sane, ListOf, Settled, Runnable
  <2> QED
    BY <2>2, <2>3, <2>4 DEF n
<1>3. \A r \in 0 .. NENV - 1 : Looked(s, r) \in Slot
  BY LookedAt DEF Sane, Kernel
<1>4. 0 \in Slot
  BY TableAssumption DEF Slot
<1>5. \/ \E e \in Slot : Runnable(s, e) /\ n = env_run(s, e)
      \/ (\A j \in Slot : ~Runnable(s, j)) /\ n = [s EXCEPT !.mode = "monitor"]
  <2>1. \/ /\ \A j \in Slot : ~Runnable(s, j)
           /\ n = [s EXCEPT !.mode = "monitor"]
        \/ Runnable(s, 0) /\ n = env_run(s, 0)
        \/ \E r \in 0 .. NENV - 1 : Runnable(s, Looked(s, r)) /\ n = env_run(s, Looked(s, r))
    BY YieldChoice
  <2> HIDE DEF n
  <2> QED
    BY <1>3, <1>4, <2>1
<1> QED
  BY <1>1, <1>2, <1>5

-----------------------------------------------------------------------------
(* The free list and new identifiers.                                        *)

\* Taking the first slot off a list without duplicates removes exactly that slot.
LEMMA PopSlot ==
  ASSUME NEW l \in Seq(Slot), l # <<>>, \A i, j \in DOMAIN l : l[i] = l[j] => i = j
  PROVE  LET r == Tail(l)
         IN  /\ Head(l) \in {l[i] : i \in DOMAIN l} /\ Head(l) \in Slot /\ r \in Seq(Slot)
             /\ {r[i] : i \in DOMAIN r} = {l[i] : i \in DOMAIN l} \ {Head(l)}
             /\ \A i, j \in DOMAIN r : r[i] = r[j] => i = j
<1> DEFINE r == Tail(l)
<1>1. Len(l) \in Nat \ {0} /\ DOMAIN l = 1 .. Len(l) /\ Head(l) = l[1]
  OBVIOUS
<1>2. r \in Seq(Slot) /\ DOMAIN r = 1 .. Len(l) - 1 /\ \A i \in 1 .. Len(l) - 1 : r[i] = l[i + 1]
  OBVIOUS
<1> HIDE DEF r
<1>3. Head(l) \in {l[i] : i \in DOMAIN l} /\ Head(l) \in Slot
  BY <1>1
<1>4. ASSUME NEW i \in DOMAIN r, NEW j \in DOMAIN r, r[i] = r[j] PROVE i = j
  <2>1. i + 1 \in DOMAIN l /\ j + 1 \in DOMAIN l /\ l[i + 1] = l[j + 1]
    BY <1>1, <1>2, <1>4
  <2>2. i + 1 = j + 1
    BY <2>1
  <2> QED
    BY <1>2, <2>2
<1>5. ASSUME NEW i \in DOMAIN r PROVE i + 1 \in DOMAIN l /\ r[i] = l[i + 1] /\ r[i] # Head(l)
  <2>1. i \in 1 .. Len(l) - 1 /\ i + 1 \in DOMAIN l /\ 1 \in DOMAIN l /\ i + 1 # 1
    BY <1>1, <1>2
  <2> QED
    BY <1>1, <1>2, <2>1
<1>6. ASSUME NEW i \in DOMAIN l, l[i] # Head(l)
      PROVE  \E j \in DOMAIN r : r[j] = l[i]
  <2>1. i - 1 \in DOMAIN r /\ r[i - 1] = l[i]
    BY <1>1, <1>2, <1>6
  <2> QED
    BY <2>1
<1>7. {l[i] : i \in DOMAIN l} \ {Head(l)} \subseteq {r[i] : i \in DOMAIN r}
  BY <1>6
<1>8. {r[i] : i \in DOMAIN r} \subseteq {l[i] : i \in DOMAIN l} \ {Head(l)}
  BY <1>5
<1> QED
  BY <1>2, <1>3, <1>4, <1>7, <1>8 DEF r

\* Putting a slot in front adds exactly that slot.
LEMMA PushSlot ==
  ASSUME NEW l \in Seq(Slot), NEW e \in Slot, \A i \in DOMAIN l : l[i] # e,
         \A i, j \in DOMAIN l : l[i] = l[j] => i = j
  PROVE  LET r == <<e>> \o l
         IN  /\ {r[i] : i \in DOMAIN r} = {l[i] : i \in DOMAIN l} \cup {e}
             /\ \A i, j \in DOMAIN r : r[i] = r[j] => i = j
<1> DEFINE r == <<e>> \o l
<1>1. Len(l) \in Nat /\ DOMAIN l = 1 .. Len(l)
  OBVIOUS
<1>2. DOMAIN r = 1 .. Len(l) + 1 /\ r[1] = e /\ \A i \in 2 .. Len(l) + 1 : r[i] = l[i - 1]
  <2>1. <<e>> \in Seq(Slot) /\ Len(<<e>>) = 1 /\ <<e>>[1] = e
    OBVIOUS
  <2>2. r \in Seq(Slot) /\ Len(r) = Len(l) + 1 /\ DOMAIN r = 1 .. Len(r)
    BY <1>1, <2>1
  <2>3. \A i \in 1 .. Len(r) : r[i] = IF i <= 1 THEN <<e>>[i] ELSE l[i - 1]
    BY <1>1, <2>1, <2>2
  <2> QED
    BY <1>1, <2>1, <2>2, <2>3
<1> HIDE DEF r
<1>3. ASSUME NEW i \in DOMAIN r, NEW j \in DOMAIN r, r[i] = r[j] PROVE i = j
  <2>1. i \in 1 .. Len(l) + 1 /\ j \in 1 .. Len(l) + 1
    BY <1>2
  <2>2. \A h \in 2 .. Len(l) + 1 : h - 1 \in DOMAIN l /\ r[h] = l[h - 1] /\ r[h] # e
    BY <1>1, <1>2
  <2>3. CASE i = 1 \/ j = 1
    BY <1>1, <1>2, <1>3, <2>1, <2>2, <2>3
  <2>4. CASE i # 1 /\ j # 1
    <3>1. i - 1 \in DOMAIN l /\ j - 1 \in DOMAIN l /\ l[i - 1] = l[j - 1]
      BY <1>1, <1>3, <2>1, <2>2, <2>4
    <3>2. i - 1 = j - 1
      BY <3>1
    <3> QED
      BY <2>1, <3>2, <1>1
  <2> QED
    BY <2>3, <2>4
<1>4. {r[i] : i \in DOMAIN r} \subseteq {l[i] : i \in DOMAIN l} \cup {e}
  BY <1>1, <1>2
<1>5. ASSUME NEW i \in DOMAIN l PROVE \E j \in DOMAIN r : r[j] = l[i]
  <2>1. i + 1 \in DOMAIN r /\ r[i + 1] = l[i]
    BY <1>1, <1>2
  <2> QED
    BY <2>1
<1>6. 1 \in DOMAIN r
  BY <1>1, <1>2
<1>7. {l[i] : i \in DOMAIN l} \cup {e} \subseteq {r[i] : i \in DOMAIN r}
  BY <1>2, <1>5, <1>6
<1> QED
  BY <1>3, <1>4, <1>7 DEF r

\* env_free puts a slot that was in use on the list.
LEMMA FreeFields ==
  ASSUME NEW s, s \in Kernel, ListOf(s), NEW e \in Slot, s.envs[e].env_status # "FREE"
  PROVE  LET n == env_free(s, e)
         IN  /\ n \in Kernel /\ ListOf(n) /\ n.curenv = s.curenv /\ n.mode = s.mode
             /\ \A f \in Slot :
                  /\ n.envs[f].env_id = s.envs[f].env_id
                  /\ n.envs[f].env_parent_id = s.envs[f].env_parent_id
                  /\ n.envs[f].env_status = IF f = e THEN "FREE" ELSE s.envs[f].env_status
<1> DEFINE q == SetStatus(s, e, "FREE")
           l == s.env_free_list
           r == <<e>> \o l
           n == env_free(s, e)
<1>1. "FREE" \in Status
  BY DEF Status
<1>2. /\ q \in Kernel
      /\ q.env_free_list = s.env_free_list /\ q.curenv = s.curenv /\ q.mode = s.mode
      /\ \A f \in Slot :
           /\ q.envs[f].env_id = s.envs[f].env_id
           /\ q.envs[f].env_parent_id = s.envs[f].env_parent_id
           /\ q.envs[f].env_status = IF f = e THEN "FREE" ELSE s.envs[f].env_status
  BY <1>1, StatusFields
<1>3. n = [q EXCEPT !.env_free_list = <<e>> \o @]
  BY DEF env_free
<1>4. l \in Seq(Slot) /\ (\A i, j \in DOMAIN l : l[i] = l[j] => i = j)
      /\ {l[i] : i \in DOMAIN l} = FreeSlots(s)
  BY DEF Kernel, ListOf
<1> HIDE DEF q, n, l
<1>5. \A i \in DOMAIN l : l[i] # e
  BY <1>4 DEF FreeSlots
<1>6. /\ {r[i] : i \in DOMAIN r} = {l[i] : i \in DOMAIN l} \cup {e}
      /\ \A i, j \in DOMAIN r : r[i] = r[j] => i = j
  BY <1>4, <1>5, PushSlot
<1>7. r \in Seq(Slot)
  BY <1>4
<1> HIDE DEF r
<1>8. /\ n \in Kernel /\ n.envs = q.envs /\ n.env_free_list = r
      /\ n.curenv = q.curenv /\ n.mode = q.mode
  BY <1>2, <1>3, <1>7 DEF Kernel, r, l
<1>9. FreeSlots(n) = FreeSlots(s) \cup {e}
  BY <1>2, <1>8 DEF FreeSlots
<1>10. ListOf(n)
  <2>1. {r[i] : i \in DOMAIN r} = FreeSlots(n)
    BY <1>4, <1>6, <1>9
  <2> QED
    BY <1>6, <1>8, <2>1 DEF ListOf
<1> QED
  BY <1>2, <1>8, <1>10 DEF n

\* env_destroy of an environment other than the current one, and env_free of the
\* current one, leave a state the kernel may go on from.
LEMMA DestroySane ==
  ASSUME NEW s, Sane(s), NEW e \in Slot, s.envs[e].env_status # "FREE"
  PROVE  LET f == [env_free(s, e) EXCEPT !.curenv = IF e = s.curenv THEN NoEnv ELSE @]
         IN  /\ Sane(f) /\ f.mode = s.mode
             /\ f.curenv = (IF e = s.curenv THEN NoEnv ELSE s.curenv)
             /\ \A i \in Slot :
                  /\ f.envs[i].env_id = s.envs[i].env_id
                  /\ f.envs[i].env_parent_id = s.envs[i].env_parent_id
                  /\ f.envs[i].env_status = IF i = e THEN "FREE" ELSE s.envs[i].env_status
             /\ env_destroy(s, e) = IF e = s.curenv THEN sched_yield(f) ELSE f
<1> DEFINE n == env_free(s, e)
           c == IF e = s.curenv THEN NoEnv ELSE s.curenv
           f == [n EXCEPT !.curenv = IF e = s.curenv THEN NoEnv ELSE @]
<1>1. s \in Kernel /\ ListOf(s) /\ NoEnv \notin Slot
  BY DEF Sane, Slot, NoEnv
<1>2. /\ n \in Kernel /\ ListOf(n) /\ n.curenv = s.curenv /\ n.mode = s.mode
      /\ \A i \in Slot :
           /\ n.envs[i].env_id = s.envs[i].env_id
           /\ n.envs[i].env_parent_id = s.envs[i].env_parent_id
           /\ n.envs[i].env_status = IF i = e THEN "FREE" ELSE s.envs[i].env_status
  BY <1>1, FreeFields
<1>3. env_destroy(s, e) = IF s.envs[e].env_status = "RUNNING" /\ s.curenv # e THEN SetStatus(s, e, "DYING")
                          ELSE IF s.curenv = e THEN sched_yield([n EXCEPT !.curenv = NoEnv]) ELSE n
  BY DEF env_destroy
<1> HIDE DEF n
<1>4. /\ f \in Kernel /\ f.envs = n.envs /\ f.env_free_list = n.env_free_list
      /\ f.mode = n.mode /\ f.curenv = c
      /\ (e = s.curenv => f = [n EXCEPT !.curenv = NoEnv])
  BY <1>2 DEF Kernel
<1>5. e # s.curenv => f = n
  BY <1>2 DEF Kernel
<1>6. ~(s.envs[e].env_status = "RUNNING" /\ s.curenv # e)
  BY DEF Sane
<1>7. env_destroy(s, e) = IF e = s.curenv THEN sched_yield(f) ELSE f
  BY <1>3, <1>4, <1>5, <1>6
<1> HIDE DEF f
<1>8. ListOf(f)
  BY <1>2, <1>4 DEF ListOf, FreeSlots
<1>9. Sane(f)
  <2>1. \A i \in Slot : f.envs[i].env_status = IF i = e THEN "FREE" ELSE s.envs[i].env_status
    BY <1>2, <1>4
  <2>2. \A i \in Slot : f.envs[i].env_status # "DYING"
    BY <2>1 DEF Sane
  <2>3. \A i \in Slot : f.envs[i].env_status = "RUNNING" => i = f.curenv
    BY <1>4, <2>1 DEF Sane
  <2>4. s.curenv \in Slot \cup {NoEnv}
    BY <1>1 DEF Kernel
  <2>5. f.curenv # NoEnv => f.envs[f.curenv].env_status # "FREE"
    BY <1>1, <1>4, <2>1, <2>4 DEF Sane
  <2> QED
    BY <1>4, <1>8, <2>2, <2>3, <2>5 DEF Sane
<1> QED
  BY <1>2, <1>4, <1>7, <1>9 DEF f, n

\* The identifier env_alloc gives the environment of slot e after x: it fits, it is
\* not 0, its low bits are e, and unless the generation wraps it is larger than x.
LEMMA NewId ==
  ASSUME NEW s, NEW e \in Slot, s.envs[e].env_id \in EnvId
  PROVE  LET x == s.envs[e].env_id
             n == NextId(s, e)
         IN  /\ n \in EnvId /\ n # 0 /\ n % NENV = e
             /\ x = 0 => n = GenStep + e
             /\ x % NENV = e /\ x + GenStep < IdLimit => n = x + GenStep
<1> DEFINE x == s.envs[e].env_id
           y == x + GenStep
           m == y % NENV
           d == y \div NENV
           g == y - m
           h == IF g >= IdLimit THEN GenStep ELSE g
           a == GenStep \div NENV
           b == IdLimit \div NENV
           n == NextId(s, e)
<1>1. NENV \in Nat \ {0} /\ GenStep \in Nat /\ IdLimit \in Nat /\ x \in Nat
      /\ y \in Nat /\ e \in 0 .. NENV - 1 /\ IdLimit > GenStep + NENV /\ GenStep > 0
  BY TableAssumption, IdAssumption DEF Slot, EnvId
<1>2. n = h + e
  BY DEF NextId
<1>3. a \in Int /\ b \in Int /\ GenStep = NENV * a /\ IdLimit = NENV * b
  BY <1>1, IdAssumption
<1> HIDE DEF n, x, a, b
<1>4. d \in Int /\ m \in 0 .. NENV - 1 /\ y = NENV * d + m
  BY <1>1
<1> HIDE DEF d, m
<1>5. g = NENV * d
  BY <1>1, <1>4
<1>6. a >= 1
  <2> SUFFICES ASSUME a <= 0 PROVE FALSE
    BY <1>3
  <2>1. NENV * a <= 0
    BY <1>1, <1>3
  <2> QED
    BY <1>1, <1>3, <2>1
<1>7. d >= a
  <2> SUFFICES ASSUME d + 1 <= a PROVE FALSE
    BY <1>3, <1>4
  <2>1. NENV * (d + 1) <= NENV * a
    BY <1>1, <1>3, <1>4
  <2>2. NENV * (d + 1) = NENV * d + NENV
    BY <1>1, <1>4
  <2> QED
    BY <1>1, <1>3, <1>4, <2>1, <2>2
<1>8. \E c \in Int : h = NENV * c /\ c >= 1 /\ c < b
  <2>1. CASE g >= IdLimit
    <3>1. a < b
      <4> SUFFICES ASSUME b <= a PROVE FALSE
        BY <1>3
      <4>1. NENV * b <= NENV * a
        BY <1>1, <1>3
      <4> QED
        BY <1>1, <1>3, <4>1
    <3> QED
      BY <1>3, <1>6, <2>1, <3>1
  <2>2. CASE ~(g >= IdLimit)
    <3>1. d < b
      <4> SUFFICES ASSUME b <= d PROVE FALSE
        BY <1>3, <1>4
      <4>1. NENV * b <= NENV * d
        BY <1>1, <1>3, <1>4
      <4> QED
        BY <1>1, <1>3, <1>4, <1>5, <2>2, <4>1
    <3>2. d >= 1
      BY <1>3, <1>4, <1>6, <1>7
    <3> QED
      BY <1>4, <1>5, <2>2, <3>1, <3>2
  <2> QED
    BY <2>1, <2>2
<1>9. PICK c \in Int : h = NENV * c /\ c >= 1 /\ c < b
  BY <1>8
<1>10. NENV * c >= NENV /\ NENV * (c + 1) <= NENV * b /\ NENV * (c + 1) = NENV * c + NENV
  BY <1>1, <1>3, <1>9
<1>11. n \in EnvId /\ n # 0
  BY <1>1, <1>2, <1>3, <1>9, <1>10 DEF EnvId
<1>12. n % NENV = e
  <2>1. n = NENV * c + e /\ n \in Int
    BY <1>1, <1>2, <1>9
  <2> QED
    BY <1>1, <2>1, ModUnique
<1>13. ASSUME x = 0 PROVE n = GenStep + e
  <2>1. y = GenStep /\ m = 0
    BY <1>1, <1>13, IdAssumption DEF m
  <2>2. g = GenStep
    BY <1>1, <2>1
  <2> QED
    BY <1>1, <1>2, <2>2
<1>14. ASSUME x % NENV = e, y < IdLimit PROVE n = y
  <2>1. m = e
    BY <1>1, <1>14, ModAdd, IdAssumption DEF m
  <2>2. g = y - e /\ ~(g >= IdLimit)
    BY <1>1, <1>14, <2>1
  <2> QED
    BY <1>1, <1>2, <2>2
<1> QED
  BY <1>11, <1>12, <1>13, <1>14 DEF n, x

\* env_alloc takes the first free slot and gives it a new identifier.
LEMMA AllocFields ==
  ASSUME NEW s, s \in Kernel, ListOf(s), s.env_free_list # <<>>, NEW parent \in EnvId
  PROVE  LET e == Head(s.env_free_list)
             n == env_alloc(s, parent)
         IN  /\ e \in Slot /\ s.envs[e].env_status = "FREE"
             /\ n \in Kernel /\ ListOf(n) /\ n.curenv = s.curenv /\ n.mode = s.mode
             /\ n.envs[e] = [env_status |-> "RUNNABLE", env_id |-> NextId(s, e), env_parent_id |-> parent]
             /\ \A f \in Slot \ {e} : n.envs[f] = s.envs[f]
<1> DEFINE l == s.env_free_list
           e == Head(l)
           r == Tail(l)
           n == env_alloc(s, parent)
           v == [env_status |-> "RUNNABLE", env_id |-> NextId(s, e), env_parent_id |-> parent]
<1>1. l \in Seq(Slot) /\ l # <<>> /\ (\A i, j \in DOMAIN l : l[i] = l[j] => i = j)
      /\ {l[i] : i \in DOMAIN l} = FreeSlots(s)
  BY DEF Kernel, ListOf
<1>2. n = [s EXCEPT !.envs[e] = v, !.env_free_list = Tail(@)]
  BY DEF env_alloc
<1> HIDE DEF l, n
<1>3. /\ Head(l) \in {l[i] : i \in DOMAIN l} /\ Head(l) \in Slot /\ r \in Seq(Slot)
      /\ {r[i] : i \in DOMAIN r} = {l[i] : i \in DOMAIN l} \ {Head(l)}
      /\ \A i, j \in DOMAIN r : r[i] = r[j] => i = j
  BY <1>1, PopSlot
<1>4. e \in Slot /\ e \in FreeSlots(s)
  BY <1>1, <1>3
<1> HIDE DEF e, r
<1>5. s.envs[e].env_status = "FREE" /\ s.envs[e].env_id \in EnvId /\ s.envs \in [Slot -> EnvRec]
  BY <1>4 DEF FreeSlots, Kernel, EnvRec
<1>6. NextId(s, e) \in EnvId
  BY <1>4, <1>5, NewId
<1>7. v \in EnvRec /\ v.env_status = "RUNNABLE"
  BY <1>6 DEF EnvRec, Status
<1> HIDE DEF v
<1>8. /\ n \in Kernel /\ n.env_free_list = r /\ n.curenv = s.curenv /\ n.mode = s.mode
      /\ n.envs = [s.envs EXCEPT ![e] = v]
  BY <1>2, <1>3, <1>4, <1>5, <1>7 DEF Kernel, r, l
<1>9. n.envs[e] = v /\ \A f \in Slot \ {e} : n.envs[f] = s.envs[f]
  BY <1>4, <1>5, <1>8
<1>10. FreeSlots(n) = FreeSlots(s) \ {e}
  BY <1>4, <1>7, <1>9 DEF FreeSlots
<1>11. ListOf(n)
  <2>1. {r[i] : i \in DOMAIN r} = FreeSlots(n)
    BY <1>1, <1>3, <1>10 DEF e
  <2> QED
    BY <1>3, <1>8, <2>1 DEF ListOf
<1> QED
  BY <1>4, <1>5, <1>8, <1>9, <1>11 DEF e, n, l, v

-----------------------------------------------------------------------------
(* Traps.                                                                    *)

\* The CPU went from the environment of slot c to another one in round-robin order.
Ordered(c, n) ==
  n.mode = "user" /\ n.curenv # c /\ n.envs[c].env_status # "FREE" =>
    \A j \in (IF n.curenv = 0 THEN Slot \ {0, c} ELSE Between(c, n.curenv, Slot \ {0})) :
      ~Runnable(n, j)

\* What a handler may leave behind that was called with c current.
Outcome(c, h) ==
  /\ Sane(h)
  /\ (h.mode = "kernel" /\ h.curenv = c) \/ (Settled(h) /\ Ordered(c, h))

Enter(s) == [s EXCEPT !.mode = "kernel"]

\* trap() finds the environment it interrupted running, never dying.
LEMMA EnterSane ==
  ASSUME NEW s, Sane(s), Settled(s), s.mode = "user"
  PROVE  LET n == Enter(s)
         IN  /\ TrapEntry(s) = n /\ Sane(n) /\ n.mode = "kernel"
             /\ n.envs = s.envs /\ n.env_free_list = s.env_free_list
             /\ n.curenv = s.curenv /\ s.curenv \in Slot /\ s.envs[s.curenv].env_status = "RUNNING"
<1> DEFINE n == Enter(s)
<1>1. s \in Kernel /\ s.curenv \in Slot /\ s.envs[s.curenv].env_status = "RUNNING"
  BY DEF Sane, Settled
<1>2. /\ n \in Kernel /\ n.envs = s.envs /\ n.env_free_list = s.env_free_list
      /\ n.curenv = s.curenv /\ n.mode = "kernel"
  BY <1>1 DEF Enter, Kernel
<1>3. TrapEntry(s) = n
  BY <1>1 DEF TrapEntry, Enter
<1> HIDE DEF n
<1>4. Sane(n)
  BY <1>2 DEF Sane, ListOf, FreeSlots
<1> QED
  BY <1>1, <1>2, <1>3, <1>4 DEF n

\* sched_yield is round-robin.
LEMMA YieldOrdered ==
  ASSUME NEW s, Sane(s), s.curenv \in Slot
  PROVE  Ordered(s.curenv, sched_yield(s))
<1> DEFINE n == sched_yield(s)
           c == s.curenv
           b == n.curenv
<1> SUFFICES ASSUME n.mode = "user", b # c,
                    NEW j \in (IF b = 0 THEN Slot \ {0, c} ELSE Between(c, b, Slot \ {0})),
                    Runnable(n, j)
             PROVE  FALSE
  BY DEF Ordered
<1>1. j \in Slot \ {0} /\ j # c /\ j # b
      /\ (b # 0 => IF c < b THEN c < j /\ j < b ELSE j > c \/ j < b)
  BY DEF Between
<1>2. s \in Kernel /\ NoEnv \notin Slot /\ 0 \in Slot /\ Start(s) = c /\ c \in Slot
  BY TableAssumption DEF Sane, NoEnv, Slot, Start
<1>3. \A r \in 0 .. NENV - 1 : Looked(s, r) \in Slot
  BY <1>2, LookedAt
<1>4. ASSUME NEW e \in Slot, Runnable(s, e), n = env_run(s, e) PROVE b = e /\ Runnable(s, j)
  <2>1. s.envs[e].env_status = "RUNNABLE"
    BY <1>4 DEF Runnable
  <2> DEFINE q == env_run(s, e)
  <2>2. /\ Sane(q) /\ Moves(s, q)
        /\ q.mode = "user" /\ q.curenv = e /\ q.envs[e].env_status = "RUNNING"
        /\ \A f \in Slot \ {e, s.curenv} : q.envs[f].env_status = s.envs[f].env_status
    BY <2>1, RunSane
  <2> HIDE DEF q
  <2>3. n = q
    BY <1>4 DEF q
  <2> QED
    BY <1>1, <2>2, <2>3 DEF Runnable
<1>5. \/ /\ \A i \in Slot : ~Runnable(s, i)
         /\ n = [s EXCEPT !.mode = "monitor"]
      \/ /\ \A i \in Slot \ {0} : ~Runnable(s, i)
         /\ Runnable(s, 0) /\ n = env_run(s, 0)
      \/ \E r \in 0 .. NENV - 1 :
           /\ Runnable(s, Looked(s, r)) /\ n = env_run(s, Looked(s, r))
           /\ \A i \in Slot \ {0} : Runnable(s, i) => r <= Reach(s, i)
  BY YieldChoice
<1>6. n # [s EXCEPT !.mode = "monitor"]
  <2>1. [s EXCEPT !.mode = "monitor"].mode = "monitor"
    BY <1>2 DEF Kernel
  <2> QED
    BY <2>1
<1> HIDE DEF n
<1>7. CASE (\A i \in Slot \ {0} : ~Runnable(s, i)) /\ Runnable(s, 0) /\ n = env_run(s, 0)
  BY <1>1, <1>2, <1>4, <1>7
<1>8. CASE \E r \in 0 .. NENV - 1 :
             /\ Runnable(s, Looked(s, r)) /\ n = env_run(s, Looked(s, r))
             /\ \A i \in Slot \ {0} : Runnable(s, i) => r <= Reach(s, i)
  <2>1. PICK r \in 0 .. NENV - 1 :
             /\ Runnable(s, Looked(s, r)) /\ n = env_run(s, Looked(s, r))
             /\ \A i \in Slot \ {0} : Runnable(s, i) => r <= Reach(s, i)
    BY <1>8
  <2>2. b = Looked(s, r) /\ Runnable(s, j)
    BY <1>3, <1>4, <2>1
  <2>3. r <= Reach(s, j)
    BY <1>1, <2>1, <2>2
  <2>4. /\ Looked(s, r) \in Slot \ {0}
        /\ c + r < NENV - 1 => Looked(s, r) = c + r + 1
        /\ c + r >= NENV - 1 /\ c + r < 2 * (NENV - 1) => Looked(s, r) = c + r + 1 - (NENV - 1)
        /\ c + r = 2 * (NENV - 1) => Looked(s, r) = 1
    BY <1>2, LookedAt
  <2>5. Reach(s, j) = IF j > c THEN j - 1 - c ELSE j - 1 - c + (NENV - 1)
    BY <1>2 DEF Reach
  <2> HIDE DEF b, c
  <2>6. c \in 0 .. NENV - 1 /\ j \in 1 .. NENV - 1 /\ b \in 1 .. NENV - 1 /\ NENV \in Nat
    BY <1>1, <1>2, <2>2, <2>4, TableAssumption DEF Slot
  <2>7. IF c < b THEN c < j /\ j < b ELSE j > c \/ j < b
    BY <1>1, <2>6
  <2>8. c + r < NENV - 1 => b = c + r + 1
    BY <2>2, <2>4
  <2>9. c + r >= NENV - 1 /\ c + r < 2 * (NENV - 1) => b = c + r + 1 - (NENV - 1)
    BY <2>2, <2>4
  <2>10. c + r = 2 * (NENV - 1) => b = 1
    BY <2>2, <2>4
  <2>11. j # c /\ j # b /\ b # c
    BY <1>1 DEF b, c
  <2> QED
    BY <2>3, <2>5, <2>6, <2>7, <2>8, <2>9, <2>10, <2>11
<1> QED
  BY <1>5, <1>6, <1>7, <1>8

\* The end of trap(): curenv again, or another environment, or the monitor.
LEMMA ExitSane ==
  ASSUME NEW c \in Slot, NEW h, Outcome(c, h)
  PROVE  LET n == TrapExit(h)
         IN  Sane(n) /\ Settled(n) /\ Moves(h, n) /\ Ordered(c, n)
<1> DEFINE n == TrapExit(h)
<1>1. Sane(h) /\ h \in Kernel /\ NoEnv \notin Slot
  BY DEF Outcome, Sane, Slot, NoEnv
<1>2. CASE h.mode # "kernel"
  <2>1. n = h /\ Settled(h) /\ Ordered(c, h)
    BY <1>2 DEF TrapExit, Outcome
  <2>2. Moves(h, h)
    BY DEF Moves
  <2> HIDE DEF n
  <2> QED
    BY <1>1, <2>1, <2>2 DEF n
<1>3. CASE h.mode = "kernel"
  <2>1. h.curenv = c
    BY <1>3 DEF Outcome, Settled
  <2>2. CASE h.envs[c].env_status = "RUNNING"
    <3>1. n = env_run(h, c)
      BY <1>1, <1>3, <2>1, <2>2 DEF TrapExit
    <3> DEFINE q == env_run(h, c)
    <3>2. /\ Sane(q) /\ Moves(h, q)
          /\ q.mode = "user" /\ q.curenv = c /\ q.envs[c].env_status = "RUNNING"
          /\ \A f \in Slot \ {c, h.curenv} : q.envs[f].env_status = h.envs[f].env_status
      BY <1>1, <2>1, <2>2, RunSane
    <3> HIDE DEF n, q
    <3>3. n = q
      BY <3>1 DEF q
    <3> QED
      BY <3>2, <3>3 DEF Settled, Ordered, n
  <2>3. CASE h.envs[c].env_status # "RUNNING"
    <3>1. n = sched_yield(h)
      BY <1>1, <1>3, <2>1, <2>3 DEF TrapExit
    <3>2. Ordered(c, sched_yield(h))
      BY <1>1, <2>1, YieldOrdered
    <3>3. LET q == sched_yield(h) IN Sane(q) /\ Settled(q) /\ Moves(h, q) /\ q.mode # "kernel"
      BY <1>1, YieldSane
    <3> HIDE DEF n
    <3> QED
      BY <3>1, <3>2, <3>3 DEF n
  <2> QED
    BY <2>2, <2>3
<1> QED
  BY <1>2, <1>3

\* From s to n no environment was created and no identifier changed.
IdsKept(s, n) ==
  \A e \in Slot :
    /\ n.envs[e].env_id = s.envs[e].env_id
    /\ n.envs[e].env_parent_id = s.envs[e].env_parent_id
    /\ n.envs[e].env_status # "FREE" => s.envs[e].env_status # "FREE"

\* Switching between environments keeps all identifiers.
LEMMA MovesKeep ==
  ASSUME NEW s, NEW n, Moves(s, n)
  PROVE  IdsKept(s, n)
BY DEF Moves, IdsKept

\* The handler of the timer and of sys_yield.
LEMMA YieldOutcome ==
  ASSUME NEW h, Sane(h), h.curenv \in Slot
  PROVE  Outcome(h.curenv, sched_yield(h)) /\ Moves(h, sched_yield(h))
<1>1. LET q == sched_yield(h) IN Sane(q) /\ Settled(q) /\ Moves(h, q) /\ q.mode # "kernel"
  BY YieldSane
<1>2. Ordered(h.curenv, sched_yield(h))
  BY YieldOrdered
<1> QED
  BY <1>1, <1>2 DEF Outcome

\* The handler of an unexpected fault and of sys_env_destroy.
LEMMA DestroyOutcome ==
  ASSUME NEW h, Sane(h), h.mode = "kernel", h.curenv \in Slot,
         NEW e \in Slot, h.envs[e].env_status # "FREE"
  PROVE  Outcome(h.curenv, env_destroy(h, e)) /\ IdsKept(h, env_destroy(h, e))
<1> DEFINE n == env_destroy(h, e)
           f == [env_free(h, e) EXCEPT !.curenv = IF e = h.curenv THEN NoEnv ELSE @]
<1>1. /\ Sane(f) /\ f.mode = h.mode
      /\ f.curenv = (IF e = h.curenv THEN NoEnv ELSE h.curenv)
      /\ \A i \in Slot :
           /\ f.envs[i].env_id = h.envs[i].env_id
           /\ f.envs[i].env_parent_id = h.envs[i].env_parent_id
           /\ f.envs[i].env_status = IF i = e THEN "FREE" ELSE h.envs[i].env_status
      /\ env_destroy(h, e) = IF e = h.curenv THEN sched_yield(f) ELSE f
  BY DestroySane
<1> HIDE DEF f
<1>2. CASE e = h.curenv
  <2>1. n = sched_yield(f)
    BY <1>1, <1>2
  <2>2. Sane(n) /\ Settled(n) /\ Moves(f, n)
    <3>1. LET q == sched_yield(f) IN Sane(q) /\ Settled(q) /\ Moves(f, q) /\ q.mode # "kernel"
      BY <1>1, YieldSane
    <3> HIDE DEF n
    <3> QED
      BY <2>1, <3>1
  <2> HIDE DEF n
  <2>3. n.envs[e].env_status = "FREE"
    <3>1. f.envs[e].env_status = "FREE"
      BY <1>1
    <3> QED
      BY <2>2, <3>1 DEF Moves
  <2>4. IdsKept(h, n)
    BY <1>1, <2>2 DEF Moves, IdsKept
  <2> QED
    BY <1>2, <2>2, <2>3, <2>4 DEF Outcome, Ordered, n
<1>3. CASE e # h.curenv
  <2>1. n = f
    BY <1>1, <1>3
  <2> HIDE DEF n
  <2>2. IdsKept(h, n)
    BY <1>1, <2>1 DEF IdsKept
  <2> QED
    BY <1>1, <1>3, <2>1, <2>2 DEF Outcome, n
<1> QED
  BY <1>2, <1>3

\* Setting the status of an environment that exists to runnable or not runnable.
LEMMA StatusSane ==
  ASSUME NEW h, Sane(h), NEW e \in Slot, h.envs[e].env_status # "FREE",
         NEW status \in {"RUNNABLE", "NOT_RUNNABLE"}
  PROVE  LET n == SetStatus(h, e, status)
         IN  /\ Sane(n) /\ n.curenv = h.curenv /\ n.mode = h.mode
             /\ \A f \in Slot :
                  /\ n.envs[f].env_id = h.envs[f].env_id
                  /\ n.envs[f].env_parent_id = h.envs[f].env_parent_id
                  /\ n.envs[f].env_status = IF f = e THEN status ELSE h.envs[f].env_status
<1> DEFINE n == SetStatus(h, e, status)
<1>1. h \in Kernel /\ status \in Status
  BY DEF Sane, Status
<1>2. /\ n \in Kernel
      /\ n.env_free_list = h.env_free_list /\ n.curenv = h.curenv /\ n.mode = h.mode
      /\ \A f \in Slot :
           /\ n.envs[f].env_id = h.envs[f].env_id
           /\ n.envs[f].env_parent_id = h.envs[f].env_parent_id
           /\ n.envs[f].env_status = IF f = e THEN status ELSE h.envs[f].env_status
  BY <1>1, StatusFields
<1> HIDE DEF n
<1>3. ListOf(n)
  <2>1. FreeSlots(n) = FreeSlots(h)
    BY <1>2 DEF FreeSlots
  <2> QED
    BY <1>2, <2>1 DEF Sane, ListOf
<1>4. h.curenv \in Slot \cup {NoEnv}
  BY <1>1 DEF Kernel
<1>5. Sane(n)
  BY <1>2, <1>3, <1>4 DEF Sane
<1> QED
  BY <1>2, <1>5 DEF n

\* The handler of sys_env_set_status.
LEMMA StatusOutcome ==
  ASSUME NEW h, Sane(h), h.mode = "kernel", h.curenv \in Slot,
         NEW e \in Slot, h.envs[e].env_status # "FREE",
         NEW status \in {"RUNNABLE", "NOT_RUNNABLE"}
  PROVE  Outcome(h.curenv, SetStatus(h, e, status)) /\ IdsKept(h, SetStatus(h, e, status))
<1> DEFINE n == SetStatus(h, e, status)
<1>1. /\ Sane(n) /\ n.curenv = h.curenv /\ n.mode = h.mode
      /\ \A f \in Slot :
           /\ n.envs[f].env_id = h.envs[f].env_id
           /\ n.envs[f].env_parent_id = h.envs[f].env_parent_id
           /\ n.envs[f].env_status = IF f = e THEN status ELSE h.envs[f].env_status
  BY StatusSane
<1> HIDE DEF n
<1> QED
  BY <1>1 DEF Outcome, IdsKept, n

\* The handler of sys_exofork.
LEMMA ForkOutcome ==
  ASSUME NEW h, Sane(h), h.mode = "kernel", h.curenv \in Slot, h.env_free_list # <<>>
  PROVE  LET e == Head(h.env_free_list)
             p == h.envs[h.curenv].env_id
             n == SetStatus(env_alloc(h, p), e, "NOT_RUNNABLE")
         IN  /\ Outcome(h.curenv, n) /\ e \in Slot /\ h.envs[e].env_status = "FREE"
             /\ n.envs[e].env_id = NextId(h, e) /\ n.envs[e].env_parent_id = p
             /\ \A f \in Slot \ {e} : n.envs[f] = h.envs[f]
<1> DEFINE e == Head(h.env_free_list)
           p == h.envs[h.curenv].env_id
           a == env_alloc(h, p)
           n == SetStatus(a, e, "NOT_RUNNABLE")
<1>1. h \in Kernel /\ ListOf(h) /\ p \in EnvId /\ "NOT_RUNNABLE" \in Status
  BY DEF Sane, Kernel, EnvRec, Status
<1> HIDE DEF p
<1>2. /\ e \in Slot /\ h.envs[e].env_status = "FREE"
      /\ a \in Kernel /\ ListOf(a) /\ a.curenv = h.curenv /\ a.mode = h.mode
      /\ a.envs[e] = [env_status |-> "RUNNABLE", env_id |-> NextId(h, e), env_parent_id |-> p]
      /\ \A f \in Slot \ {e} : a.envs[f] = h.envs[f]
  BY <1>1, AllocFields
<1> HIDE DEF a, e
<1>3. /\ n \in Kernel
      /\ n.env_free_list = a.env_free_list /\ n.curenv = a.curenv /\ n.mode = a.mode
      /\ \A f \in Slot :
           /\ n.envs[f].env_id = a.envs[f].env_id
           /\ n.envs[f].env_parent_id = a.envs[f].env_parent_id
           /\ n.envs[f].env_status = IF f = e THEN "NOT_RUNNABLE" ELSE a.envs[f].env_status
  BY <1>1, <1>2, StatusFields
<1> HIDE DEF n
<1>4. ListOf(n)
  <2>1. FreeSlots(n) = FreeSlots(a)
    BY <1>2, <1>3 DEF FreeSlots
  <2> QED
    BY <1>2, <1>3, <2>1 DEF ListOf
<1>5. \A f \in Slot \ {e} : n.envs[f] = h.envs[f]
  <2> SUFFICES ASSUME NEW f \in Slot \ {e} PROVE n.envs[f] = h.envs[f]
    OBVIOUS
  <2>1. n.envs[f] \in EnvRec /\ h.envs[f] \in EnvRec
    BY <1>1, <1>3 DEF Kernel
  <2>2. /\ n.envs[f].env_id = h.envs[f].env_id
        /\ n.envs[f].env_parent_id = h.envs[f].env_parent_id
        /\ n.envs[f].env_status = h.envs[f].env_status
    BY <1>2, <1>3
  <2> QED
    BY <2>1, <2>2 DEF EnvRec
<1>6. n.envs[e].env_status = "NOT_RUNNABLE" /\ n.envs[e].env_id = NextId(h, e)
      /\ n.envs[e].env_parent_id = p
  BY <1>2, <1>3
<1>7. Sane(n)
  BY <1>2, <1>3, <1>4, <1>5, <1>6 DEF Sane
<1> QED
  BY <1>2, <1>3, <1>5, <1>6, <1>7 DEF Outcome, n, a, e, p

\* envid2env finds an environment that exists.
LEMMA FoundExists ==
  ASSUME Sane(st), st.curenv \in Slot, NEW envid \in EnvId, NEW checkperm \in BOOLEAN
  PROVE  LET e == envid2env(st, envid, checkperm)
         IN  e # NoEnv => e \in Slot /\ st.envs[e].env_status # "FREE"
<1>1. envid % NENV \in Slot
  BY TableAssumption DEF EnvId, Slot
<1> QED
  BY <1>1 DEF envid2env, Sane

-----------------------------------------------------------------------------
(* Steps of the specification.                                               *)

\* What sys_exofork does: slot e, free until now, holds a child of curenv.
Forked(e) ==
  /\ e \in Slot /\ st.envs[e].env_status = "FREE"
  /\ st'.envs[e].env_id = NextId(st, e)
  /\ st'.envs[e].env_parent_id = st.envs[st.curenv].env_id
  /\ \A f \in Slot \ {e} :
       /\ st'.envs[f].env_id = st.envs[f].env_id
       /\ st'.envs[f].env_parent_id = st.envs[f].env_parent_id
       /\ st'.envs[f].env_status # "FREE" => st.envs[f].env_status # "FREE"
  /\ Birth(e, st.curenv)

\* A trap whose handler gave h.
LEMMA TrapStep ==
  ASSUME Sane(st), Settled(st), st.mode = "user", NEW h, Outcome(st.curenv, h),
         st' = TrapExit(h)
  PROVE  Sane(st') /\ Settled(st') /\ Ordered(st.curenv, st') /\ Moves(h, st')
<1>1. st.curenv \in Slot
  BY DEF Settled
<1> DEFINE n == TrapExit(h)
<1>2. Sane(n) /\ Settled(n) /\ Moves(h, n) /\ Ordered(st.curenv, n)
  BY <1>1, ExitSane
<1> HIDE DEF n
<1>3. st' = n
  BY DEF n
<1> QED
  BY <1>2, <1>3

\* Every step keeps the kernel state sane, schedules in order, and creates at most
\* one environment.
LEMMA StepSane ==
  ASSUME Sane(st), Settled(st), Next
  PROVE  /\ Sane(st') /\ Settled(st')
         /\ st.mode = "user" => Ordered(st.curenv, st')
         /\ \/ IdsKept(st, st') /\ NoBirth
            \/ st.mode = "user" /\ Forked(Head(st.env_free_list))
<1> DEFINE i == Enter(st)
           c == st.curenv
           Done == /\ Sane(st') /\ Settled(st')
                   /\ st.mode = "user" => Ordered(st.curenv, st')
                   /\ \/ IdsKept(st, st') /\ NoBirth
                      \/ st.mode = "user" /\ Forked(Head(st.env_free_list))
<1>1. ASSUME st.mode = "user"
      PROVE  /\ TrapEntry(st) = i /\ Sane(i) /\ i.mode = "kernel"
             /\ i.envs = st.envs /\ i.env_free_list = st.env_free_list
             /\ i.curenv = c /\ c \in Slot /\ st.envs[c].env_status = "RUNNING"
  BY <1>1, EnterSane
<1> HIDE DEF i, c
<1>2. ASSUME st.mode = "user", NoBirth, NEW h, Outcome(c, h), IdsKept(i, h), st' = TrapExit(h)
      PROVE  Done
  <2>1. Outcome(st.curenv, h)
    BY <1>2 DEF c
  <2>2. Sane(st') /\ Settled(st') /\ Ordered(st.curenv, st') /\ Moves(h, st')
    BY <1>2, <2>1, TrapStep
  <2>3. IdsKept(st, st')
    BY <1>1, <1>2, <2>2 DEF IdsKept, Moves
  <2> QED
    BY <1>2, <2>2, <2>3
<1>3. ASSUME st.mode = "user", NoBirth, st' = TrapExit(sched_yield(i)) PROVE Done
  <2>1. Outcome(i.curenv, sched_yield(i)) /\ Moves(i, sched_yield(i))
    BY <1>1, <1>3, YieldOutcome
  <2>2. IdsKept(i, sched_yield(i))
    BY <2>1, MovesKeep
  <2> HIDE DEF Done
  <2> QED
    BY <1>1, <1>2, <1>3, <2>1, <2>2
<1>4. ASSUME st.mode = "user", NoBirth, NEW e \in Slot, st.envs[e].env_status # "FREE",
             st' = TrapExit(env_destroy(i, e))
      PROVE  Done
  <2>1. i.envs[e].env_status # "FREE" /\ Sane(i) /\ i.mode = "kernel" /\ i.curenv \in Slot
    BY <1>1, <1>4
  <2>2. Outcome(i.curenv, env_destroy(i, e)) /\ IdsKept(i, env_destroy(i, e))
    BY <2>1, DestroyOutcome
  <2> HIDE DEF Done
  <2> QED
    BY <1>1, <1>2, <1>4, <2>2
<1>5. ASSUME Timer PROVE Done
  <2>1. st.mode = "user" /\ NoBirth
    BY <1>5 DEF Timer, trap
  <2>2. st' = TrapExit(sched_yield(i))
    BY <1>1, <1>5, <2>1 DEF Timer, trap
  <2> QED
    BY <1>3, <2>1, <2>2
<1>6. ASSUME sys_yield PROVE Done
  <2>1. st.mode = "user" /\ NoBirth
    BY <1>6 DEF sys_yield, trap
  <2>2. st' = TrapExit(sched_yield(i))
    BY <1>1, <1>6, <2>1 DEF sys_yield, trap
  <2> QED
    BY <1>3, <2>1, <2>2
<1>7. ASSUME Fault PROVE Done
  <2>1. st.mode = "user" /\ NoBirth
    BY <1>7 DEF Fault, trap
  <2>2. st' = TrapExit(env_destroy(i, c))
    BY <1>1, <1>7, <2>1 DEF Fault, trap
  <2>3. c \in Slot /\ st.envs[c].env_status # "FREE"
    BY <1>1, <2>1
  <2> HIDE DEF Done
  <2> QED
    BY <1>4, <2>1, <2>2, <2>3
<1>8. ASSUME NEW envid \in EnvId, sys_env_destroy(envid) PROVE Done
  <2> DEFINE e == envid2env(st, envid, TRUE)
  <2>1. st.mode = "user" /\ NoBirth /\ e # NoEnv
    BY <1>8 DEF sys_env_destroy
  <2>2. st' = TrapExit(env_destroy(i, e))
    BY <1>1, <1>8, <2>1 DEF sys_env_destroy, trap
  <2>3. e \in Slot /\ st.envs[e].env_status # "FREE"
    BY <1>1, <2>1, FoundExists DEF c
  <2> HIDE DEF Done, e
  <2> QED
    BY <1>4, <2>1, <2>2, <2>3
<1>9. ASSUME NEW envid \in EnvId, NEW status \in {"RUNNABLE", "NOT_RUNNABLE"},
             sys_env_set_status(envid, status)
      PROVE  Done
  <2> DEFINE e == envid2env(st, envid, TRUE)
  <2>1. st.mode = "user" /\ NoBirth /\ e # NoEnv
    BY <1>9 DEF sys_env_set_status
  <2>2. st' = TrapExit(SetStatus(i, e, status))
    BY <1>1, <1>9, <2>1 DEF sys_env_set_status, trap
  <2>3. e \in Slot /\ st.envs[e].env_status # "FREE"
    BY <1>1, <2>1, FoundExists DEF c
  <2> HIDE DEF Done, e
  <2>4. i.envs[e].env_status # "FREE" /\ Sane(i) /\ i.mode = "kernel" /\ i.curenv \in Slot
    BY <1>1, <2>1, <2>3
  <2>5. Outcome(i.curenv, SetStatus(i, e, status)) /\ IdsKept(i, SetStatus(i, e, status))
    BY <2>3, <2>4, StatusOutcome
  <2> QED
    BY <1>1, <1>2, <2>1, <2>2, <2>5
<1>10. ASSUME sys_exofork PROVE Done
  <2> DEFINE e == Head(st.env_free_list)
             p == st.envs[c].env_id
             n == SetStatus(env_alloc(i, p), e, "NOT_RUNNABLE")
  <2>1. st.mode = "user" /\ st.env_free_list # <<>> /\ Birth(e, st.curenv)
    BY <1>10 DEF sys_exofork, trap
  <2>2. st' = TrapExit(n)
    BY <1>1, <1>10, <2>1 DEF sys_exofork, trap
  <2>3. Sane(i) /\ i.mode = "kernel" /\ i.curenv \in Slot /\ i.env_free_list # <<>>
    BY <1>1, <2>1
  <2>4. LET ee == Head(i.env_free_list)
            pp == i.envs[i.curenv].env_id
            nn == SetStatus(env_alloc(i, pp), ee, "NOT_RUNNABLE")
        IN  /\ Outcome(i.curenv, nn) /\ ee \in Slot /\ i.envs[ee].env_status = "FREE"
            /\ nn.envs[ee].env_id = NextId(i, ee) /\ nn.envs[ee].env_parent_id = pp
            /\ \A f \in Slot \ {ee} : nn.envs[f] = i.envs[f]
    BY <2>3, ForkOutcome
  <2>5. i.env_free_list = st.env_free_list /\ i.envs = st.envs /\ i.curenv = c
    BY <1>1, <2>1
  <2>6. /\ Outcome(c, n) /\ e \in Slot /\ st.envs[e].env_status = "FREE"
        /\ n.envs[e].env_id = NextId(i, e) /\ n.envs[e].env_parent_id = p
        /\ \A f \in Slot \ {e} : n.envs[f] = st.envs[f]
    BY <2>4, <2>5
  <2>7. NextId(i, e) = NextId(st, e)
    BY <2>5 DEF NextId
  <2> HIDE DEF e, p, n
  <2>8. Outcome(st.curenv, n)
    BY <2>6 DEF c
  <2>9. Sane(st') /\ Settled(st') /\ Ordered(st.curenv, st') /\ Moves(n, st')
    BY <2>1, <2>2, <2>8, TrapStep
  <2>10. \A f \in Slot :
           /\ st'.envs[f].env_id = n.envs[f].env_id
           /\ st'.envs[f].env_parent_id = n.envs[f].env_parent_id
           /\ st'.envs[f].env_status # "FREE" => n.envs[f].env_status # "FREE"
    BY <2>9 DEF Moves
  <2>11. Forked(e)
    <3>1. st'.envs[e].env_id = NextId(st, e) /\ st'.envs[e].env_parent_id = st.envs[st.curenv].env_id
      BY <2>6, <2>7, <2>10 DEF p, c
    <3>2. \A f \in Slot \ {e} :
            /\ st'.envs[f].env_id = st.envs[f].env_id
            /\ st'.envs[f].env_parent_id = st.envs[f].env_parent_id
            /\ st'.envs[f].env_status # "FREE" => st.envs[f].env_status # "FREE"
      BY <2>6, <2>10
    <3> QED
      BY <2>1, <2>6, <3>1, <3>2 DEF Forked
  <2> QED
    BY <2>1, <2>9, <2>11 DEF e
<1>11. ASSUME InMonitor PROVE Done
  <2>1. st' = st /\ NoBirth /\ st.mode # "user"
    BY <1>11 DEF InMonitor, vars, NoBirth
  <2> QED
    BY <2>1 DEF IdsKept
<1> HIDE DEF Done
<1>12. Done
  BY <1>5, <1>6, <1>7, <1>8, <1>9, <1>10, <1>11 DEF Next
<1> QED
  BY <1>12 DEF Done

\* The inductive invariant of the environment table.
SchedInv == TypeOK /\ Sane(st) /\ Settled(st)

\* boot_aps: the first environment is alone, and runs.
LEMMA InitSane ==
  ASSUME Init
  PROVE  /\ Sane(st) /\ Settled(st) /\ st.envs[0].env_status = "RUNNING"
         /\ st.envs[0].env_id = GenStep /\ st.envs[0].env_parent_id = 0
         /\ \A f \in Slot \ {0} : st.envs[f] = [env_status |-> "FREE", env_id |-> 0, env_parent_id |-> 0]
<1> DEFINE z == env_init
           blank == [env_status |-> "FREE", env_id |-> 0, env_parent_id |-> 0]
           l == [i \in 1 .. NENV |-> i - 1]
           a == env_alloc(z, 0)
<1>1. /\ 0 \in EnvId /\ 0 \in Slot /\ NENV \in Nat /\ NENV > 1 /\ NoEnv \notin Slot
      /\ Slot = 0 .. NENV - 1 /\ GenStep \in Nat
  BY TableAssumption, IdAssumption DEF EnvId, Slot, NoEnv
<1>2. blank \in EnvRec /\ blank.env_status = "FREE" /\ blank.env_id = 0
  BY <1>1 DEF EnvRec, Status
<1> HIDE DEF blank
<1>3. l \in Seq(Slot) /\ l # <<>> /\ Head(l) = 0 /\ DOMAIN l = 1 .. NENV
      /\ (\A i, j \in DOMAIN l : l[i] = l[j] => i = j)
  <2>1. \A i \in 1 .. NENV : i - 1 \in Slot
    BY <1>1
  <2>2. l \in [1 .. NENV -> Slot]
    BY <2>1
  <2>3. l \in Seq(Slot) /\ Len(l) = NENV
    BY <1>1, <2>2
  <2>4. l # <<>> /\ Head(l) = l[1] /\ l[1] = 0
    BY <1>1, <2>3
  <2> QED
    BY <1>1, <2>2, <2>3, <2>4
<1>4. {l[i] : i \in DOMAIN l} = Slot
  <2>1. \A e \in Slot : e + 1 \in DOMAIN l /\ l[e + 1] = e
    BY <1>1
  <2>2. \A i \in DOMAIN l : l[i] \in Slot
    BY <1>1
  <2> QED
    BY <2>1, <2>2
<1>5. z = [envs |-> [e \in Slot |-> blank], env_free_list |-> l, curenv |-> NoEnv, mode |-> "kernel"]
  BY DEF env_init, blank
<1> HIDE DEF l, z
<1>6. /\ z \in Kernel /\ z.env_free_list = l /\ z.curenv = NoEnv
      /\ \A e \in Slot : z.envs[e] = blank
  BY <1>2, <1>3, <1>5 DEF Kernel
<1>7. FreeSlots(z) = Slot
  BY <1>2, <1>6 DEF FreeSlots
<1>8. ListOf(z)
  BY <1>3, <1>4, <1>6, <1>7 DEF ListOf
<1>9. LET e == Head(z.env_free_list)
      IN  /\ e \in Slot /\ z.envs[e].env_status = "FREE"
          /\ a \in Kernel /\ ListOf(a) /\ a.curenv = z.curenv /\ a.mode = z.mode
          /\ a.envs[e] = [env_status |-> "RUNNABLE", env_id |-> NextId(z, e), env_parent_id |-> 0]
          /\ \A f \in Slot \ {e} : a.envs[f] = z.envs[f]
  BY <1>1, <1>3, <1>6, <1>8, AllocFields
<1>10. Head(z.env_free_list) = 0
  BY <1>3, <1>6
<1> HIDE DEF a
<1>11. /\ a \in Kernel /\ ListOf(a) /\ a.curenv = NoEnv
       /\ a.envs[0] = [env_status |-> "RUNNABLE", env_id |-> NextId(z, 0), env_parent_id |-> 0]
       /\ \A f \in Slot \ {0} : a.envs[f] = blank
  BY <1>6, <1>9, <1>10
<1>12. NextId(z, 0) = GenStep
  <2>1. z.envs[0].env_id = 0 /\ z.envs[0].env_id \in EnvId
    BY <1>1, <1>2, <1>6
  <2>2. NextId(z, 0) = GenStep + 0
    BY <1>1, <2>1, NewId
  <2> QED
    BY <1>1, <2>2
<1>13. a.envs[0].env_status = "RUNNABLE" /\ a.envs[0].env_id = GenStep /\ a.envs[0].env_parent_id = 0
  BY <1>11, <1>12
<1>14. Sane(a)
  BY <1>1, <1>2, <1>11, <1>13 DEF Sane
<1> DEFINE n == env_run(a, 0)
<1>15. /\ Sane(n) /\ Moves(a, n)
       /\ n.mode = "user" /\ n.curenv = 0 /\ n.envs[0].env_status = "RUNNING"
       /\ \A f \in Slot \ {0, a.curenv} : n.envs[f].env_status = a.envs[f].env_status
  BY <1>1, <1>13, <1>14, RunSane
<1>16. st = n
  BY DEF Init, a, z
<1> HIDE DEF n
<1>17. ASSUME NEW f \in Slot \ {0} PROVE n.envs[f] = blank
  <2>1. n.envs[f] \in EnvRec /\ a.envs[f] = blank
    BY <1>11, <1>15 DEF Sane, Kernel
  <2>2. /\ n.envs[f].env_id = a.envs[f].env_id
        /\ n.envs[f].env_parent_id = a.envs[f].env_parent_id
        /\ n.envs[f].env_status = a.envs[f].env_status
    BY <1>1, <1>11, <1>15 DEF Moves
  <2> QED
    BY <1>2, <2>1, <2>2 DEF EnvRec
<1>18. n.envs[0].env_id = GenStep /\ n.envs[0].env_parent_id = 0
  BY <1>1, <1>13, <1>15 DEF Moves
<1>19. Settled(n)
  BY <1>1, <1>15 DEF Settled
<1> QED
  BY <1>15, <1>16, <1>17, <1>18, <1>19 DEF blank

\* Creations are numbered.
LEMMA BirthTypes ==
  ASSUME TypeOK, NEW e \in Slot, Birth(e, st.curenv), st'.envs[e].env_id \in EnvId,
         st.curenv \in Slot
  PROVE  /\ birth' \in [Slot -> 0 .. MaxBirths] /\ creator' \in [Slot -> 0 .. MaxBirths]
         /\ births' \in 0 .. MaxBirths /\ held' \subseteq EnvId \X (1 .. MaxBirths)
<1>1. MaxBirths \in Nat /\ births \in Nat /\ births < MaxBirths /\ births + 1 \in 1 .. MaxBirths
  BY BirthsAssumption DEF TypeOK, Birth
<1>2. birth' \in [Slot -> 0 .. MaxBirths] /\ births' \in 0 .. MaxBirths
  BY <1>1 DEF TypeOK, Birth
<1>3. creator' \in [Slot -> 0 .. MaxBirths]
  <2>1. (IF st.curenv = NoEnv THEN 0 ELSE birth[st.curenv]) \in 0 .. MaxBirths
    BY <1>1 DEF TypeOK
  <2> QED
    BY <2>1 DEF TypeOK, Birth
<1>4. held' \subseteq EnvId \X (1 .. MaxBirths)
  BY <1>1 DEF TypeOK, Birth
<1> QED
  BY <1>2, <1>3, <1>4

\* SchedInv holds after boot_aps.
LEMMA SchedInvInit == Init => SchedInv
<1> SUFFICES ASSUME Init PROVE SchedInv
  OBVIOUS
<1>1. Sane(st) /\ Settled(st) /\ st.envs[0].env_id = GenStep
  BY InitSane
<1>2. st \in Kernel /\ st.mode \in {"user", "monitor"} /\ (st.mode = "user" => st.curenv # NoEnv)
  BY <1>1 DEF Sane, Settled, Slot, NoEnv
<1>3. /\ inService \in BOOLEAN
      /\ birth \in [Slot -> 0 .. MaxBirths] /\ creator \in [Slot -> 0 .. MaxBirths]
      /\ births \in 0 .. MaxBirths
  <2>1. 0 \in 0 .. MaxBirths /\ 1 \in 0 .. MaxBirths
    BY BirthsAssumption
  <2>2. /\ inService = FALSE /\ births = 1
        /\ birth = [e \in Slot |-> IF e = 0 THEN 1 ELSE 0] /\ creator = [e \in Slot |-> 0]
    BY DEF Init
  <2> QED
    BY <2>1, <2>2
<1>4. held \subseteq EnvId \X (1 .. MaxBirths)
  <2>1. GenStep \in EnvId /\ 1 \in 1 .. MaxBirths
    BY IdAssumption, TableAssumption, BirthsAssumption DEF EnvId
  <2>2. held = {<<GenStep, 1>>}
    BY <1>1 DEF Init
  <2> QED
    BY <2>1, <2>2
<1> QED
  BY <1>1, <1>2, <1>3, <1>4 DEF SchedInv, TypeOK

\* Every step keeps SchedInv.
LEMMA SchedInvNext == SchedInv /\ [Next]_vars => SchedInv'
<1> SUFFICES ASSUME SchedInv, [Next]_vars PROVE SchedInv'
  OBVIOUS
<1>1. CASE UNCHANGED vars
  BY <1>1 DEF SchedInv, TypeOK, Sane, Settled, ListOf, FreeSlots, Runnable, vars
<1>2. CASE Next
  <2>1. /\ Sane(st') /\ Settled(st')
        /\ st.mode = "user" => Ordered(st.curenv, st')
        /\ \/ IdsKept(st, st') /\ NoBirth
           \/ st.mode = "user" /\ Forked(Head(st.env_free_list))
    BY <1>2, StepSane DEF SchedInv
  <2>2. st' \in Kernel /\ st'.mode \in {"user", "monitor"} /\ NoEnv \notin Slot
        /\ (st'.mode = "user" => st'.curenv # NoEnv)
    BY <2>1 DEF Sane, Settled, Slot, NoEnv
  <2>3. inService' \in BOOLEAN
    BY <1>2 DEF SchedInv, TypeOK, Next, Timer, Fault, sys_yield, sys_exofork, sys_env_destroy,
                sys_env_set_status, InMonitor, vars
  <2>4. /\ birth' \in [Slot -> 0 .. MaxBirths] /\ creator' \in [Slot -> 0 .. MaxBirths]
        /\ births' \in 0 .. MaxBirths /\ held' \subseteq EnvId \X (1 .. MaxBirths)
    <3>1. CASE NoBirth
      BY <3>1 DEF SchedInv, TypeOK, NoBirth
    <3>2. CASE st.mode = "user" /\ Forked(Head(st.env_free_list))
      <4> DEFINE e == Head(st.env_free_list)
      <4>1. e \in Slot /\ Birth(e, st.curenv) /\ st'.envs[e].env_id \in EnvId /\ st.curenv \in Slot
        BY <2>2, <3>2 DEF Forked, SchedInv, Settled, Kernel, EnvRec
      <4> HIDE DEF e
      <4> QED
        BY <4>1, BirthTypes DEF SchedInv
    <3> QED
      BY <2>1, <3>1, <3>2
  <2>5. TypeOK'
    BY <2>2, <2>3, <2>4 DEF TypeOK
  <2> QED
    BY <2>1, <2>5 DEF SchedInv
<1> QED
  BY <1>1, <1>2

-----------------------------------------------------------------------------
(* What holds for every number of slots and every width of an envid.         *)

\* The inductive invariant holds in every reachable state.
LEMMA SchedAlways == Spec => []SchedInv
BY SchedInvInit, SchedInvNext, PTL DEF Spec

\* Type correctness of the scheduler: envids stay within an int32_t, the monitor or an
\* environment runs.
THEOREM SchedTypeCorrect == Spec => []TypeOK
<1>1. SchedInv => TypeOK
  BY DEF SchedInv
<1> QED
  BY <1>1, SchedAlways, PTL

\* SchedInv says which environment runs.
LEMMA InvOneRunning == SchedInv => OneRunning
<1> SUFFICES ASSUME SchedInv PROVE OneRunning
  OBVIOUS
<1>1. ASSUME st.mode = "user"
      PROVE  {e \in Slot : st.envs[e].env_status = "RUNNING"} = {st.curenv}
  <2>1. st.curenv \in Slot /\ st.envs[st.curenv].env_status = "RUNNING"
    BY <1>1 DEF SchedInv, Settled
  <2>2. \A e \in Slot : st.envs[e].env_status = "RUNNING" => e = st.curenv
    BY DEF SchedInv, Sane
  <2> QED
    BY <2>1, <2>2
<1>2. \A e \in Slot : st.envs[e].env_status # "DYING"
  BY DEF SchedInv, Sane
<1> QED
  BY <1>1, <1>2 DEF OneRunning

\* In user mode curenv is the one environment marked ENV_RUNNING, and there is no
\* zombie, for every number of slots (env_run, env_destroy, trap).
THEOREM OneEnvRuns == Spec => []OneRunning
BY InvOneRunning, SchedAlways, PTL

\* A list without duplicates is as long as the set of its elements is large.
LEMMA ListLength ==
  ASSUME NEW l \in Seq(Slot), \A i, j \in DOMAIN l : l[i] = l[j] => i = j
  PROVE  Len(l) = Cardinality({l[i] : i \in DOMAIN l})
<1> DEFINE n == Len(l)
           T == {l[i] : i \in DOMAIN l}
<1>1. n \in Nat /\ DOMAIN l = 1 .. n /\ l \in [1 .. n -> T]
  OBVIOUS
<1>2. l \in Bijection(1 .. n, T)
  <2>1. l \in Injection(1 .. n, T)
    BY <1>1 DEF Injection, IsInjective
  <2>2. l \in Surjection(1 .. n, T)
    BY <1>1 DEF Surjection
  <2> QED
    BY <2>1, <2>2 DEF Bijection
<1> HIDE DEF T, n
<1>3. ExistsBijection(1 .. n, T)
  BY <1>2 DEF ExistsBijection
<1>4. Cardinality(T) = n
  BY <1>1, <1>3, FS_CountingElements
<1> QED
  BY <1>4 DEF T, n

\* SchedInv says what is on the free list, and how often.
LEMMA InvListExact == SchedInv => EnvListExact
<1> SUFFICES ASSUME SchedInv PROVE EnvListExact
  OBVIOUS
<1> DEFINE l == st.env_free_list
<1>1. l \in Seq(Slot) /\ (\A i, j \in DOMAIN l : l[i] = l[j] => i = j)
      /\ {l[i] : i \in DOMAIN l} = FreeSlots(st)
  BY DEF SchedInv, Sane, Kernel, ListOf
<1> HIDE DEF l
<1>2. Len(l) = Cardinality({l[i] : i \in DOMAIN l})
  BY <1>1, ListLength
<1>3. Len(l) = Cardinality(FreeSlots(st))
  BY <1>1, <1>2
<1> QED
  BY <1>1, <1>3 DEF EnvListExact, FreeSlots, l

\* env_free_list holds every free slot exactly once (env_alloc, env_free).
THEOREM EnvListAlwaysExact == Spec => []EnvListExact
BY InvListExact, SchedAlways, PTL

\* SchedInv says when the monitor is entered.
LEMMA InvNoneRunnable == SchedInv => NoneRunnableLeft
BY DEF SchedInv, Settled, NoneRunnableLeft

\* sched_yield enters the monitor only when its search missed no runnable environment.
THEOREM MonitorMeansNoneRunnable == Spec => []NoneRunnableLeft
BY InvNoneRunnable, SchedAlways, PTL

\* sched_yield is round-robin over slots 1 .. NENV-1, and envs[0] runs last.
THEOREM SchedulesInOrder == Spec => RoundRobin
<1> DEFINE A == Switches /\ st'.envs[st.curenv].env_status # "FREE" =>
                  \A j \in (IF st'.curenv = 0 THEN Slot \ {0, st.curenv}
                            ELSE Between(st.curenv, st'.curenv, Slot \ {0})) : ~Runnable(st', j)
<1>1. SchedInv /\ [Next]_vars => [A]_vars
  <2> SUFFICES ASSUME SchedInv, Next, Switches PROVE A
    BY DEF vars
  <2>1. Ordered(st.curenv, st')
    BY StepSane DEF SchedInv, Switches
  <2> QED
    BY <2>1 DEF Ordered, Switches
<1> QED
  BY <1>1, SchedAlways, PTL DEF Spec, RoundRobin

-----------------------------------------------------------------------------
(* Identifiers name one environment for ever, as long as no slot has used up *)
(* its generations.                                                          *)

\* The next environment of any slot gets a larger identifier than the last one.
GenerationsLeft == \A e \in Slot : st.envs[e].env_id + GenStep < IdLimit

\* An identifier that was given out names one creation, and its slot has not gone back
\* behind it; whoever exists was given out; whoever has a parent was created by it.
HeldInv ==
  /\ \A h \in held : h[1] # 0 /\ h[1] <= st.envs[h[1] % NENV].env_id
  /\ \A h, g \in held : h[1] = g[1] => h[2] = g[2]
  /\ \A e \in Slot : st.envs[e].env_id = 0 \/ st.envs[e].env_id % NENV = e
  /\ \A e \in Slot : st.envs[e].env_status # "FREE" =>
       /\ <<st.envs[e].env_id, birth[e]>> \in held
       /\ st.envs[e].env_parent_id = 0 \/ <<st.envs[e].env_parent_id, creator[e]>> \in held

\* The identifiers that env_alloc gives out grow.
LEMMA FreshId ==
  ASSUME NEW e \in Slot, st \in Kernel, GenerationsLeft,
         st.envs[e].env_id = 0 \/ st.envs[e].env_id % NENV = e
  PROVE  /\ NextId(st, e) \in EnvId \ {0} /\ NextId(st, e) % NENV = e
         /\ st.envs[e].env_id < NextId(st, e) /\ NextId(st, e) <= st.envs[e].env_id + GenStep + e
         /\ st.envs[e].env_id # 0 => NextId(st, e) = st.envs[e].env_id + GenStep
<1> DEFINE x == st.envs[e].env_id
           n == NextId(st, e)
<1>1. x \in EnvId /\ e \in Nat /\ GenStep \in Nat \ {0}
  BY IdAssumption, TableAssumption DEF Kernel, EnvRec, Slot
<1>2. /\ n \in EnvId /\ n # 0 /\ n % NENV = e
      /\ x = 0 => n = GenStep + e
      /\ x % NENV = e /\ x + GenStep < IdLimit => n = x + GenStep
  BY <1>1, NewId
<1>3. (x = 0 \/ x % NENV = e) /\ x + GenStep < IdLimit
  BY DEF GenerationsLeft
<1> HIDE DEF x, n
<1>4. x \in Nat /\ (x # 0 => n = x + GenStep) /\ x < n /\ n <= x + GenStep + e
  BY <1>1, <1>2, <1>3 DEF EnvId
<1> QED
  BY <1>2, <1>4 DEF x, n

\* The first environment was given out.
LEMMA HeldInit == Init => HeldInv
<1> SUFFICES ASSUME Init PROVE HeldInv
  OBVIOUS
<1>1. /\ Sane(st) /\ Settled(st) /\ st.envs[0].env_status = "RUNNING"
      /\ st.envs[0].env_id = GenStep /\ st.envs[0].env_parent_id = 0
      /\ \A f \in Slot \ {0} : st.envs[f] = [env_status |-> "FREE", env_id |-> 0, env_parent_id |-> 0]
  BY InitSane
<1>2. GenStep \in Nat \ {0} /\ GenStep % NENV = 0 /\ 0 \in Slot
  BY IdAssumption, TableAssumption DEF Slot
<1>3. held = {<<GenStep, 1>>} /\ birth[0] = 1
  BY <1>1, <1>2 DEF Init
<1>4. \A f \in Slot \ {0} : st.envs[f].env_status = "FREE" /\ st.envs[f].env_id = 0
  BY <1>1
<1>5. \A h \in held : h[1] # 0 /\ h[1] <= st.envs[h[1] % NENV].env_id
  <2> SUFFICES ASSUME NEW h \in held PROVE h[1] # 0 /\ h[1] <= st.envs[h[1] % NENV].env_id
    OBVIOUS
  <2>1. h[1] = GenStep
    BY <1>3
  <2>2. h[1] % NENV = 0
    BY <1>2, <2>1
  <2>3. st.envs[h[1] % NENV].env_id = h[1]
    BY <1>1, <2>1, <2>2
  <2> QED
    BY <1>2, <2>1, <2>3
<1>6. \A h, g \in held : h[1] = g[1] => h[2] = g[2]
  BY <1>3
<1>7. \A e \in Slot : st.envs[e].env_id = 0 \/ st.envs[e].env_id % NENV = e
  BY <1>1, <1>2, <1>4
<1>8. ASSUME NEW e \in Slot, st.envs[e].env_status # "FREE"
      PROVE  /\ <<st.envs[e].env_id, birth[e]>> \in held
             /\ st.envs[e].env_parent_id = 0 \/ <<st.envs[e].env_parent_id, creator[e]>> \in held
  <2>1. e = 0
    BY <1>4, <1>8
  <2> QED
    BY <1>1, <1>3, <2>1
<1> QED
  BY <1>5, <1>6, <1>7, <1>8 DEF HeldInv

\* sys_exofork gives out an identifier that nobody holds.
LEMMA HeldFork ==
  ASSUME SchedInv, HeldInv, GenerationsLeft, st.mode = "user", NEW e \in Slot, Forked(e)
  PROVE  HeldInv'
<1> DEFINE c == st.curenv
           x == st.envs[e].env_id
           n == NextId(st, e)
           b == births + 1
           id(f) == st.envs[f].env_id
           id2(f) == st'.envs[f].env_id
<1>1. st \in Kernel /\ c \in Slot /\ st.envs[c].env_status # "FREE" /\ births \in Nat
      /\ birth \in [Slot -> 0 .. MaxBirths] /\ creator \in [Slot -> 0 .. MaxBirths]
      /\ held \subseteq EnvId \X (1 .. MaxBirths) /\ NoEnv \notin Slot
  BY BirthsAssumption DEF SchedInv, Settled, TypeOK, Slot, NoEnv
<1>2. /\ n \in EnvId \ {0} /\ n % NENV = e
      /\ x < n /\ n <= x + GenStep + e
      /\ x # 0 => n = x + GenStep
  BY <1>1, FreshId DEF HeldInv
<1>3. /\ st.envs[e].env_status = "FREE" /\ id2(e) = n /\ st'.envs[e].env_parent_id = id(c)
      /\ \A f \in Slot \ {e} :
           /\ st'.envs[f].env_id = st.envs[f].env_id
           /\ st'.envs[f].env_parent_id = st.envs[f].env_parent_id
           /\ st'.envs[f].env_status # "FREE" => st.envs[f].env_status # "FREE"
  BY DEF Forked
<1>4. /\ birth' = [birth EXCEPT ![e] = b] /\ creator' = [creator EXCEPT ![e] = birth[c]]
      /\ held' = held \cup {<<n, b>>}
  BY <1>1, <1>3 DEF Forked, Birth
<1>5. \A h \in held : h[1] # 0 /\ h[1] \in Nat /\ h[1] % NENV \in Slot /\ h[1] <= id(h[1] % NENV)
  <2> SUFFICES ASSUME NEW h \in held
               PROVE  h[1] # 0 /\ h[1] \in Nat /\ h[1] % NENV \in Slot /\ h[1] <= id(h[1] % NENV)
    OBVIOUS
  <2>1. h[1] \in EnvId
    BY <1>1
  <2>2. h[1] \in Nat /\ h[1] % NENV \in Slot
    BY <2>1, TableAssumption DEF EnvId, Slot
  <2> QED
    BY <2>2 DEF HeldInv
<1>6. x \in Nat /\ n \in Nat
  BY <1>1, <1>2 DEF Kernel, EnvRec, EnvId
<1> HIDE DEF n, b
<1>7. ASSUME NEW h \in held PROVE h[1] # n
  BY <1>2, <1>5, <1>6
<1>8. ASSUME NEW h \in held' PROVE h[1] # 0 /\ h[1] <= id2(h[1] % NENV)
  <2>1. CASE h = <<n, b>>
    BY <1>2, <1>3, <1>6, <2>1
  <2>2. CASE h \in held
    <3>1. CASE h[1] % NENV = e
      BY <1>2, <1>3, <1>5, <1>6, <2>2, <3>1
    <3>2. CASE h[1] % NENV # e
      BY <1>3, <1>5, <2>2, <3>2
    <3> QED
      BY <3>1, <3>2
  <2> QED
    BY <1>4, <2>1, <2>2
<1>9. ASSUME NEW h \in held', NEW g \in held', h[1] = g[1] PROVE h[2] = g[2]
  <2>1. \A f \in held' : f = <<n, b>> \/ f \in held
    BY <1>4
  <2>2. <<n, b>>[1] = n
    OBVIOUS
  <2>3. h \in held /\ g \in held => h[2] = g[2]
    BY <1>9 DEF HeldInv
  <2> QED
    BY <1>7, <1>9, <2>1, <2>2, <2>3
<1>10. \A f \in Slot : id2(f) = 0 \/ id2(f) % NENV = f
  BY <1>2, <1>3 DEF HeldInv
<1>11. ASSUME NEW f \in Slot, st'.envs[f].env_status # "FREE"
       PROVE  /\ <<id2(f), birth'[f]>> \in held'
              /\ st'.envs[f].env_parent_id = 0 \/ <<st'.envs[f].env_parent_id, creator'[f]>> \in held'
  <2>1. CASE f = e
    <3>1. birth'[f] = b /\ creator'[f] = birth[c]
      BY <1>1, <1>4, <2>1
    <3>2. <<id(c), birth[c]>> \in held
      BY <1>1 DEF HeldInv
    <3> QED
      BY <1>3, <1>4, <2>1, <3>1, <3>2
  <2>2. CASE f # e
    <3>1. birth'[f] = birth[f] /\ creator'[f] = creator[f]
      BY <1>1, <1>4, <2>2
    <3>2. st.envs[f].env_status # "FREE"
      BY <1>3, <1>11, <2>2
    <3>3. /\ <<id(f), birth[f]>> \in held
          /\ st.envs[f].env_parent_id = 0 \/ <<st.envs[f].env_parent_id, creator[f]>> \in held
      BY <3>2 DEF HeldInv
    <3> QED
      BY <1>3, <1>4, <2>2, <3>1, <3>3
  <2> QED
    BY <2>1, <2>2
<1> QED
  BY <1>8, <1>9, <1>10, <1>11 DEF HeldInv

\* Every step keeps HeldInv while the generations last.
LEMMA HeldNext == SchedInv /\ HeldInv /\ GenerationsLeft /\ [Next]_vars => HeldInv'
<1> SUFFICES ASSUME SchedInv, HeldInv, GenerationsLeft, [Next]_vars PROVE HeldInv'
  OBVIOUS
<1>1. ASSUME IdsKept(st, st'), NoBirth PROVE HeldInv'
  <2>1. birth' = birth /\ creator' = creator /\ held' = held
    BY <1>1 DEF NoBirth
  <2>2. \A h \in held : h[1] % NENV \in Slot
    <3> SUFFICES ASSUME NEW h \in held PROVE h[1] % NENV \in Slot
      OBVIOUS
    <3>1. h[1] \in EnvId
      BY DEF SchedInv, TypeOK
    <3> QED
      BY <3>1, TableAssumption DEF EnvId, Slot
  <2>3. \A e \in Slot :
          /\ st'.envs[e].env_id = st.envs[e].env_id
          /\ st'.envs[e].env_parent_id = st.envs[e].env_parent_id
          /\ st'.envs[e].env_status # "FREE" => st.envs[e].env_status # "FREE"
    BY <1>1 DEF IdsKept
  <2> QED
    BY <2>1, <2>2, <2>3 DEF HeldInv
<1>2. CASE UNCHANGED vars
  BY <1>1, <1>2 DEF vars, IdsKept, NoBirth
<1>3. CASE Next
  <2>1. \/ IdsKept(st, st') /\ NoBirth
        \/ st.mode = "user" /\ Forked(Head(st.env_free_list))
    BY <1>3, StepSane DEF SchedInv
  <2>2. Forked(Head(st.env_free_list)) => Head(st.env_free_list) \in Slot
    BY DEF Forked
  <2> QED
    BY <1>1, <2>1, <2>2, HeldFork
<1> QED
  BY <1>2, <1>3

\* The identifiers invariant holds while the generations last.
LEMMA HeldAlways == Spec /\ []GenerationsLeft => []HeldInv
BY HeldInit, HeldNext, SchedAlways, PTL DEF Spec

\* An envid kept after its environment is gone is refused by envid2env, also when its
\* slot has been reused, for every number of slots and of creations: unless the
\* generations of a slot have wrapped around.
THEOREM EnvidNamesOneForEver == Spec /\ []GenerationsLeft => []StaleIdRefused
<1>1. SchedInv /\ HeldInv => StaleIdRefused
  <2> SUFFICES ASSUME SchedInv, HeldInv, NEW h \in held, envid2env(st, h[1], FALSE) # NoEnv
               PROVE  birth[envid2env(st, h[1], FALSE)] = h[2]
    BY DEF StaleIdRefused
  <2> DEFINE e == h[1] % NENV
  <2>1. h[1] # 0 /\ h \in EnvId \X (1 .. MaxBirths)
    BY DEF HeldInv, SchedInv, TypeOK
  <2>2. e \in Slot
    BY <2>1, TableAssumption DEF EnvId, Slot
  <2>3. envid2env(st, h[1], FALSE) = e /\ st.envs[e].env_status # "FREE" /\ st.envs[e].env_id = h[1]
    BY <2>1 DEF envid2env
  <2> HIDE DEF e
  <2>4. <<h[1], birth[e]>> \in held
    BY <2>2, <2>3 DEF HeldInv
  <2>5. birth[e] = h[2]
    <3> DEFINE g == <<h[1], birth[e]>>
    <3>1. g[1] = h[1] /\ g[2] = birth[e] /\ g \in held
      BY <2>4
    <3> HIDE DEF g
    <3> QED
      BY <3>1 DEF HeldInv
  <2> QED
    BY <2>3, <2>5
<1> QED
  BY <1>1, SchedAlways, HeldAlways, PTL

\* envid2env lets an environment control only itself and the environments it created,
\* never one created by an earlier occupant of its slot.
THEOREM OnlyTheCreatorControls == Spec /\ []GenerationsLeft => []ParentIsCreator
<1>1. SchedInv /\ HeldInv => ParentIsCreator
  <2> SUFFICES ASSUME SchedInv, HeldInv, st.mode = "user", NEW envid \in EnvId,
                      envid2env(st, envid, TRUE) \in Slot \ {st.curenv}
               PROVE  creator[envid2env(st, envid, TRUE)] = birth[st.curenv]
    BY DEF ParentIsCreator
  <2> DEFINE e == envid2env(st, envid, TRUE)
             c == st.curenv
             p == st.envs[e].env_parent_id
  <2>1. c \in Slot /\ st.envs[c].env_status # "FREE" /\ NoEnv \notin Slot
    BY DEF SchedInv, Settled, Slot, NoEnv
  <2>2. e = envid % NENV /\ e \in Slot /\ e # c /\ st.envs[e].env_status # "FREE"
        /\ p = st.envs[c].env_id
    BY <2>1 DEF envid2env
  <2> HIDE DEF e, c
  <2> DEFINE g == <<st.envs[c].env_id, birth[c]>>
             h == <<p, creator[e]>>
  <2>3. g \in held /\ g[1] = st.envs[c].env_id /\ g[2] = birth[c]
    BY <2>1 DEF HeldInv
  <2>4. g[1] # 0
    BY <2>3 DEF HeldInv
  <2>5. h \in held /\ h[1] = g[1] /\ h[2] = creator[e]
    BY <2>2, <2>3, <2>4 DEF HeldInv
  <2> HIDE DEF g, h
  <2>6. h[2] = g[2]
    BY <2>3, <2>5 DEF HeldInv
  <2> QED
    BY <2>3, <2>5, <2>6 DEF e, c
<1> QED
  BY <1>1, SchedAlways, HeldAlways, PTL

\* The identifier of slot e after births creations is at most births generations up.
BoundInv ==
  /\ births \in Nat \ {0}
  /\ \A e \in Slot : st.envs[e].env_id <= births * GenStep + e
  /\ \A e \in Slot : st.envs[e].env_id = 0 \/ st.envs[e].env_id % NENV = e

\* The hypothesis of the two theorems above is met by every behaviour that creates at
\* most MaxBirths environments, if that many generations fit (with 1024 slots, a
\* GenStep of 4096 and 31-bit identifiers: 524286 environments).
THEOREM GenerationsSuffice ==
  ASSUME (MaxBirths + 1) * GenStep + NENV <= IdLimit
  PROVE  Spec => []GenerationsLeft
<1> USE TableAssumption, IdAssumption, BirthsAssumption
<1>1. SchedInv /\ BoundInv => GenerationsLeft
  <2> SUFFICES ASSUME SchedInv, BoundInv, NEW e \in Slot
               PROVE  st.envs[e].env_id + GenStep < IdLimit
    BY DEF GenerationsLeft
  <2> DEFINE x == st.envs[e].env_id
             p == births * GenStep
             q == MaxBirths * GenStep
  <2>1. x <= p + e /\ births \in Nat /\ births <= MaxBirths /\ x \in Nat /\ e \in 0 .. NENV - 1
    <3>1. st \in Kernel /\ births \in 0 .. MaxBirths
      BY DEF SchedInv, TypeOK
    <3>2. x \in EnvId
      BY <3>1 DEF Kernel, EnvRec
    <3>3. x <= p + e
      BY DEF BoundInv
    <3> QED
      BY <3>1, <3>2, <3>3 DEF EnvId, Slot
  <2>2. p \in Nat /\ q \in Nat /\ p <= q
    BY <2>1
  <2>3. (MaxBirths + 1) * GenStep = q + GenStep
    OBVIOUS
  <2> HIDE DEF x, p, q
  <2>4. x + GenStep < IdLimit
    BY <2>1, <2>2, <2>3
  <2> QED
    BY <2>4 DEF x
<1>2. Init => BoundInv
  <2> SUFFICES ASSUME Init PROVE BoundInv
    OBVIOUS
  <2>1. /\ Sane(st) /\ Settled(st) /\ st.envs[0].env_status = "RUNNING"
        /\ st.envs[0].env_id = GenStep /\ st.envs[0].env_parent_id = 0
        /\ \A f \in Slot \ {0} : st.envs[f] = [env_status |-> "FREE", env_id |-> 0, env_parent_id |-> 0]
    BY InitSane
  <2>2. births = 1 /\ 1 * GenStep = GenStep
    BY DEF Init
  <2>3. \A f \in Slot : f \in Nat
    BY DEF Slot
  <2>4. \A f \in Slot \ {0} : st.envs[f].env_id = 0
    BY <2>1
  <2> QED
    BY <2>1, <2>2, <2>3, <2>4 DEF BoundInv
<1>3. SchedInv /\ BoundInv /\ [Next]_vars => BoundInv'
  <2> SUFFICES ASSUME SchedInv, BoundInv, [Next]_vars PROVE BoundInv'
    OBVIOUS
  <2>1. ASSUME IdsKept(st, st'), NoBirth PROVE BoundInv'
    BY <2>1 DEF BoundInv, IdsKept, NoBirth
  <2>2. CASE UNCHANGED vars
    BY <2>1, <2>2 DEF vars, IdsKept, NoBirth
  <2>3. ASSUME NEW e \in Slot, Forked(e) PROVE BoundInv'
    <3> DEFINE x == st.envs[e].env_id
               n == NextId(st, e)
               p == births * GenStep
    <3>1. GenerationsLeft /\ st \in Kernel
      BY <1>1 DEF SchedInv, Sane
    <3>2. /\ n \in EnvId \ {0} /\ n % NENV = e
          /\ x < n /\ n <= x + GenStep + e
          /\ x # 0 => n = x + GenStep
      BY <3>1, FreshId DEF BoundInv
    <3>3. births' = births + 1 /\ births \in Nat /\ st'.envs[e].env_id = n
          /\ \A f \in Slot \ {e} : st'.envs[f].env_id = st.envs[f].env_id
      BY <2>3 DEF Forked, Birth, BoundInv
    <3>4. (births + 1) * GenStep = p + GenStep /\ p \in Nat
      BY <3>3
    <3>5. \A f \in Slot : f \in Nat /\ st.envs[f].env_id \in Nat /\ st.envs[f].env_id <= p + f
      BY <3>1 DEF BoundInv, Kernel, EnvRec, EnvId, Slot
    <3> HIDE DEF n, p
    <3>6. n <= p + GenStep + e
      BY <3>2, <3>4, <3>5 DEF EnvId
    <3>7. ASSUME NEW f \in Slot PROVE st'.envs[f].env_id <= births' * GenStep + f
      BY <3>3, <3>4, <3>5, <3>6
    <3>8. \A f \in Slot : st'.envs[f].env_id = 0 \/ st'.envs[f].env_id % NENV = f
      BY <3>2, <3>3 DEF BoundInv
    <3> QED
      BY <3>3, <3>7, <3>8 DEF BoundInv
  <2>4. CASE Next
    <3>1. \/ IdsKept(st, st') /\ NoBirth
          \/ st.mode = "user" /\ Forked(Head(st.env_free_list))
      BY <2>4, StepSane DEF SchedInv
    <3>2. Forked(Head(st.env_free_list)) => Head(st.env_free_list) \in Slot
      BY DEF Forked
    <3> QED
      BY <2>1, <2>3, <3>1, <3>2
  <2> QED
    BY <2>2, <2>4
<1> QED
  BY <1>1, <1>2, <1>3, SchedAlways, PTL DEF Spec

-----------------------------------------------------------------------------
(* Messages.                                                                 *)

\* The inductive invariant: the scheduler's, the types of the message fields, and who
\* is blocked.
IpcInv == SchedInv /\ IpcTypeOK /\ NoLostWakeup

\* What a step of the kernel leaves of the environments' statuses and of the table.
TrapOK == Sane(st') /\ Settled(st') /\ NoBirth /\ UNCHANGED inService

\* A trap that creates nobody keeps the scheduler's invariant.
LEMMA TrapKeeps ==
  ASSUME SchedInv, TrapOK
  PROVE  SchedInv'
<1>1. st' \in Kernel /\ st'.mode \in {"user", "monitor"} /\ (st'.mode = "user" => st'.curenv # NoEnv)
  BY DEF TrapOK, Sane, Settled, Slot, NoEnv
<1>2. TypeOK'
  BY <1>1 DEF SchedInv, TypeOK, TrapOK, NoBirth
<1> QED
  BY <1>2 DEF SchedInv, TrapOK

\* sys_ipc_recv blocks the caller; nobody else's status changes but between running and
\* runnable.
LEMMA RecvStep ==
  ASSUME SchedInv, NEW va \in Addr, sys_ipc_recv(va)
  PROVE  /\ TrapOK /\ st.curenv \in Slot
         /\ \A e \in Slot \ {st.curenv} :
              st'.envs[e].env_status = "NOT_RUNNABLE" => st.envs[e].env_status = "NOT_RUNNABLE"
<1> DEFINE i == Enter(st)
           c == st.curenv
           b == SetStatus(i, c, "NOT_RUNNABLE")
<1>1. st.mode = "user" /\ Sane(st) /\ Settled(st) /\ NoBirth /\ UNCHANGED inService
  BY DEF SchedInv, sys_ipc_recv, trap
<1>2. /\ TrapEntry(st) = i /\ Sane(i) /\ i.mode = "kernel"
      /\ i.envs = st.envs /\ i.env_free_list = st.env_free_list
      /\ i.curenv = c /\ c \in Slot /\ st.envs[c].env_status = "RUNNING"
  BY <1>1, EnterSane
<1> HIDE DEF i
<1>3. st' = TrapExit(sched_yield(b))
  BY <1>1, <1>2 DEF sys_ipc_recv, trap
<1> HIDE DEF c
<1>4. i.envs[c].env_status # "FREE"
  BY <1>2
<1>5. /\ Sane(b) /\ b.curenv = i.curenv /\ b.mode = i.mode
      /\ \A f \in Slot :
           /\ b.envs[f].env_id = i.envs[f].env_id
           /\ b.envs[f].env_parent_id = i.envs[f].env_parent_id
           /\ b.envs[f].env_status = IF f = c THEN "NOT_RUNNABLE" ELSE i.envs[f].env_status
  BY <1>2, <1>4, StatusSane
<1> HIDE DEF b
<1> DEFINE q == sched_yield(b)
<1>6. b.curenv \in Slot /\ b.curenv = st.curenv
  BY <1>2, <1>5 DEF c
<1>7. Outcome(b.curenv, sched_yield(b)) /\ Moves(b, sched_yield(b))
  BY <1>5, <1>6, YieldOutcome
<1>8. st' = TrapExit(q) /\ Outcome(st.curenv, q) /\ Moves(b, q)
  BY <1>3, <1>6, <1>7
<1> HIDE DEF q
<1>9. Sane(st') /\ Settled(st') /\ Ordered(st.curenv, st') /\ Moves(q, st')
  BY <1>1, <1>8, TrapStep
<1>10. ASSUME NEW e \in Slot \ {c}, st'.envs[e].env_status = "NOT_RUNNABLE"
       PROVE  st.envs[e].env_status = "NOT_RUNNABLE"
  <2>1. q.envs[e].env_status = "NOT_RUNNABLE"
    BY <1>9, <1>10 DEF Moves
  <2>2. b.envs[e].env_status = "NOT_RUNNABLE"
    BY <1>8, <2>1 DEF Moves
  <2> QED
    BY <1>2, <1>5, <2>2
<1> QED
  BY <1>1, <1>2, <1>9, <1>10 DEF TrapOK, c

\* sys_ipc_try_send makes the receiver runnable and blocks nobody.
LEMMA SendStep ==
  ASSUME SchedInv, NEW envid \in EnvId, NEW value \in Value, NEW srcva \in Addr,
         sys_ipc_try_send(envid, value, srcva)
  PROVE  LET d == Receiver(envid, srcva)
         IN  /\ TrapOK /\ d \in Slot /\ ipc[d].env_ipc_from = 0
             /\ st.curenv \in Slot
             /\ st'.envs[d].env_status # "NOT_RUNNABLE"
             /\ \A e \in Slot \ {d} :
                  st'.envs[e].env_status = "NOT_RUNNABLE" => st.envs[e].env_status = "NOT_RUNNABLE"
<1> DEFINE i == Enter(st)
           c == st.curenv
           d == Receiver(envid, srcva)
           b == SetStatus(i, d, "RUNNABLE")
<1>1. st.mode = "user" /\ Sane(st) /\ Settled(st) /\ NoBirth /\ UNCHANGED inService /\ d # NoEnv
  BY DEF SchedInv, sys_ipc_try_send
<1>2. /\ TrapEntry(st) = i /\ Sane(i) /\ i.mode = "kernel"
      /\ i.envs = st.envs /\ i.env_free_list = st.env_free_list
      /\ i.curenv = c /\ c \in Slot /\ st.envs[c].env_status = "RUNNING"
  BY <1>1, EnterSane
<1> HIDE DEF i
<1>3. st' = TrapExit(b)
  BY <1>1, <1>2 DEF sys_ipc_try_send, trap, Wake
<1>4. d = envid2env(st, envid, FALSE) /\ ipc[d].env_ipc_from = 0
  BY <1>1 DEF Receiver
<1> HIDE DEF d
<1>5. d \in Slot /\ st.envs[d].env_status # "FREE"
  BY <1>1, <1>2, <1>4, FoundExists
<1> HIDE DEF c
<1>6. i.envs[d].env_status # "FREE"
  BY <1>2, <1>5
<1>7. /\ Sane(b) /\ b.curenv = i.curenv /\ b.mode = i.mode
      /\ \A f \in Slot :
           /\ b.envs[f].env_id = i.envs[f].env_id
           /\ b.envs[f].env_parent_id = i.envs[f].env_parent_id
           /\ b.envs[f].env_status = IF f = d THEN "RUNNABLE" ELSE i.envs[f].env_status
  BY <1>2, <1>5, <1>6, StatusSane
<1> HIDE DEF b
<1>8. Outcome(st.curenv, b)
  BY <1>2, <1>7 DEF Outcome, c
<1>9. Sane(st') /\ Settled(st') /\ Ordered(st.curenv, st') /\ Moves(b, st')
  BY <1>1, <1>3, <1>8, TrapStep
<1>10. \A e \in Slot : st'.envs[e].env_status = "NOT_RUNNABLE" => b.envs[e].env_status = "NOT_RUNNABLE"
  BY <1>9 DEF Moves
<1>11. st'.envs[d].env_status # "NOT_RUNNABLE"
  BY <1>5, <1>7, <1>10
<1>12. \A e \in Slot \ {d} :
         st'.envs[e].env_status = "NOT_RUNNABLE" => st.envs[e].env_status = "NOT_RUNNABLE"
  BY <1>2, <1>7, <1>10
<1> QED
  BY <1>1, <1>2, <1>4, <1>5, <1>9, <1>11, <1>12 DEF TrapOK, c, d

\* A step of the scheduler leaves the messages alone; whom it blocks it marks stopped.
LEMMA IpcSchedStep ==
  ASSUME IpcInv, SchedStep
  PROVE  IpcInv'
<1>1. SchedInv'
  BY SchedInvNext DEF IpcInv, SchedStep
<1>2. ipc \in [Slot -> IpcRec] /\ map \in [Slot -> SUBSET Addr] /\ stopped \in [Slot -> BOOLEAN]
  BY DEF IpcInv, IpcTypeOK
<1>3. \A e \in Slot : /\ [ipc[e] EXCEPT !.env_ipc_recving = FALSE] \in IpcRec
                      /\ [ipc[e] EXCEPT !.env_ipc_recving = FALSE].env_ipc_from = ipc[e].env_ipc_from
  <2> SUFFICES ASSUME NEW r \in IpcRec
               PROVE  /\ [r EXCEPT !.env_ipc_recving = FALSE] \in IpcRec
                      /\ [r EXCEPT !.env_ipc_recving = FALSE].env_ipc_from = r.env_ipc_from
    BY <1>2
  <2> QED
    BY DEF IpcRec
<1>4. ipc' \in [Slot -> IpcRec]
  BY <1>2, <1>3 DEF SchedStep
<1>5. map' \in [Slot -> SUBSET Addr]
  <2>1. {UTOP - 1} \in SUBSET Addr
    BY AddressAssumption DEF Addr
  <2> QED
    BY <1>2, <2>1 DEF SchedStep
<1>6. stopped' = [e \in Slot |->
         /\ st'.envs[e].env_status = "NOT_RUNNABLE"
         /\ stopped[e] \/ Created(e) \/ st.envs[e].env_status # "NOT_RUNNABLE"]
  BY DEF SchedStep
<1>7. stopped' \in [Slot -> BOOLEAN]
  <2>1. \A e \in Slot : (/\ st'.envs[e].env_status = "NOT_RUNNABLE"
                         /\ stopped[e] \/ Created(e) \/ st.envs[e].env_status # "NOT_RUNNABLE") \in BOOLEAN
    OBVIOUS
  <2> QED
    BY <1>6, <2>1, Zenon
<1>8. ASSUME NEW e \in Slot, st'.envs[e].env_status = "NOT_RUNNABLE", ~stopped'[e]
      PROVE  ipc'[e].env_ipc_recving /\ ipc'[e].env_ipc_from = 0
  <2>1. ~stopped[e] /\ ~Created(e) /\ st.envs[e].env_status = "NOT_RUNNABLE"
    BY <1>6, <1>8
  <2>2. ipc'[e] = ipc[e]
    BY <2>1 DEF SchedStep
  <2> QED
    BY <2>1, <2>2 DEF IpcInv, NoLostWakeup, Exists
<1>9. TypeOK'
  BY <1>1 DEF SchedInv
<1>10. IpcTypeOK'
  BY <1>4, <1>5, <1>7, <1>9 DEF IpcTypeOK
<1>11. NoLostWakeup'
  BY <1>8 DEF NoLostWakeup
<1> QED
  BY <1>1, <1>10, <1>11 DEF IpcInv

\* sys_ipc_recv: the caller waits, with no message yet.
LEMMA IpcRecvStep ==
  ASSUME IpcInv, NEW va \in Addr, sys_ipc_recv(va)
  PROVE  IpcInv' /\ \A e \in Slot : ipc'[e].env_ipc_from # 0 => ipc'[e] = ipc[e]
<1> DEFINE c == st.curenv
           r == [[[ipc[c] EXCEPT !.env_ipc_dstva = va] EXCEPT !.env_ipc_recving = TRUE]
                   EXCEPT !.env_ipc_from = 0]
<1>1. /\ TrapOK /\ c \in Slot
      /\ \A e \in Slot \ {c} :
           st'.envs[e].env_status = "NOT_RUNNABLE" => st.envs[e].env_status = "NOT_RUNNABLE"
  BY RecvStep DEF IpcInv
<1>2. SchedInv'
  BY <1>1, TrapKeeps DEF IpcInv
<1>3. ipc \in [Slot -> IpcRec] /\ map \in [Slot -> SUBSET Addr] /\ stopped \in [Slot -> BOOLEAN]
  BY DEF IpcInv, IpcTypeOK
<1>4. 0 \in EnvId
  BY IdAssumption, TableAssumption DEF EnvId
<1>5. r \in IpcRec /\ r.env_ipc_recving = TRUE /\ r.env_ipc_from = 0
  <2>1. ipc[c] \in IpcRec
    BY <1>1, <1>3
  <2> QED
    BY <1>4, <2>1 DEF IpcRec
<1>6. /\ ipc' = [ipc EXCEPT ![c].env_ipc_dstva = va, ![c].env_ipc_recving = TRUE,
                            ![c].env_ipc_from = 0]
      /\ stopped' = [stopped EXCEPT ![c] = FALSE] /\ map' = map
  BY DEF sys_ipc_recv
<1> HIDE DEF c
<1>7. ipc' = [ipc EXCEPT ![c] = r]
  BY <1>1, <1>3, <1>6
<1> HIDE DEF r
<1>8. ipc' \in [Slot -> IpcRec] /\ stopped' \in [Slot -> BOOLEAN] /\ map' \in [Slot -> SUBSET Addr]
  BY <1>3, <1>5, <1>6, <1>7
<1>9. \A e \in Slot : ipc'[e] = IF e = c THEN r ELSE ipc[e]
  BY <1>1, <1>3, <1>7
<1>10. ASSUME NEW e \in Slot, st'.envs[e].env_status = "NOT_RUNNABLE", ~stopped'[e]
       PROVE  ipc'[e].env_ipc_recving /\ ipc'[e].env_ipc_from = 0
  <2>1. CASE e = c
    BY <1>5, <1>9, <2>1
  <2>2. CASE e # c
    <3>1. ~stopped[e] /\ st.envs[e].env_status = "NOT_RUNNABLE"
      BY <1>1, <1>3, <1>6, <1>10, <2>2
    <3> QED
      BY <1>9, <2>2, <3>1 DEF IpcInv, NoLostWakeup, Exists
  <2> QED
    BY <2>1, <2>2
<1>11. TypeOK'
  BY <1>2 DEF SchedInv
<1>12. IpcTypeOK'
  BY <1>8, <1>11 DEF IpcTypeOK
<1>13. NoLostWakeup'
  BY <1>10 DEF NoLostWakeup
<1>14. IpcInv'
  BY <1>2, <1>12, <1>13 DEF IpcInv
<1> QED
  BY <1>5, <1>9, <1>14

\* sys_ipc_try_send: the receiver, which had no message, has one and is runnable.
LEMMA IpcSendStep ==
  ASSUME IpcInv, NEW envid \in EnvId, NEW value \in Value, NEW srcva \in Addr,
         sys_ipc_try_send(envid, value, srcva)
  PROVE  IpcInv' /\ \A e \in Slot : ipc[e].env_ipc_from # 0 => ipc'[e] = ipc[e]
<1> DEFINE c == st.curenv
           d == Receiver(envid, srcva)
           page == srcva < UTOP /\ ipc[d].env_ipc_dstva # 0
           perm == IF page THEN TRUE ELSE ipc[d].env_ipc_perm
           id == st.envs[c].env_id
           va == ipc[d].env_ipc_dstva
           r == [[[[ipc[d] EXCEPT !.env_ipc_perm = perm] EXCEPT !.env_ipc_from = id]
                   EXCEPT !.env_ipc_value = value] EXCEPT !.env_ipc_recving = FALSE]
<1>1. /\ TrapOK /\ d \in Slot /\ ipc[d].env_ipc_from = 0
      /\ c \in Slot
      /\ st'.envs[d].env_status # "NOT_RUNNABLE"
      /\ \A e \in Slot \ {d} :
           st'.envs[e].env_status = "NOT_RUNNABLE" => st.envs[e].env_status = "NOT_RUNNABLE"
  BY SendStep DEF IpcInv
<1>2. SchedInv'
  BY <1>1, TrapKeeps DEF IpcInv
<1>3. ipc \in [Slot -> IpcRec] /\ map \in [Slot -> SUBSET Addr] /\ stopped \in [Slot -> BOOLEAN]
  BY DEF IpcInv, IpcTypeOK
<1>4. id \in EnvId
  BY <1>1 DEF IpcInv, SchedInv, TypeOK, Kernel, EnvRec
<1>5. /\ map' = IF page THEN [map EXCEPT ![d] = @ \cup {va}] ELSE map
      /\ ipc' = [ipc EXCEPT ![d].env_ipc_perm = IF page THEN TRUE ELSE @,
                            ![d].env_ipc_from = id,
                            ![d].env_ipc_value = value,
                            ![d].env_ipc_recving = FALSE]
      /\ stopped' = [stopped EXCEPT ![d] = FALSE]
  BY DEF sys_ipc_try_send
<1> HIDE DEF c, d, id, page
<1>6. ipc[d] \in IpcRec /\ va \in Addr /\ perm \in BOOLEAN
  BY <1>1, <1>3 DEF IpcRec
<1>7. r \in IpcRec
  BY <1>4, <1>6 DEF IpcRec
<1>8. ipc' = [ipc EXCEPT ![d] = r]
  BY <1>1, <1>3, <1>5
<1> HIDE DEF r, va
<1>9. ipc' \in [Slot -> IpcRec] /\ \A e \in Slot \ {d} : ipc'[e] = ipc[e]
  BY <1>1, <1>3, <1>7, <1>8
<1>10. stopped' \in [Slot -> BOOLEAN]
  BY <1>3, <1>5
<1>11. map' \in [Slot -> SUBSET Addr]
  <2>1. map[d] \cup {va} \in SUBSET Addr
    BY <1>1, <1>3, <1>6
  <2> QED
    BY <1>1, <1>3, <1>5, <2>1
<1>12. ASSUME NEW e \in Slot, st'.envs[e].env_status = "NOT_RUNNABLE", ~stopped'[e]
       PROVE  ipc'[e].env_ipc_recving /\ ipc'[e].env_ipc_from = 0
  <2>1. e # d
    BY <1>1, <1>12
  <2>2. ~stopped[e] /\ st.envs[e].env_status = "NOT_RUNNABLE"
    BY <1>1, <1>3, <1>5, <1>12, <2>1
  <2> QED
    BY <1>9, <2>1, <2>2 DEF IpcInv, NoLostWakeup, Exists
<1>13. TypeOK'
  BY <1>2 DEF SchedInv
<1>14. IpcTypeOK'
  BY <1>9, <1>10, <1>11, <1>13 DEF IpcTypeOK
<1>15. NoLostWakeup'
  BY <1>12 DEF NoLostWakeup
<1>16. IpcInv'
  BY <1>2, <1>14, <1>15 DEF IpcInv
<1> QED
  BY <1>1, <1>9, <1>16

\* IpcInv holds at the start, when nobody waits.
LEMMA IpcInvInit == IpcInit => IpcInv
<1> SUFFICES ASSUME IpcInit PROVE IpcInv
  OBVIOUS
<1>1. SchedInv
  BY SchedInvInit DEF IpcInit
<1> DEFINE r == [env_ipc_recving |-> FALSE, env_ipc_dstva |-> 0, env_ipc_value |-> 0,
                 env_ipc_from |-> 0, env_ipc_perm |-> FALSE]
<1>2. r \in IpcRec
  BY IdAssumption, TableAssumption, AddressAssumption DEF IpcRec, EnvId, Addr
<1>3. ipc = [e \in Slot |-> r]
  BY DEF IpcInit
<1> HIDE DEF r
<1>4. ipc \in [Slot -> IpcRec]
  BY <1>2, <1>3
<1>5. map \in [Slot -> SUBSET Addr]
  <2>1. {UTOP - 1} \in SUBSET Addr
    BY AddressAssumption DEF Addr
  <2> QED
    BY <2>1 DEF IpcInit
<1>6. stopped \in [Slot -> BOOLEAN]
  BY DEF IpcInit
<1>7. \A e \in Slot : st.envs[e].env_status # "NOT_RUNNABLE"
  <2>1. /\ Sane(st) /\ Settled(st) /\ st.envs[0].env_status = "RUNNING"
        /\ st.envs[0].env_id = GenStep /\ st.envs[0].env_parent_id = 0
        /\ \A f \in Slot \ {0} : st.envs[f] = [env_status |-> "FREE", env_id |-> 0, env_parent_id |-> 0]
    BY InitSane DEF IpcInit
  <2>2. \A f \in Slot \ {0} : st.envs[f].env_status = "FREE"
    BY <2>1
  <2> QED
    BY <2>1, <2>2
<1> QED
  BY <1>1, <1>4, <1>5, <1>6, <1>7 DEF IpcInv, IpcTypeOK, NoLostWakeup, SchedInv

\* Every step of IpcNext keeps IpcInv.
LEMMA IpcInvNext == IpcInv /\ [IpcNext]_allVars => IpcInv'
<1> SUFFICES ASSUME IpcInv, [IpcNext]_allVars PROVE IpcInv'
  OBVIOUS
<1>1. CASE UNCHANGED allVars
  <2>1. UNCHANGED vars /\ UNCHANGED ipcVars
    BY <1>1 DEF allVars
  <2>2. SchedInv'
    BY <2>1, SchedInvNext DEF IpcInv
  <2>3. TypeOK'
    BY <2>2 DEF SchedInv
  <2>4. IpcTypeOK' /\ NoLostWakeup'
    BY <2>1, <2>3 DEF IpcInv, IpcTypeOK, NoLostWakeup, Exists, ipcVars, vars
  <2> QED
    BY <2>2, <2>4 DEF IpcInv
<1>2. \A va \in Addr : (IF va # 0 THEN UTOP ELSE va) \in Addr
  BY AddressAssumption DEF Addr
<1>3. ASSUME NEW va \in Addr, sys_ipc_recv(va) \/ ipc_recv(va) PROVE IpcInv'
  BY <1>2, <1>3, IpcRecvStep DEF ipc_recv
<1> QED
  BY <1>1, <1>3, IpcSchedStep, IpcSendStep DEF IpcNext

\* The inductive invariant of the messages holds in every reachable state.
LEMMA IpcAlways == IpcSpec => []IpcInv
BY IpcInvInit, IpcInvNext, PTL DEF IpcSpec

\* No wakeup is lost: an environment that is blocked, and that nobody stopped, waits for
\* a message that has not come (sys_ipc_recv, sys_ipc_try_send).
THEOREM WakeupsArrive == IpcSpec => []NoLostWakeup
<1>1. IpcInv => NoLostWakeup
  BY DEF IpcInv
<1> QED
  BY <1>1, IpcAlways, PTL

\* The message calls keep what the scheduler promises: one environment runs, the free
\* list is exact, and the monitor is entered only when nobody is runnable.
THEOREM MessagesKeepScheduler == IpcSpec => [](OneRunning /\ EnvListExact /\ NoneRunnableLeft)
<1>1. IpcInv => OneRunning /\ EnvListExact /\ NoneRunnableLeft
  BY InvOneRunning, InvListExact, InvNoneRunnable DEF IpcInv
<1> QED
  BY <1>1, IpcAlways, PTL

\* An accepted message is not overwritten until its receiver calls sys_ipc_recv again.
THEOREM MessagesAcceptedOnce == IpcSpec => AcceptedOnce
<1> DEFINE A == \A e \in Slot :
                  ipc[e].env_ipc_from # 0 /\ ipc'[e].env_ipc_from # 0 =>
                    ipc'[e].env_ipc_from = ipc[e].env_ipc_from /\ ipc'[e].env_ipc_value = ipc[e].env_ipc_value
<1>1. IpcInv /\ [IpcNext]_allVars => [A]_allVars
  <2> SUFFICES ASSUME IpcInv, IpcNext PROVE A
    OBVIOUS
  <2>1. CASE SchedStep
    <3>1. \A e \in Slot : ipc'[e] \in {ipc[e], [ipc[e] EXCEPT !.env_ipc_recving = FALSE]}
      BY <2>1 DEF SchedStep
    <3>2. \A e \in Slot : ipc[e] \in IpcRec
      BY DEF IpcInv, IpcTypeOK
    <3> QED
      BY <3>1, <3>2 DEF IpcRec
  <2>2. \A va \in Addr : (IF va # 0 THEN UTOP ELSE va) \in Addr
    BY AddressAssumption DEF Addr
  <2>3. ASSUME NEW va \in Addr, sys_ipc_recv(va) \/ ipc_recv(va) PROVE A
    BY <2>2, <2>3, IpcRecvStep DEF ipc_recv
  <2>4. ASSUME NEW envid \in EnvId, NEW value \in Value, NEW srcva \in Addr,
               sys_ipc_try_send(envid, value, srcva)
        PROVE  A
    BY <2>4, IpcSendStep
  <2> HIDE DEF A
  <2> QED
    BY <2>1, <2>3, <2>4 DEF IpcNext
<1> QED
  BY <1>1, IpcAlways, PTL DEF IpcSpec, AcceptedOnce
=============================================================================
