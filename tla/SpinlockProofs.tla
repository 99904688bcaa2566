--------------------------- MODULE SpinlockProofs ---------------------------
(***************************************************************************)
(* Mutual exclusion and the absence of false panics, for any set of CPUs.  *)
(***************************************************************************)
EXTENDS Spinlock, TLAPS

\* The inductive invariant: the word locked says whether somebody owns the lock,
\* and the word cpu names the owner exactly while the owner stands between its
\* Record and its Clear.  The first gives Mutex, the second NoFalsePanic.
LockInv ==
  /\ TypeOK
  /\ Mutex
  /\ NoFalsePanic
  /\ \A c \in Cpu : pc[c] \in Owning => locked = 1
  /\ \A c \in Cpu : cpu = c <=> pc[c] \in Recorded

\* LockInv holds of a lock that __spin_initlock has set up.
LEMMA InitLockInv == Init => LockInv
BY CpuAssumption DEF Init, LockInv, TypeOK, Mutex, NoFalsePanic, Owning, Recorded

\* Every access to the lock's words preserves LockInv.
LEMMA NextLockInv == LockInv /\ [Next]_vars => LockInv'
<1> SUFFICES ASSUME LockInv, [Next]_vars PROVE LockInv'
  OBVIOUS
<1> USE CpuAssumption DEF LockInv, TypeOK, Mutex, NoFalsePanic, Owning, Recorded, Goto
<1>1. ASSUME NEW c \in Cpu, LockCheckLocked(c) PROVE LockInv'
  BY <1>1 DEF LockCheckLocked
<1>2. ASSUME NEW c \in Cpu, LockCheckCpu(c) PROVE LockInv'
  BY <1>2 DEF LockCheckCpu
<1>3. ASSUME NEW c \in Cpu, Xchg(c) PROVE LockInv'
  BY <1>3 DEF Xchg
<1>4. ASSUME NEW c \in Cpu, Record(c) PROVE LockInv'
  BY <1>4 DEF Record
<1>5. ASSUME NEW c \in Cpu, UnlockCheckLocked(c) PROVE LockInv'
  BY <1>5 DEF UnlockCheckLocked
<1>6. ASSUME NEW c \in Cpu, UnlockCheckCpu(c) PROVE LockInv'
  BY <1>6 DEF UnlockCheckCpu
<1>7. ASSUME NEW c \in Cpu, Clear(c) PROVE LockInv'
  BY <1>7 DEF Clear
<1>8. ASSUME NEW c \in Cpu, Release(c) PROVE LockInv'
  BY <1>8 DEF Release
<1>9. CASE UNCHANGED vars
  BY <1>9 DEF vars
<1> QED
  BY <1>1, <1>2, <1>3, <1>4, <1>5, <1>6, <1>7, <1>8, <1>9 DEF Next, spin_lock, spin_unlock

\* However many CPUs contend and however their steps interleave, at most one owns
\* the big kernel lock.
THEOREM SpinlockMutex == Spec => []Mutex
<1>1. LockInv => Mutex
  BY DEF LockInv
<1> QED
  BY <1>1, InitLockInv, NextLockInv, PTL DEF Spec

\* The unsynchronised reads of holding() never make spin_lock or spin_unlock panic.
THEOREM SpinlockNoFalsePanic == Spec => []NoFalsePanic
<1>1. LockInv => NoFalsePanic
  BY DEF LockInv
<1> QED
  BY <1>1, InitLockInv, NextLockInv, PTL DEF Spec
=============================================================================
