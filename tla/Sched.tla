------------------------------- MODULE Sched -------------------------------
(***************************************************************************)
(* Environments and the scheduler: the env table of kern/env.c, trap() of  *)
(* kern/trap.c, sched_yield of kern/sched.c and the system calls of        *)
(* kern/syscall.c that change an environment's status.                     *)
(*                                                                         *)
(* A trap runs with interrupts off and the big kernel lock held from       *)
(* lock_kernel() in trap() to unlock_kernel() in env_run(), so the whole   *)
(* trap is one step.  As committed only the boot CPU runs environments     *)
(* (mp_main ends in a loop), so there is one curenv.                       *)
(***************************************************************************)
EXTENDS Integers, Sequences, FiniteSets, FiniteSetsExt

CONSTANTS
  NENV,       \* length of envs[]
  GenStep,    \* 1 << ENVGENSHIFT, a multiple of NENV
  IdLimit,    \* env_id is an int32_t: a generation of IdLimit or more is negative
  MaxBirths   \* bound: the environments created in one behaviour

ASSUME TableAssumption == NENV \in Nat /\ NENV > 1
ASSUME IdAssumption ==
  /\ GenStep \in Nat \ {0} /\ GenStep % NENV = 0
  /\ IdLimit \in Nat /\ IdLimit > GenStep + NENV /\ IdLimit % NENV = 0
ASSUME BirthsAssumption == MaxBirths \in Nat \ {0}

Slot == 0 .. NENV - 1
NoEnv == -1
EnvId == 0 .. IdLimit - 1

VARIABLES
  st,         \* envs, env_free_list, curenv and mode
  inService,  \* the local APIC still waits for the timer's end-of-interrupt
  birth,      \* history: birth[e] numbers the creation that slot e holds, 0 if none
  creator,    \* history: the birth of the environment that created it
  births,     \* history: how many environments have been created
  held        \* history: the <<env_id, birth>> pairs user code has been given

vars == <<st, inService, birth, creator, births, held>>

Status == {"FREE", "DYING", "RUNNABLE", "RUNNING", "NOT_RUNNABLE"}
EnvRec == [env_status : Status, env_id : EnvId, env_parent_id : EnvId]
Kernel == [envs : [Slot -> EnvRec],
           env_free_list : Seq(Slot),
           curenv : Slot \cup {NoEnv},
           mode : {"kernel", "user", "monitor"}]

SetStatus(s, e, status) == [s EXCEPT !.envs[e].env_status = status]

-----------------------------------------------------------------------------
(* kern/env.c                                                                *)

envid2env_NoStaleCheck(s, envid, checkperm) ==
  LET e == envid % NENV
  IN  IF envid = 0 THEN s.curenv
      ELSE IF \/ s.envs[e].env_status = "FREE"
              \/ checkperm /\ e # s.curenv
                 /\ s.envs[e].env_parent_id # s.envs[s.curenv].env_id
           THEN NoEnv
           ELSE e

\* The slot, or NoEnv for -E_BAD_ENV.
envid2env(s, envid, checkperm) ==
  LET e == envid % NENV
  IN  IF envid = 0 THEN s.curenv
      ELSE IF \/ s.envs[e].env_status = "FREE"
              \/ s.envs[e].env_id # envid
              \/ checkperm /\ e # s.curenv
                 /\ s.envs[e].env_parent_id # s.envs[s.curenv].env_id
           THEN NoEnv
           ELSE e

env_init == [envs |-> [e \in Slot |-> [env_status |-> "FREE", env_id |-> 0, env_parent_id |-> 0]],
             env_free_list |-> [i \in 1 .. NENV |-> i - 1],
             curenv |-> NoEnv,
             mode |-> "kernel"]

NextId_SameGeneration(s, e) == IF s.envs[e].env_id = 0 THEN GenStep + e ELSE s.envs[e].env_id
NextId(s, e) ==
  LET next == s.envs[e].env_id + GenStep
      generation == next - (next % NENV)
  IN  (IF generation >= IdLimit THEN GenStep ELSE generation) + e

\* The new environment is Head(s.env_free_list).
env_alloc(s, parent) ==
  LET e == Head(s.env_free_list)
  IN  [s EXCEPT !.envs[e] = [env_status |-> "RUNNABLE",
                             env_id |-> NextId(s, e),
                             env_parent_id |-> parent],
                !.env_free_list = Tail(@)]

env_free_Keep(s, e) == SetStatus(s, e, "FREE")
env_free(s, e) ==
  [SetStatus(s, e, "FREE") EXCEPT !.env_free_list = <<e>> \o @]

env_run_KeepRunning(s, e) ==
  [SetStatus(s, e, "RUNNING") EXCEPT !.curenv = e, !.mode = "user"]
env_run(s, e) ==
  LET c == s.curenv
      prev == IF c # NoEnv /\ s.envs[c].env_status = "RUNNING"
              THEN SetStatus(s, c, "RUNNABLE") ELSE s
  IN  [SetStatus(prev, e, "RUNNING") EXCEPT !.curenv = e, !.mode = "user"]

-----------------------------------------------------------------------------
(* kern/sched.c                                                              *)

\* The slot that round number r of sched_yield's loop looks at: the pointer starts
\* after curenv (after envs[0] if there is none) and wraps around to envs + 1.
Looked(s, r) ==
  LET start == IF s.curenv = NoEnv THEN 0 ELSE s.curenv
  IN  1 + ((start + r) % (NENV - 1))

Runnable(s, e) == s.envs[e].env_status = "RUNNABLE"

sched_yield_FromZero(s) ==
  LET hits == {e \in Slot \ {0} : Runnable(s, e)}
  IN  IF hits # {} THEN env_run(s, Min(hits))
      ELSE IF Runnable(s, 0) THEN env_run(s, 0)
      ELSE [s EXCEPT !.mode = "monitor"]

sched_yield_NoWrap(s) ==
  LET hits == {e \in Slot \ {0} : e > s.curenv /\ Runnable(s, e)}
  IN  IF hits # {} THEN env_run(s, Min(hits))
      ELSE IF Runnable(s, 0) THEN env_run(s, 0)
      ELSE [s EXCEPT !.mode = "monitor"]

\* Runs the chosen environment, or stays in the monitor for good.
sched_yield(s) ==
  LET hits == {r \in 0 .. NENV - 1 : Runnable(s, Looked(s, r))}
  IN  IF hits # {} THEN env_run(s, Looked(s, Min(hits)))
      ELSE IF Runnable(s, 0) THEN env_run(s, 0)
      ELSE [s EXCEPT !.mode = "monitor"]

env_destroy(s, e) ==
  IF s.envs[e].env_status = "RUNNING" /\ s.curenv # e THEN SetStatus(s, e, "DYING")
  ELSE LET f == env_free(s, e)
       IN  IF s.curenv = e THEN sched_yield([f EXCEPT !.curenv = NoEnv]) ELSE f

-----------------------------------------------------------------------------
(* kern/trap.c: trap() around the handler that trap_dispatch calls.          *)

TrapEntry(s) ==
  LET c == s.curenv
      in == [s EXCEPT !.mode = "kernel"]
  IN  IF s.envs[c].env_status = "DYING"
      THEN sched_yield([env_free(in, c) EXCEPT !.curenv = NoEnv])
      ELSE in

TrapExit_CurenvOnly(s) ==
  IF s.mode = "kernel" /\ s.curenv # NoEnv /\ s.envs[s.curenv].env_status = "RUNNING"
  THEN env_run(s, s.curenv) ELSE s

\* A handler that did not return has already left mode "kernel".
TrapExit(s) ==
  IF s.mode # "kernel" THEN s
  ELSE IF s.curenv # NoEnv /\ s.envs[s.curenv].env_status = "RUNNING"
       THEN env_run(s, s.curenv)
       ELSE sched_yield(s)

trap(Handler(_)) ==
  /\ st.mode = "user"
  /\ LET in == TrapEntry(st)
     IN  st' = IF in.mode = "kernel" THEN TrapExit(Handler(in)) ELSE in

NoBirth == UNCHANGED <<birth, creator, births, held>>

\* The environment in slot e was created just now by the one in slot c.
Birth(e, c) ==
  /\ births < MaxBirths
  /\ births' = births + 1
  /\ birth' = [birth EXCEPT ![e] = births + 1]
  /\ creator' = [creator EXCEPT ![e] = IF c = NoEnv THEN 0 ELSE birth[c]]
  /\ held' = held \cup {<<st'.envs[e].env_id, births + 1>>}

\* The timer: trap_dispatch calls sched_yield and never lapic_eoi.
Timer == /\ ~inService
         /\ trap(sched_yield)
         /\ inService' = TRUE
         /\ NoBirth

\* A fault that no upcall handles, a breakpoint (once the monitor returns), any
\* other trap that trap_dispatch does not expect.
Fault ==
  LET Handler(s) == env_destroy(s, s.curenv)
  IN  trap(Handler) /\ UNCHANGED inService /\ NoBirth

sys_yield == trap(sched_yield) /\ UNCHANGED inService /\ NoBirth

\* The calls that name an environment; one that envid2env refuses changes nothing.
sys_env_destroy(envid) ==
  LET e == envid2env(st, envid, TRUE)
      Handler(s) == env_destroy(s, e)
  IN  /\ st.mode = "user" /\ e # NoEnv
      /\ trap(Handler) /\ UNCHANGED inService /\ NoBirth

sys_exofork ==
  LET e == Head(st.env_free_list)
      Handler(s) == SetStatus(env_alloc(s, s.envs[s.curenv].env_id), e, "NOT_RUNNABLE")
  IN  /\ st.env_free_list # <<>>
      /\ trap(Handler)
      /\ Birth(e, st.curenv)
      /\ UNCHANGED inService

sys_env_set_status(envid, status) ==
  LET e == envid2env(st, envid, TRUE)
      Handler(s) == SetStatus(s, e, status)
  IN  /\ st.mode = "user" /\ e # NoEnv
      /\ trap(Handler) /\ UNCHANGED inService /\ NoBirth

-----------------------------------------------------------------------------
\* boot_aps creates one environment, envs[0], and runs it.
Init ==
  /\ st = env_run(env_alloc(env_init, 0), 0)
  /\ inService = FALSE
  /\ birth = [e \in Slot |-> IF e = 0 THEN 1 ELSE 0]
  /\ creator = [e \in Slot |-> 0]
  /\ births = 1
  /\ held = {<<st.envs[0].env_id, 1>>}

\* while (1) monitor(NULL);
InMonitor == st.mode = "monitor" /\ UNCHANGED vars

Next ==
  \/ Timer
  \/ Fault
  \/ sys_yield
  \/ sys_exofork
  \/ \E envid \in EnvId : sys_env_destroy(envid)
  \/ \E envid \in EnvId, status \in {"RUNNABLE", "NOT_RUNNABLE"} : sys_env_set_status(envid, status)
  \/ InMonitor

Spec == Init /\ [][Next]_vars

\* The timer of a running local APIC keeps ticking; nothing is assumed of user code.
FairSpec == Spec /\ WF_vars(Timer)

-----------------------------------------------------------------------------
(* Properties.                                                               *)

\* Types; user code runs only in an environment.
TypeOK ==
  /\ st \in Kernel
  /\ inService \in BOOLEAN
  /\ birth \in [Slot -> 0 .. MaxBirths]
  /\ creator \in [Slot -> 0 .. MaxBirths]
  /\ births \in 0 .. MaxBirths
  /\ held \subseteq EnvId \X (1 .. MaxBirths)
  /\ st.mode \in {"user", "monitor"}
  /\ st.mode = "user" => st.curenv # NoEnv

\* In user mode curenv is the one environment marked ENV_RUNNING, whatever mixture
\* of yields, exits, destroys and status changes came before (env_run, env_destroy
\* and trap() together); and no environment is ever left a zombie.
OneRunning ==
  /\ st.mode = "user" => {e \in Slot : st.envs[e].env_status = "RUNNING"} = {st.curenv}
  /\ \A e \in Slot : st.envs[e].env_status # "DYING"

\* env_free_list holds every free slot exactly once: env_alloc never hands out a
\* slot in use, env_free never puts one back twice, none is forgotten.
EnvListExact ==
  /\ {st.env_free_list[i] : i \in DOMAIN st.env_free_list}
       = {e \in Slot : st.envs[e].env_status = "FREE"}
  /\ Len(st.env_free_list) = Cardinality({e \in Slot : st.envs[e].env_status = "FREE"})

\* envid2env lets an environment control itself and the environments it created,
\* never one created by an earlier occupant of its slot.
ParentIsCreator ==
  st.mode = "user" =>
    \A envid \in EnvId :
      LET e == envid2env(st, envid, TRUE)
      IN  e \in Slot \ {st.curenv} => creator[e] = birth[st.curenv]

\* An envid names one environment for ever: one kept after its environment is gone
\* is refused by envid2env, also when the slot has been reused.
StaleIdRefused ==
  \A h \in held :
    LET e == envid2env(st, h[1], FALSE)
    IN  e # NoEnv => birth[e] = h[2]

\* Slots from a to b, both excluded, going up and around through the slots in ring.
Between(a, b, ring) ==
  {j \in ring : IF a < b THEN a < j /\ j < b ELSE j > a \/ j < b} \ {a, b}

Switches == /\ st.mode = "user" /\ st'.mode = "user" /\ st'.curenv # st.curenv

\* sched_yield is round-robin over slots 1 .. NENV-1: when an environment gives the
\* CPU to another, no slot in between was runnable, and envs[0] runs only when
\* nothing else can.
RoundRobin == [][
  Switches /\ st'.envs[st.curenv].env_status # "FREE" =>
    \A j \in (IF st'.curenv = 0 THEN Slot \ {0, st.curenv}
              ELSE Between(st.curenv, st'.curenv, Slot \ {0})) : ~Runnable(st', j)]_vars

\* sched_yield enters the monitor for good ("Destroyed all environments - nothing more
\* to do!") only when its search, from wherever curenv was, has missed no runnable
\* environment; one that is still marked ENV_RUNNING it does not look for.
NoneRunnableLeft == st.mode = "monitor" => ~\E e \in Slot : Runnable(st, e)

\* Clock interrupts preempt: while another environment is runnable, none keeps the
\* CPU for ever.
Preempted == \A e \in Slot :
  (st.mode = "user" /\ st.curenv = e /\ \E i \in Slot : Runnable(st, i))
    ~> (st.mode = "user" /\ st.curenv = e /\ ~\E i \in Slot : Runnable(st, i))
       \/ st.mode # "user" \/ st.curenv # e
=============================================================================
