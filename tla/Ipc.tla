-------------------------------- MODULE Ipc --------------------------------
(***************************************************************************)
(* Messages between environments: sys_ipc_try_send and sys_ipc_recv of     *)
(* kern/syscall.c and ipc_recv of lib/ipc.c, on top of Sched.  The page a  *)
(* message carries is followed through an abstract address space per       *)
(* environment (Pmap has the page tables behind it).                       *)
(***************************************************************************)
EXTENDS Sched

CONSTANTS
  UTOP,       \* addresses below UTOP are the user's: 0 .. UTOP-1, all page-aligned
  Value       \* the values that are sent

ASSUME AddressAssumption == UTOP \in Nat \ {0} /\ Value \subseteq Nat \ {0}

Addr == 0 .. UTOP

VARIABLES
  ipc,        \* the env_ipc_* fields of struct Env
  map,        \* map[e]: the addresses at which e has a page
  stopped     \* history: e is ENV_NOT_RUNNABLE by sys_exofork or sys_env_set_status

ipcVars == <<ipc, map, stopped>>
allVars == <<vars, ipcVars>>

IpcRec == [env_ipc_recving : BOOLEAN, env_ipc_dstva : Addr, env_ipc_value : Value \cup {0},
           env_ipc_from : EnvId, env_ipc_perm : BOOLEAN]

IpcInit ==
  /\ Init
  /\ ipc = [e \in Slot |-> [env_ipc_recving |-> FALSE, env_ipc_dstva |-> 0,
                            env_ipc_value |-> 0, env_ipc_from |-> 0, env_ipc_perm |-> FALSE]]
  /\ map = [e \in Slot |-> IF e = 0 THEN {UTOP - 1} ELSE {}]
  /\ stopped = [e \in Slot |-> FALSE]

-----------------------------------------------------------------------------
\* Whether the step creates or frees the environment of slot e.
Created(e) == birth'[e] # birth[e]
Freed(e) == st'.envs[e].env_status = "FREE" /\ st.envs[e].env_status # "FREE"

\* env_alloc clears env_ipc_recving and leaves the other fields of the slot; a new
\* environment has one page of its own.
SchedStep ==
  /\ Next
  /\ ipc' = [e \in Slot |-> IF Created(e) THEN [ipc[e] EXCEPT !.env_ipc_recving = FALSE]
                            ELSE ipc[e]]
  /\ map' = [e \in Slot |-> IF Created(e) THEN {UTOP - 1}
                            ELSE IF Freed(e) THEN {} ELSE map[e]]
  /\ stopped' = [e \in Slot |->
       /\ st'.envs[e].env_status = "NOT_RUNNABLE"
       /\ stopped[e] \/ Created(e) \/ st.envs[e].env_status # "NOT_RUNNABLE"]

sys_ipc_recv(dstva) ==
  LET c == st.curenv
      Handler(s) == sched_yield(SetStatus(s, c, "NOT_RUNNABLE"))
  IN  /\ trap(Handler)
      /\ ipc' = [ipc EXCEPT ![c].env_ipc_dstva = dstva,
                            ![c].env_ipc_recving = TRUE,
                            ![c].env_ipc_from = 0]
      /\ stopped' = [stopped EXCEPT ![c] = FALSE]
      /\ UNCHANGED <<map, inService>> /\ NoBirth

\* lib/ipc.c; the null pointer is 0.
ipc_recv(pg) == sys_ipc_recv(IF pg # 0 THEN UTOP ELSE pg)

\* The slot a send from the current environment reaches, NoEnv if it fails.
Receiver_NoRecvCheck(envid, srcva) ==
  LET d == envid2env(st, envid, FALSE)
  IN  IF d = NoEnv \/ (srcva < UTOP /\ srcva \notin map[st.curenv]) THEN NoEnv ELSE d
Receiver(envid, srcva) ==
  LET d == envid2env(st, envid, FALSE)
  IN  IF \/ d = NoEnv
         \/ ~ipc[d].env_ipc_recving
         \/ ipc[d].env_ipc_from # 0
         \/ srcva < UTOP /\ srcva \notin map[st.curenv]
      THEN NoEnv ELSE d

\* What a successful send does to the receiver's status.
Wake_Not(s, d) == s
Wake(s, d) == SetStatus(s, d, "RUNNABLE")

\* A send that succeeds; one that fails changes nothing.
sys_ipc_try_send(envid, value, srcva) ==
  LET c == st.curenv
      d == Receiver(envid, srcva)
      page == srcva < UTOP /\ ipc[d].env_ipc_dstva # 0
      Handler(s) == Wake(s, d)
  IN  /\ st.mode = "user"
      /\ d # NoEnv
      /\ trap(Handler)
      /\ map' = IF page THEN [map EXCEPT ![d] = @ \cup {ipc[d].env_ipc_dstva}] ELSE map
      /\ ipc' = [ipc EXCEPT ![d].env_ipc_perm = IF page THEN TRUE ELSE @,
                            ![d].env_ipc_from = st.envs[c].env_id,
                            ![d].env_ipc_value = value,
                            ![d].env_ipc_recving = FALSE]
      /\ stopped' = [stopped EXCEPT ![d] = FALSE]
      /\ UNCHANGED inService /\ NoBirth

IpcNext ==
  \/ SchedStep
  \/ \E va \in Addr : sys_ipc_recv(va) \/ ipc_recv(va)
  \/ \E envid \in EnvId, value \in Value, srcva \in Addr : sys_ipc_try_send(envid, value, srcva)

IpcSpec == IpcInit /\ [][IpcNext]_allVars

-----------------------------------------------------------------------------
(* Properties.                                                               *)

\* Types of the IPC state.
IpcTypeOK ==
  /\ TypeOK
  /\ ipc \in [Slot -> IpcRec]
  /\ map \in [Slot -> SUBSET Addr]
  /\ stopped \in [Slot -> BOOLEAN]

\* A message that was accepted is not overwritten: until the receiver itself calls
\* sys_ipc_recv again, the sender and the value it finds are those of one send.
AcceptedOnce == [][\A e \in Slot :
  ipc[e].env_ipc_from # 0 /\ ipc'[e].env_ipc_from # 0 =>
    ipc'[e].env_ipc_from = ipc[e].env_ipc_from /\ ipc'[e].env_ipc_value = ipc[e].env_ipc_value]_allVars

Exists(e) == st.envs[e].env_status # "FREE"

\* No wakeup is lost: an environment that is blocked, and that sys_exofork or
\* sys_env_set_status did not stop, waits for a message that has not come, and the
\* next send to it will be accepted (sys_ipc_recv, sys_ipc_try_send).
NoLostWakeup == \A e \in Slot :
  Exists(e) /\ st.envs[e].env_status = "NOT_RUNNABLE" /\ ~stopped[e] =>
    ipc[e].env_ipc_recving /\ ipc[e].env_ipc_from = 0

\* "If 'dstva' is < UTOP, then you are willing to receive a page of data": a
\* receiver never gets a mapping at or above UTOP.
NothingAboveUTOP == \A e \in Slot : UTOP \notin map[e]
=============================================================================
