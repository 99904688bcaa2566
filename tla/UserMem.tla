------------------------------- MODULE UserMem -------------------------------
(***************************************************************************)
(* user_mem_check (kern/pmap.c): may an environment access [va, va + len)? *)
(* Addresses have a width, and va + len wraps around.                      *)
(***************************************************************************)
EXTENDS Integers, FiniteSets

CONSTANTS
  PGSIZE,
  ULIM,     \* an address, a multiple of PGSIZE
  SPACE     \* the number of addresses: 2^32

ASSUME SpaceAssumption == ULIM % PGSIZE = 0 /\ ULIM < SPACE /\ SPACE % PGSIZE = 0

UPage == 0 .. (SPACE \div PGSIZE) - 1
ROUNDDOWN(a) == a - (a % PGSIZE)

\* A page table gives every page its permissions, with "P" if it is present.
Allows(table, a, perm) == perm \cup {"U", "P"} \subseteq table[a \div PGSIZE]

\* The loop, from start: 0, or the address that user_mem_check_addr is left with.
RECURSIVE CheckFrom(_, _, _, _)
NextPage_NoRound(start) == start + PGSIZE
NextPage(start) == ROUNDDOWN(start) + PGSIZE
CheckFrom(table, start, end, perm) ==
  IF start >= end THEN [ok |-> TRUE, addr |-> 0]
  ELSE IF start >= ULIM \/ ~Allows(table, start, perm) THEN [ok |-> FALSE, addr |-> start]
  ELSE CheckFrom(table, NextPage(start) % SPACE, end, perm)

user_mem_check(table, va, len, perm) == CheckFrom(table, va, (va + len) % SPACE, perm)

-----------------------------------------------------------------------------
(* Reference: the addresses of the range that user code may not access.      *)
Forbidden(table, va, len, perm) ==
  {a \in va .. va + len - 1 : a >= ULIM \/ ~Allows(table, a, perm)}
=============================================================================
