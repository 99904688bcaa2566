------------------------------- MODULE Kdebug -------------------------------
(***************************************************************************)
(* kern/kdebug.c: which file and which function an instruction address     *)
(* belongs to, by binary search in a table of stabs in which the entries   *)
(* of the type wanted are mixed with others.                               *)
(*                                                                         *)
(* A table is a sequence; stab number i, counted from 0, is stabs[i + 1].  *)
(***************************************************************************)
EXTENDS Integers, Sequences

\* struct Stab; in: is its name inside the string table?
Stab(type, value, in) == [n_type |-> type, n_value |-> value, in |-> in]
Type(stabs, i) == stabs[i + 1].n_type
Value(stabs, i) == stabs[i + 1].n_value

RECURSIVE Earlier(_, _, _, _)
\* The entry of the right type at or before m, l - 1 if there is none from l on.
Earlier(stabs, m, l, type) ==
  IF m >= l /\ Type(stabs, m) # type THEN Earlier(stabs, m - 1, l, type) ELSE m

\* One turn of the loop for a match m: where the search goes on, and what it has found.
Narrow_Right(s, stabs, m, true_m) ==
  CASE Value(stabs, m) < s.addr -> [s EXCEPT !.left = m, !.l = true_m + 1]
    [] Value(stabs, m) > s.addr -> [s EXCEPT !.right = m, !.r = m - 1]
    [] OTHER -> [s EXCEPT !.left = m, !.l = m, !.addr = @ + 1]
Narrow(s, stabs, m, true_m) ==
  CASE Value(stabs, m) < s.addr -> [s EXCEPT !.left = m, !.l = true_m + 1]
    [] Value(stabs, m) > s.addr -> [s EXCEPT !.right = m - 1, !.r = m - 1]
    [] OTHER -> [s EXCEPT !.left = m, !.l = m, !.addr = @ + 1]

RECURSIVE Search(_, _, _)
Search(s, stabs, type) ==
  LET true_m == (s.l + s.r) \div 2
      m == Earlier(stabs, true_m, s.l, type)
  IN  IF s.l > s.r THEN s
      ELSE IF m < s.l THEN Search([s EXCEPT !.l = true_m + 1], stabs, type)
      ELSE Search([Narrow(s, stabs, m, true_m) EXCEPT !.any_matches = TRUE], stabs, type)

\* The new *region_left and *region_right.
stab_binsearch(stabs, left, right, type, addr) ==
  LET s == Search([l |-> left, r |-> right, left |-> left, right |-> right,
                   addr |-> addr, any_matches |-> FALSE], stabs, type)
  IN  IF ~s.any_matches THEN [left |-> s.left, right |-> s.left - 1]
      ELSE [left |-> Earlier(stabs, s.right, s.left + 1, type), right |-> s.right]

\* The file's name: back to an N_SOL, or to an N_SO with a value.
RECURSIVE FileStab(_, _, _)
FileStab(stabs, l, lfile) ==
  IF l >= lfile /\ Type(stabs, l) # "SOL" /\ (Type(stabs, l) # "SO" \/ Value(stabs, l) = 0)
  THEN FileStab(stabs, l - 1, lfile) ELSE l

RECURSIVE Args(_, _, _)
Args(stabs, l, rfun) ==
  IF l < rfun /\ Type(stabs, l) = "PSYM" THEN 1 + Args(stabs, l + 1, rfun) ELSE 0

Unknown == -1
NoInfo(addr) == [ret |-> -1, file |-> Unknown, line |-> Unknown, fn |-> Unknown, fn_addr |-> addr, narg |-> 0]

\* debuginfo_eip; a name, or a line, is the number of the stab that has it.  valid: addr is
\* in the kernel, or the environment's tables passed user_mem_check; and the strings end in
\* 0.  The search for the line number is not written: eip_line stays as it is initialised.
debuginfo_eip(stabs, addr, valid) ==
  LET f == stab_binsearch(stabs, 0, Len(stabs) - 1, "SO", addr)
      fun == stab_binsearch(stabs, f.left, f.right, "FUN", addr)
      found == fun.left <= fun.right
      lline == FileStab(stabs, IF found THEN fun.left ELSE f.left, f.left)
  IN  IF ~valid \/ f.left = 0 THEN NoInfo(addr)
      ELSE [ret |-> 0,
            file |-> IF lline >= f.left /\ stabs[lline + 1].in THEN lline ELSE Unknown,
            line |-> Unknown,
            fn |-> IF found /\ stabs[fun.left + 1].in THEN fun.left ELSE Unknown,
            fn_addr |-> IF found THEN Value(stabs, fun.left) ELSE addr,
            narg |-> IF fun.left < fun.right THEN Args(stabs, fun.left + 1, fun.right) ELSE 0]

-----------------------------------------------------------------------------
(* Reference definitions.                                                    *)

Of(stabs, type, S) == {i \in S : Type(stabs, i) = type}
\* The last stab of a type in S that is not behind addr.
Before(stabs, type, S, addr) == {i \in Of(stabs, type, S) : Value(stabs, i) <= addr}
Last(S) == CHOOSE i \in S : \A j \in S : j <= i
=============================================================================
