------------------------------- MODULE MCFork -------------------------------
(* Small instances of Fork for TLC. *)
EXTENDS Fork, TLC

\* The run does not go on after a page in use has been handed out, and uses a third slot
\* only in programs that have no page but their stack.
Small ==
  /\ ~stray
  /\ (\A e \in Env, va \in VA \ {Stack} : pt[e][va].frame = 0) \/ \E e \in Env : pc[e] = "free"

\* The frames are interchangeable: what counts is which mappings share one, and what it
\* holds.
MCView ==
  <<[e \in Env |-> [va \in Page |->
       <<{m \in Env \X Page : pt[m[1]][m[2]].frame = pt[e][va].frame}, pt[e][va].w, pt[e][va].cow,
         IF pt[e][va].frame = 0 THEN 0 ELSE data[pt[e][va].frame], pt[e][va].frame = 0>>]],
    pc, fault, child, addr, pte, upcall, view, stray>>

\* The slots of envs[] are interchangeable.
MCSymmetry == Permutations(Env)
=============================================================================
