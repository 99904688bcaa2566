------------------------------- MODULE MCPmap -------------------------------
(* Small instances of Pmap for TLC. *)
EXTENDS Pmap, TLC

\* User code writes a word that, read as a page-table entry, is a writable mapping
\* of page 1.
MCStoreWord == {[pp |-> 1, w |-> TRUE]}

\* Two pages that share a page table, and one under another directory entry.
MCVA == {<<0, 0>>, <<0, 1>>, <<1, 0>>}

\* User code stores one word into the pages it has, and two of the addresses are in use
\* at a time.
Small ==
  /\ Cardinality({<<p, i>> \in (Page \ (Dirs(k) \cup Tables(k))) \X Idx : Present(k.mem[p][i])}) <= 1
  /\ Cardinality({va \in VA : \E e \in Env : Present(space[e][va])}) <= 2

\* The slots of envs[] are interchangeable.
MCSymmetry == Permutations(Env)
=============================================================================
