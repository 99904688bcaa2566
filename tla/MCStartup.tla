------------------------------ MODULE MCStartup ------------------------------
(* MP tables and floating pointers for TLC. *)
EXTENDS Startup

\* Every table of one to five CPUs whose boot CPU is one of the first NCPU.
MCTables ==
  {t \in UNION {{[j \in 1 .. n |-> j = i] : i \in 1 .. n} : n \in 1 .. 5} :
     \E i \in DOMAIN t : i <= NCPU /\ t[i]}

Good == [good |-> TRUE, default |-> FALSE, conf |-> TRUE]
Default == [good |-> TRUE, default |-> TRUE, conf |-> TRUE]
BadConf == [good |-> TRUE, default |-> FALSE, conf |-> FALSE]
BadSum == [good |-> FALSE, default |-> FALSE, conf |-> TRUE]
Fw(ebda, basemem, rom) == [ebda |-> ebda, basemem |-> basemem, rom |-> rom]

\* Found in each of the three places, behind one with a bad checksum, and not found:
\* no pointer, a pointer to a bad table or a default configuration before a good one.
MCFirmware ==
  {Fw(<<BadSum, Good>>, <<>>, <<>>), Fw(<<>>, <<Good>>, <<BadConf>>), Fw(<<BadSum>>, <<>>, <<Good>>),
   Fw(<<>>, <<>>, <<BadSum>>), Fw(<<>>, <<BadConf, Good>>, <<Good>>), Fw(<<>>, <<Default>>, <<Good>>)}
=============================================================================
