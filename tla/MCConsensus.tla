---------------------------- MODULE MCConsensus ----------------------------
(***************************************************************************)
(* Instances of Consensus for TLC.                                         *)
(*                                                                         *)
(* Fork: the first two rounds of a subnet of four replicas, one of them    *)
(*   faulty.  It has rank 0 in both and equivocates: both its blocks of    *)
(*   round 1 may get notarized, and its block of round 2 extends one.      *)
(* Live: round 1 of Fork, where only the faulty replica makes blocks.      *)
(* CatchUp: three rounds of a subnet of two replicas, whose committees are *)
(*   single replicas; round 2 is a DKG summary.                            *)
(***************************************************************************)
EXTENDS Consensus, TLC

CONSTANTS n1, n2, n3, byz,
          Names         \* the blocks of the run

(* name of a block |-> height, parent, rank, maker, certified height *)
Universe ==
    [ A1 |-> <<1, "G",  0, byz, 0>>,
      A2 |-> <<1, "G",  0, byz, 0>>,
      C2 |-> <<2, "A2", 0, byz, 0>>,
      P  |-> <<1, "G",  0, n1, 0>>,
      Q  |-> <<2, "P",  0, n2, 0>>,
      R  |-> <<3, "Q",  0, n1, 2>> ]

MCHeight == [b \in Names \cup {"G"} |-> IF b = "G" THEN 0 ELSE Universe[b][1]]
MCParent == [b \in Names |-> Universe[b][2]]
MCRank == [b \in Names |-> Universe[b][3]]
MCCertified == [b \in Names \cup {"G"} |-> IF b = "G" THEN 0 ELSE Universe[b][5]]
MCMaker == [b \in Names |-> Universe[b][4]]

FourNodes == {n1, n2, n3, byz}
TwoNodes == {n1, n2}

LiveCommittees == [h \in {1} |-> FourNodes]
ForkCommittees == [h \in 1..2 |-> FourNodes]
CatchUpCommittees == << {n1}, {n2}, {n1} >>

ForkSymmetry == Permutations({n1, n2, n3})
=============================================================================
