--------------------------- MODULE MC_Transaction ---------------------------
(* A small instance of Transaction for TLC: one keyspace name that the     *)
(* universe can map to two ids, two keys, two ranges per keyspace.         *)
EXTENDS Transaction, TLC

CONSTANTS ks1, id1, id2, k1, k2, r1, r2, v1

MCKeyspaces == {ks1}
MCKeyspaceIds == {id1, id2}
MCKeys == {k1, k2}
MCRanges == {r1, r2}
MCValues == {v1}
MCOneId == {id1}

(* Keys, ranges and keyspace ids are interchangeable: no property or      *)
(* action names one of them.                                              *)
MCSymmetry == Permutations(MCKeys) \cup Permutations(MCRanges)
                  \cup Permutations(MCKeyspaceIds)

=============================================================================
