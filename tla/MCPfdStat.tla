----------------------------- MODULE MCPfdStat ------------------------------
(* Three processes read a disk of nine blocks, with two records.         *)
EXTENDS PfdStat

MCSymmetry == Permutations(Streams)
=============================================================================
