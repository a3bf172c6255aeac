---------------------------- MODULE MCBlockLists ----------------------------
(* A set of three blocks, with four disk blocks in two hash buckets; the   *)
(* disk blocks of a bucket are interchangeable.                            *)
EXTENDS BlockLists

CONSTANTS d1, d2, d3, d4

MCDbns == {d1, d2, d3, d4}
MCBucketOf == [x \in MCDbns |-> IF x = d4 THEN "right" ELSE "left"]
MCSymmetry == Permutations({d1, d2, d3})
=============================================================================
