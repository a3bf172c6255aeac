------------------------ MODULE MCFlashcachePrefetch ------------------------
(* FlashcachePrefetch instantiated for TLC: two disk blocks that have an   *)
(* entry of the prefetch cache each, or share one.                         *)
EXTENDS FlashcachePrefetch, TLC
CONSTANTS d1, d2, m1, m2
Separate == d1 :> m1 @@ d2 :> m2
Shared == d1 :> m1 @@ d2 :> m1
FpSymmetry == Permutations(Slots) \cup Permutations(Bios)
=============================================================================
