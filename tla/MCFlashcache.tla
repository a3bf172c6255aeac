---------------------------- MODULE MCFlashcache ----------------------------
(* Flashcache instantiated for TLC.                                        *)
EXTENDS FlashcacheInv, TLC

Symmetry == Permutations(Slots) \cup Permutations(Dbns) \cup Permutations(Bios)
=============================================================================
