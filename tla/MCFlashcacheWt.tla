-------------------------- MODULE MCFlashcacheWt ---------------------------
(* One set of two slots, and three blocks that compete for them.           *)
EXTENDS FlashcacheWt

CONSTANTS d1, d2, d3

MCSetOfDbn(d) == 0
=============================================================================
