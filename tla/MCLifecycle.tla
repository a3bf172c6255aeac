---------------------------- MODULE MCLifecycle -----------------------------
(* A cache of one set of two slots, and two neighbouring blocks.           *)
EXTENDS Lifecycle

MCDbns == {1, 2}
MCSetOfDbn(d) == 0
=============================================================================
