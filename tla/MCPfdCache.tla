---------------------------- MODULE MCPfdCache ----------------------------
(* PfdCache instantiated for TLC: disk blocks that share the entries of    *)
(* the prefetch cache.                                                     *)
EXTENDS PfdCache, TLC
CONSTANTS d1, d2, m1
Colliding == d1 :> m1 @@ d2 :> m1
=============================================================================
