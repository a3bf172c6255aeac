---------------------------- MODULE MCAdmission -----------------------------
(* A thread and the leader of its group, and another pid.                  *)
EXTENDS Admission

CONSTANTS p1, p2, p3

MCPids == {p1, p2, p3}
MCThreads == {p1, p2}
MCTgid == [t \in MCThreads |-> p1]
=============================================================================
