-------------------------- MODULE MCShareRegistry --------------------------
(* Instances of ShareRegistry for TLC. *)
EXTENDS ShareRegistry, TLC

CONSTANTS n1, n2, p1, p2, t1, t2

MCShares == {n1, n2}
MCPorts == {p1, p2}
MCCallers == {t1, t2}

Symmetry == Permutations(Shares) \cup Permutations(Ports) \cup Permutations(Callers)
=============================================================================
