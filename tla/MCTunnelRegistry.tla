-------------------------- MODULE MCTunnelRegistry --------------------------
(* Instances of TunnelRegistry for TLC. *)
EXTENDS TunnelRegistry, TLC

CONSTANTS d1, d2, c1, c2, c3

TwoDevices == {d1, d2}
OneDevice == {d1}
ThreeConns == {c1, c2, c3}
TwoConns == {c1, c2}

Symmetry == Permutations(Devices) \cup Permutations(Conns)
=============================================================================
