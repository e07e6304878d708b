----------------------------- MODULE MCBindings -----------------------------
(* Instances of Bindings for TLC. *)
EXTENDS Bindings, TLC

CONSTANTS u1, u2, u3, i1, i2, t1, t2

MCUsers == {u1, u2, u3}
MCInvites == {i1, i2}
MCReqs == {t1, t2}

TwoUsers == {u1, u2}
OneInvite == {i1}

(* Users, codes and connections are interchangeable. *)
Symmetry == Permutations(Users) \cup Permutations(Invites) \cup Permutations(Reqs)

(* Every endpoint. *)
MCAllOps == AllOps

(* The endpoints that keep a PC on its account. *)
KeepingOps == {"enrol", "invite", "redeem", "revoke", "leave", "disable", "expire"}
=============================================================================
