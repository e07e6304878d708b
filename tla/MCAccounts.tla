----------------------------- MODULE MCAccounts -----------------------------
(* Instances of Accounts for TLC. *)
EXTENDS Accounts, TLC

CONSTANTS a1, p1, p2, l1, l2, s1, t1, t2

OneId == {a1}
MCPasswords == {p1, p2}
TwoLinks == {l1, l2}
OneSession == {s1}
MCReqs == {t1, t2}

Symmetry == Permutations(Ids) \cup Permutations(Passwords) \cup Permutations(Links)
              \cup Permutations(Sessions) \cup Permutations(Reqs)

AllOps == {"signup", "signin", "signout", "verify", "reset", "delete", "operator", "expire"}
=============================================================================
