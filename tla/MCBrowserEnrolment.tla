------------------------- MODULE MCBrowserEnrolment -------------------------
(* Instances of BrowserEnrolment for TLC. *)
EXTENDS BrowserEnrolment, TLC

CONSTANTS a1, a2, c1, c2, k1, k2, j1, j2, r1, r2

MCAccts == {a1, a2}
MCCodes == {c1, c2}
MCTokens == {k1, k2}
MCLogins == {j1, j2}
MCReqs == {r1, r2}

(* Codes and tokens are minted in this order.  Which unused name a mint    *)
(* gives makes no difference, and a minted one stays minted: every         *)
(* behaviour that is left out is one that is kept under other names.       *)
MintedInOrder ==
  /\ code[c2].status # "unminted" => code[c1].status # "unminted"
  /\ token[k2].state # "unminted" => token[k1].state # "unminted"
=============================================================================
