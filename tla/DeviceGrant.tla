---------------------------- MODULE DeviceGrant ----------------------------
(***************************************************************************)
(* What signing a PC in promises the people who answer its codes, without  *)
(* polls, tokens and goroutines: a code is answered once and for good, an  *)
(* account gets hold of the PC only through a code it approved, a code     *)
(* gives the PC away once, and a sign out releases it.                     *)
(***************************************************************************)
CONSTANTS Accts, Codes, None

VARIABLES
  approval,  \* codes: the account that approved it, or None
  refused,   \* codes that were refused
  redeemed,  \* codes that have given the PC to an account
  held       \* accounts that hold the PC

grantVars == <<approval, refused, redeemed, held>>

GrantInit ==
  /\ approval = [c \in Codes |-> None]
  /\ refused = {} /\ redeemed = {} /\ held = {}

Unanswered(c) == approval[c] = None /\ c \notin refused

Approve(c, a) ==
  /\ Unanswered(c)
  /\ approval' = [approval EXCEPT ![c] = a]
  /\ UNCHANGED <<refused, redeemed, held>>

Refuse(c) ==
  /\ Unanswered(c)
  /\ refused' = refused \cup {c}
  /\ UNCHANGED <<approval, redeemed, held>>

Redeem(c) ==
  /\ approval[c] # None /\ c \notin redeemed
  /\ redeemed' = redeemed \cup {c}
  /\ held' = held \cup {approval[c]}
  /\ UNCHANGED <<approval, refused>>

Release ==
  /\ held' = {}
  /\ UNCHANGED <<approval, refused, redeemed>>

GrantNext ==
  \/ \E c \in Codes : Refuse(c) \/ Redeem(c) \/ \E a \in Accts : Approve(c, a)
  \/ Release

GrantSpec == GrantInit /\ [][GrantNext]_grantVars
=============================================================================
