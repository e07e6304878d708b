----------------------------- MODULE DeviceLink -----------------------------
(***************************************************************************)
(* What the tunnel registry promises its callers, without saying how: a    *)
(* device has at most one link, a new connection replaces the link, a link *)
(* goes down only when its own connection was lost or closed, and a        *)
(* connection that was replaced or went down never comes back.             *)
(***************************************************************************)
CONSTANTS Devices, Conns, None

VARIABLES
  link,   \* the connection requests for a device are sent down, or None
  spent,  \* connections that have been a link
  lost    \* connections whose agent is gone or that somebody closed

linkVars == <<link, spent, lost>>

LinkInit ==
  /\ link = [d \in Devices |-> None]
  /\ spent = {}
  /\ lost = {}

Lose(c) ==
  /\ lost' = lost \cup {c}
  /\ UNCHANGED <<link, spent>>

LinkUp(d, c) ==
  /\ c \notin spent
  /\ link' = [link EXCEPT ![d] = c]
  /\ spent' = spent \cup {c}
  /\ UNCHANGED lost

LinkDown(d) ==
  /\ link[d] \in lost
  /\ link' = [link EXCEPT ![d] = None]
  /\ UNCHANGED <<spent, lost>>

LinkNext ==
  \/ \E c \in Conns : Lose(c)
  \/ \E d \in Devices, c \in Conns : LinkUp(d, c)
  \/ \E d \in Devices : LinkDown(d)

LinkSpec == LinkInit /\ [][LinkNext]_linkVars

(* A lost link is taken down, so a caller is told "offline" and does not   *)
(* send into a dead connection for ever.                                   *)
FairLinkSpec == LinkSpec /\ \A d \in Devices : WF_linkVars(LinkDown(d))
=============================================================================
