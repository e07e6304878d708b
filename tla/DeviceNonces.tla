---------------------------- MODULE DeviceNonces ----------------------------
(***************************************************************************)
(* How a signed request of an agent is accepted once (devicesig.go,        *)
(* control-plane/agent.go): the stamp must be within ClockSkew of the      *)
(* server's clock, and the nonce is claimed in a table whose rows go after *)
(* agentNonceTTL.  The same request may arrive more than once; each copy   *)
(* is verified, sweeps the table and claims in three steps, with time      *)
(* passing between them.  Time is counted in ticks.                        *)
(***************************************************************************)
EXTENDS Integers, FiniteSets

CONSTANTS
  Copies,     \* arrivals of the one signed request
  ClockSkew,
  NonceTTL,
  Ahead,      \* how far the agent's clock may be ahead of the server's
  Lag,        \* how long a copy may take from its check to its claim
  MaxClock    \* bound: how long the model runs

ASSUME NonceAssumption ==
  /\ ClockSkew \in Nat /\ NonceTTL \in Nat /\ Ahead \in Nat /\ Lag \in Nat /\ MaxClock \in Nat
  /\ ClockSkew <= MaxClock

VARIABLES
  clock,    \* the server's and the database's clock
  stamp,    \* X-Device-Timestamp of the request
  expires,  \* expires_at of its row in device_nonces, 0 when there is none
  copy      \* the arrivals: where each is, and when it was verified

nonceVars == <<clock, stamp, expires, copy>>

NonceTypeOK ==
  /\ clock \in 0..MaxClock
  /\ stamp \in Int
  /\ expires \in 0..(MaxClock + NonceTTL)
  /\ copy \in [Copies -> [at : {"new", "delete", "claim", "accepted", "refused"}, since : 0..MaxClock]]

(* Signed at some instant, with the agent's clock; ClockSkew behind is as  *)
(* far back as a copy can still be accepted.                               *)
NonceInit ==
  /\ clock = ClockSkew
  /\ stamp \in 0..(ClockSkew + Ahead)
  /\ expires = 0
  /\ copy = [d \in Copies |-> [at |-> "new", since |-> 0]]

Pending(d) == copy[d].at \in {"delete", "claim"}

NonceTick ==
  /\ clock < MaxClock
  /\ \A d \in Copies : Pending(d) => clock - copy[d].since < Lag
  /\ clock' = clock + 1
  /\ UNCHANGED <<stamp, expires, copy>>

VerifyLate(d) ==
  /\ copy[d].at = "new"
  /\ copy' = [copy EXCEPT ![d] = [at |-> IF stamp - clock > ClockSkew THEN "refused" ELSE "delete",
                                  since |-> clock]]
  /\ UNCHANGED <<clock, stamp, expires>>

(* devicesig.Verify; the signature itself is good. *)
Verify(d) ==
  /\ copy[d].at = "new"
  /\ copy' = [copy EXCEPT ![d] =
       [at |-> IF clock - stamp > ClockSkew \/ stamp - clock > ClockSkew THEN "refused" ELSE "delete",
        since |-> clock]]
  /\ UNCHANGED <<clock, stamp, expires>>

DeleteExpired(d) ==
  /\ copy[d].at = "delete"
  /\ expires' = IF expires <= clock THEN 0 ELSE expires
  /\ copy' = [copy EXCEPT ![d].at = "claim"]
  /\ UNCHANGED <<clock, stamp>>

(* ON CONFLICT (nonce) DO NOTHING: one of two that claim at once gets it.  *)
Claim(d) ==
  /\ copy[d].at = "claim"
  /\ IF expires = 0
       THEN /\ expires' = clock + NonceTTL
            /\ copy' = [copy EXCEPT ![d].at = "accepted"]
       ELSE /\ copy' = [copy EXCEPT ![d].at = "refused"]
            /\ UNCHANGED expires
  /\ UNCHANGED <<clock, stamp>>

verifyAgentSignature(d) == Verify(d) \/ DeleteExpired(d) \/ Claim(d)

NonceNext ==
  \/ NonceTick
  \/ \E d \in Copies : verifyAgentSignature(d)

NonceSpec == NonceInit /\ [][NonceNext]_nonceVars

(* agent.go:14: "a captured request cannot be replayed".  A request is     *)
(* accepted once while the agent's clock is ahead by less than what the    *)
(* life of a nonce leaves over the skew and the time a request may take:   *)
(* Ahead + Lag < NonceTTL - ClockSkew.                                     *)
AcceptedOnce ==
  \A d, o \in Copies : copy[d].at = "accepted" /\ copy[o].at = "accepted" => d = o
=============================================================================
