---------------------------- MODULE AgentTunnel ----------------------------
(***************************************************************************)
(* The agent's end of the tunnel (device/agent/tunnel.go): runTunnel dials *)
(* the server of the account, backs off and dials again for as long as the *)
(* agent runs.  Meanwhile people sign the PC in and out and an admin       *)
(* removes it, so that an answer may reach a PC that is on another account *)
(* by then.  Of the server only what the handshake answers is kept: its    *)
(* registry is the subject of TunnelRegistry.                              *)
(***************************************************************************)
EXTENDS Naturals

CONSTANTS
  Servers,
  NoServer,
  BackoffMax,      \* bound: tunnelBackoffMax, in units of tunnelBackoffMin
  MaxAccountMoves  \* bound: sign ins, sign outs and removals

ASSUME TunnelAssumption ==
  NoServer \notin Servers /\ BackoffMax \in Nat \ {0} /\ MaxAccountMoves \in Nat

VARIABLES
  account,  \* agent.st.Server
  bound,    \* each server: does the PC have an active binding there
  unbound,  \* servers that have taken a binding away at some time
  signing,  \* sign ins to each server: "no", "asked", "accepted" but not written down
  leaving,  \* the server a sign out has been accepted by, or NoServer
  loop,     \* runTunnel: "ready", "dial", "admitted", "gone", "answered", "up", "wait"
  of,       \* st.Server of the snapshot this attempt works with
  conn,     \* the connection: "none", "open", "silent" (nothing arrives), "closed"
  backoff,  \* wait
  moves

tunnelVars == <<account, bound, unbound, signing, leaving, loop, of, conn, backoff, moves>>
accountVars == <<account, bound, unbound, signing, leaving, moves>>

AgentTunnelTypeOK ==
  /\ {account, of, leaving} \subseteq Servers \cup {NoServer}
  /\ bound \in [Servers -> BOOLEAN] /\ unbound \subseteq Servers
  /\ signing \in [Servers -> {"no", "asked", "accepted"}]
  /\ loop \in {"ready", "dial", "admitted", "gone", "answered", "up", "wait"}
  /\ conn \in {"none", "open", "silent", "closed"}
  /\ loop = "up" => conn # "none"
  /\ loop \notin {"ready", "wait"} => of \in Servers
  /\ backoff \in 1..BackoffMax
  /\ moves \in 0..MaxAccountMoves

TunnelInit ==
  /\ account = NoServer /\ leaving = NoServer /\ of = NoServer
  /\ bound = [s \in Servers |-> FALSE] /\ unbound = {}
  /\ signing = [s \in Servers |-> "no"]
  /\ loop = "ready" /\ conn = "none" /\ backoff = 1 /\ moves = 0

-----------------------------------------------------------------------------
(* The account of the PC.                                                  *)

accountMoves ==
  /\ moves < MaxAccountMoves
  /\ moves' = moves + 1
  /\ UNCHANGED <<loop, of, backoff>>

(* startLogin refuses a PC that is on an account; the approval, the        *)
(* enrolment and the write of the new account come later.                  *)
signInStart(s) ==
  /\ accountMoves
  /\ account = NoServer /\ signing[s] = "no"
  /\ signing' = [signing EXCEPT ![s] = "asked"]
  /\ UNCHANGED <<account, bound, unbound, leaving, conn>>

signInAccepted(s) ==
  /\ signing[s] = "asked"
  /\ signing' = [signing EXCEPT ![s] = "accepted"]
  /\ bound' = [bound EXCEPT ![s] = TRUE]
  /\ UNCHANGED <<account, unbound, leaving, loop, of, conn, backoff, moves>>

signInWritten(s) ==
  /\ signing[s] = "accepted"
  /\ signing' = [signing EXCEPT ![s] = "no"]
  /\ account' = s
  /\ UNCHANGED <<bound, unbound, leaving, loop, of, conn, backoff, moves>>

Unbind(s) ==
  /\ bound' = [bound EXCEPT ![s] = FALSE]
  /\ unbound' = unbound \cup {s}

(* unenrolDevice at the server; it does not look for a tunnel.             *)
signOut ==
  /\ accountMoves
  /\ account # NoServer /\ leaving = NoServer
  /\ Unbind(account)
  /\ leaving' = account
  /\ UNCHANGED <<account, signing, conn>>

(* Only the account at s; the PC may be signed in elsewhere by now.        *)
forgetAccount(s) == account' = IF account = s THEN NoServer ELSE account

signOutForget ==
  /\ leaving # NoServer
  /\ forgetAccount(leaving)
  /\ leaving' = NoServer
  /\ UNCHANGED <<bound, unbound, signing, loop, of, conn, backoff, moves>>

(* removeDevice: unbinds and closes the tunnel it finds registered.        *)
removeDevice(s) ==
  /\ accountMoves
  /\ bound[s]
  /\ Unbind(s)
  /\ conn' = IF of = s /\ conn = "open" THEN "closed" ELSE conn
  /\ UNCHANGED <<account, signing, leaving>>

-----------------------------------------------------------------------------
(* runTunnel and tunnelOnce.                                               *)

(* The end of tunnelOnce and the choice of the next wait.                  *)
tunnelDown(connected) ==
  /\ loop' = "wait"
  /\ conn' = "none"
  /\ backoff' = IF connected THEN 1 ELSE backoff
  /\ UNCHANGED of

notEnrolled ==
  /\ loop = "ready" /\ account = NoServer
  /\ tunnelDown(FALSE)
  /\ UNCHANGED accountVars

tunnelOnce ==
  /\ loop = "ready" /\ account # NoServer
  /\ loop' = "dial" /\ of' = account
  /\ UNCHANGED <<accountVars, conn, backoff>>

(* No connection, no answer within tunnelHandshakeTimeout, or another      *)
(* refusal than 410.                                                       *)
handshakeFails ==
  /\ loop \in {"dial", "admitted", "gone", "answered"}
  /\ tunnelDown(FALSE)
  /\ UNCHANGED accountVars

(* dialServer gets through.  openTunnel reads the bindings first, and      *)
(* registers the connection and answers 101 in a later step.               *)
openTunnelCheck ==
  /\ loop = "dial"
  /\ loop' = IF bound[of] THEN "admitted" ELSE "gone"
  /\ UNCHANGED <<accountVars, of, conn, backoff>>

openTunnelRegister ==
  /\ loop = "admitted"
  /\ loop' = "answered" /\ conn' = "open"
  /\ UNCHANGED <<accountVars, of, backoff>>

handshakeGoneIgnored ==
  /\ loop = "gone"
  /\ tunnelDown(FALSE)
  /\ UNCHANGED accountVars

handshakeGone ==
  /\ loop = "gone"
  /\ forgetAccount(of)
  /\ tunnelDown(FALSE)
  /\ UNCHANGED <<bound, unbound, signing, leaving, moves>>

handshakeUp ==
  /\ loop = "answered"
  /\ loop' = "up"
  /\ UNCHANGED <<accountVars, of, conn, backoff>>

(* The path dies and neither end is told, or the server goes away.         *)
pathDies(how) ==
  /\ conn = "open" /\ how \in {"silent", "closed"}
  /\ conn' = how
  /\ UNCHANGED <<accountVars, loop, of, backoff>>

serveConnNoIdle ==
  /\ loop = "up" /\ conn = "closed"
  /\ tunnelDown(TRUE)
  /\ UNCHANGED accountVars

(* ServeConn returns once a read fails: the connection is closed, or no    *)
(* read finished within tunnelIdle.                                        *)
serveConn ==
  /\ loop = "up" /\ conn \in {"closed", "silent"}
  /\ tunnelDown(TRUE)
  /\ UNCHANGED accountVars

runTunnel ==
  /\ loop = "wait"
  /\ loop' = "ready"
  /\ backoff' = IF 2 * backoff < BackoffMax THEN 2 * backoff ELSE BackoffMax
  /\ UNCHANGED <<accountVars, of, conn>>

TunnelNext ==
  \/ notEnrolled \/ tunnelOnce \/ openTunnelCheck \/ openTunnelRegister
  \/ handshakeUp \/ handshakeGone \/ handshakeFails \/ serveConn \/ runTunnel
  \/ \E how \in {"silent", "closed"} : pathDies(how)
  \/ signOut \/ signOutForget
  \/ \E s \in Servers : \/ signInStart(s) \/ signInAccepted(s) \/ signInWritten(s)
                       \/ removeDevice(s)

(* The loop, which times out where nothing answers, and the end of a sign  *)
(* in or sign out only need the scheduler; dialling and the handshake      *)
(* succeed where the network and the server answer again and again.        *)
TunnelLoop == \/ notEnrolled \/ tunnelOnce \/ handshakeUp \/ handshakeGone
              \/ handshakeFails \/ serveConn \/ runTunnel

AnswerArrives == (conn = "open" /\ handshakeUp) \/ handshakeGone

TunnelFairness ==
  /\ WF_tunnelVars(TunnelLoop)
  /\ WF_tunnelVars(signOutForget)
  /\ \A s \in Servers : WF_tunnelVars(signInWritten(s))
  /\ SF_tunnelVars(openTunnelCheck)
  /\ SF_tunnelVars(openTunnelRegister)
  /\ SF_tunnelVars(AnswerArrives)

TunnelSpec == TunnelInit /\ [][TunnelNext]_tunnelVars /\ TunnelFairness

-----------------------------------------------------------------------------
(* Properties                                                              *)

(* The loop holds a connection that carries traffic, to the server of the  *)
(* account or to another.                                                  *)
Serving == loop = "up" /\ conn = "open"

(* runTunnel "keeps one connection to the server open for as long as ctx   *)
(* lives" (tunnel.go:38): a PC that is on an account whose server has it   *)
(* bound has, again and again, a connection to that server.                *)
TunnelToAccount ==
  []<>(account = NoServer \/ ~bound[account] \/ (Serving /\ of = account))

(* What holds of it: neither the back-off nor a path that died in silence  *)
(* keeps the PC from a connection to the server it is signed in at         *)
(* (tunnel.go:39-58, 145-150).  Only one thing does: a connection to a     *)
(* server it was signed in at before, that never ends (tunnel.go:96).      *)
TunnelComesBack == TunnelToAccount \/ <>[](Serving /\ of # account)

(* A PC that the server of its account no longer has bound finds out: it   *)
(* is off that account or bound again in the end, unless it holds a        *)
(* connection that was let in before, there or elsewhere (tunnel.go:76-86). *)
RemovedIsForgotten ==
  \A s \in Servers :
    (account = s /\ ~bound[s])
      ~> (account # s \/ bound[s] \/ Serving)

(* The account a PC is taken off is one whose server has taken a binding   *)
(* away: an answer 410 of one server never takes the PC off another        *)
(* (login.go:199-208).                                                     *)
ForgetsWhatWasLost ==
  [][account # NoServer /\ account' = NoServer => account \in unbound]_tunnelVars

(* Both: the PC leaves the account it was removed from, and no other.      *)
RemovalIsHeeded == RemovedIsForgotten /\ ForgetsWhatWasLost
=============================================================================
