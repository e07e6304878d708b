----------------------------- MODULE LanAdvert -----------------------------
(***************************************************************************)
(* How a PC is found on its network (device/agent/mdns.go, responder.go,   *)
(* tls.go): keepAdvertised polls the addresses, drops the certificate when *)
(* they change and registers the mDNS record again when they or the list   *)
(* of shares change.  serve makes the first certificate before the loop    *)
(* takes its first look, and handshakes make later ones at any time.  A    *)
(* network is the interface and the addresses of the PC on it.             *)
(***************************************************************************)
EXTENDS Naturals

CONSTANTS
  Networks,
  AppLists,  \* lists of shares, as the TXT record names them
  NoRecord   \* nothing registered, no certificate made

Record == [net : Networks, apps : AppLists]

ASSUME LanAssumption == NoRecord \notin Networks \cup AppLists \cup Record

VARIABLES
  net,         \* the network the PC is on
  shares,      \* agent.st.Apps
  poll,        \* keepAdvertised: "off" until serve starts it, "look", "want", "sleep"
  network,     \* its last look at the network
  state,       \* its snapshot of the shares
  advertised,  \* what the last successful registration was made for
  record,      \* what the responder answers: addresses and shares
  cert,        \* the addresses the certificate names
  retry        \* retryAt is in the future

lanVars == <<net, shares, poll, network, state, advertised, record, cert, retry>>
loopVars == <<network, state, advertised>>

LanTypeOK ==
  /\ net \in Networks /\ shares \in AppLists
  /\ poll \in {"off", "look", "want", "sleep"}
  /\ {network, cert} \subseteq Networks \cup {NoRecord}
  /\ poll \in {"want", "sleep"} => network \in Networks
  /\ {advertised, record} \subseteq Record \cup {NoRecord}
  /\ advertised # NoRecord => record # NoRecord
  /\ retry \in BOOLEAN

LanInit ==
  /\ net \in Networks /\ shares \in AppLists
  /\ poll = "off" /\ retry = FALSE
  /\ network = NoRecord /\ state = NoRecord
  /\ advertised = NoRecord /\ record = NoRecord /\ cert = NoRecord

-----------------------------------------------------------------------------
(* The PC joins another network; somebody changes what it shares.          *)
networkChanges(n) ==
  /\ n # net /\ net' = n
  /\ UNCHANGED <<shares, poll, loopVars, record, cert, retry>>

sharesChange(a) ==
  /\ a # shares /\ shares' = a
  /\ UNCHANGED <<net, poll, loopVars, record, cert, retry>>

(* lanCert.get, from serve and from every handshake: it makes one where    *)
(* there is none or the one there is runs out.                             *)
getCert ==
  /\ cert' = net
  /\ UNCHANGED <<net, shares, poll, loopVars, record, retry>>

(* serve starts keepAdvertised once it has a certificate.                  *)
serveStarts ==
  /\ poll = "off" /\ cert # NoRecord
  /\ network' = net
  /\ poll' = "look"
  /\ UNCHANGED <<net, shares, state, advertised, record, cert, retry>>

lookKeepsCert ==
  /\ poll = "look"
  /\ network' = net /\ state' = shares
  /\ poll' = "want"
  /\ UNCHANGED <<net, shares, advertised, record, cert, retry>>

(* The look at the network, cert.renew, and the snapshot.                  *)
look ==
  /\ poll = "look"
  /\ network' = net /\ state' = shares
  /\ cert' = IF net # network THEN NoRecord ELSE cert
  /\ poll' = "want"
  /\ UNCHANGED <<net, shares, advertised, record, retry>>

Want == [net |-> network, apps |-> state]

(* Nothing to announce, or not yet.                                        *)
upToDate ==
  /\ poll = "want"
  /\ Want = advertised \/ retry
  /\ poll' = "sleep"
  /\ UNCHANGED <<net, shares, loopVars, record, cert, retry>>

(* The new responder replaces the old one; it takes the addresses of the   *)
(* network the PC is on by now.                                            *)
advertise ==
  /\ poll = "want" /\ Want # advertised /\ ~retry
  /\ record' = [net |-> net, apps |-> state]
  /\ advertised' = Want
  /\ poll' = "sleep"
  /\ UNCHANGED <<net, shares, network, state, cert, retry>>

(* No permission for the local network, no multicast: tried again later,   *)
(* and the old responder goes on answering.                                *)
advertiseFails ==
  /\ poll = "want" /\ Want # advertised /\ ~retry
  /\ retry' = TRUE
  /\ poll' = "sleep"
  /\ UNCHANGED <<net, shares, loopVars, record, cert>>

retryDue ==
  /\ retry /\ retry' = FALSE
  /\ UNCHANGED <<net, shares, poll, loopVars, record, cert>>

sleepEnds ==
  /\ poll = "sleep" /\ poll' = "look"
  /\ UNCHANGED <<net, shares, loopVars, record, cert, retry>>

keepAdvertised == look \/ upToDate \/ advertise \/ advertiseFails \/ sleepEnds

LanNext ==
  \/ \E n \in Networks : networkChanges(n)
  \/ \E a \in AppLists : sharesChange(a)
  \/ getCert \/ serveStarts \/ keepAdvertised \/ retryDue

(* The loop runs for as long as the agent does, a retry falls due, and     *)
(* multicast works again and again.                                        *)
LanFairness ==
  /\ WF_lanVars(keepAdvertised)
  /\ WF_lanVars(retryDue)
  /\ SF_lanVars(advertise)

LanSpec == LanInit /\ [][LanNext]_lanVars /\ LanFairness

-----------------------------------------------------------------------------
(* Properties                                                              *)

(* A network that is new to the loop, neither the one it saw last nor the  *)
(* one it announced last, is named in the end by the record and by the     *)
(* certificate the next handshake gets, unless the PC leaves it first      *)
(* (mdns.go:276-328).                                                      *)
NetworkReachesTheLAN ==
  \A n \in Networks :
    (/\ poll # "off" /\ net = n /\ network # n
     /\ (advertised # NoRecord => advertised.net # n))
      ~> \/ net # n
         \/ record # NoRecord /\ record.net = n /\ cert \in {NoRecord, n}

(* A change of the shares reaches the record (mdns.go:303-322).            *)
SharesReachTheLAN ==
  \A a \in AppLists :
    (poll # "off" /\ shares = a) ~> (shares # a \/ (record # NoRecord /\ record.apps = a))

(* Both: what the PC announces follows what it is.                         *)
LanFollows == NetworkReachesTheLAN /\ SharesReachTheLAN
=============================================================================
