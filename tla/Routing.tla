------------------------------ MODULE Routing ------------------------------
(***************************************************************************)
(* A request for an application of one PC, from the session to the tunnel  *)
(* (hosted/control-plane/routing.go, subscription.go).  The handler reads  *)
(* one thing after the other while sessions end, people are admitted and   *)
(* revoked, the operator suspends accounts, the PC changes its list and    *)
(* tunnels come and go.                                                    *)
(***************************************************************************)
EXTENDS Naturals, Sequences, SequencesExt

CONSTANTS
  People,      \* accounts
  Remote,      \* requests being served
  Nobody

ASSUME RoutingAssumption == Nobody \notin People

VARIABLES
  rows,      \* device_users in the order of created_at: [user, role, active]
  signedIn,  \* accounts with a session
  paying,    \* accounts whose subscription is not suspended
  offered,   \* the application is in device_apps
  live,      \* the registry holds a tunnel of the PC
  first,     \* the first admin the PC ever had
  remote     \* the requests

routingVars == <<rows, signedIn, paying, offered, live, first, remote>>
worldVars == <<rows, signedIn, paying, offered, live, first>>

Row == [user : People, role : {"admin", "guest"}, active : BOOLEAN]

(* held is what was true at some instant since the request arrived; counted *)
(* is the samples it left, one at most (routing.go:47).                     *)
Remotes == [at : {"new", "lookup", "query", "subscription", "get", "proxy", "failed", "done"},
            by : People \cup {Nobody}, owner : People \cup {Nobody},
            held : SUBSET {"session", "bound", "app", "paid", "live", "displaced"},
            sent : BOOLEAN, answered : BOOLEAN, counted : {0, 1}]

NewRemote == [at |-> "new", by |-> Nobody, owner |-> Nobody, held |-> {}, sent |-> FALSE,
              answered |-> FALSE, counted |-> 0]

RoutingTypeOK ==
  /\ rows \in Seq(Row)
  /\ \A i, j \in 1..Len(rows) : rows[i].user = rows[j].user => i = j
  /\ signedIn \subseteq People /\ paying \subseteq People
  /\ offered \in BOOLEAN /\ live \in BOOLEAN
  /\ first \in People \cup {Nobody}
  /\ remote \in [Remote -> Remotes]

RoutingInit ==
  /\ rows = <<>>
  /\ signedIn = People
  /\ paying = People
  /\ offered = TRUE
  /\ live = TRUE
  /\ first = Nobody
  /\ remote = [r \in Remote |-> NewRemote]

-----------------------------------------------------------------------------
(* What the handler asks *)

Bound(u) == \E i \in 1..Len(rows) : rows[i].user = u /\ rows[i].active

(* The user of the oldest of some rows: ORDER BY created_at LIMIT 1. *)
Oldest(places) == IF places = {} THEN Nobody ELSE rows[Min(places)].user

OwnerActive == Oldest({i \in 1..Len(rows) : rows[i].role = "admin" /\ rows[i].active})

(* The oldest row that says admin, revoked or not. *)
Owner == Oldest({i \in 1..Len(rows) : rows[i].role = "admin"})

(* An account without a row counts as active, so a deleted one does.       *)
subscriptionActive(u) == u \in paying

(* The first admin's row is there and says admin.  It need not be: the     *)
(* account may be deleted, or come back with an invite for a guest.        *)
FirstStands == \E i \in 1..Len(rows) : rows[i].user = first /\ rows[i].role = "admin"

(* For each account, what is true of its requests now; "displaced": the    *)
(* first admin does not stand.                                             *)
Good ==
  [u \in People |->
     (IF u \in signedIn THEN {"session"} ELSE {}) \cup (IF Bound(u) THEN {"bound"} ELSE {})
       \cup (IF offered THEN {"app"} ELSE {}) \cup (IF first \in paying THEN {"paid"} ELSE {})
       \cup (IF live THEN {"live"} ELSE {}) \cup (IF FirstStands THEN {} ELSE {"displaced"})]

-----------------------------------------------------------------------------
(* Everything else on the server.  Each change is seen by the requests     *)
(* that are being served: after it, more may have been true for them.      *)

Witness ==
  LET good == Good'
  IN remote' = [r \in Remote |->
       IF remote[r].at \in {"new", "done"} THEN remote[r]
       ELSE [remote[r] EXCEPT !.held = @ \cup good[remote[r].by]]]

(* An enrolment, or an invite some admin made; a row keeps its place when  *)
(* it is used again.                                                       *)
admit(u, role) ==
  /\ u \in signedIn
  /\ ~Bound(u)
  /\ role = "admin" \/ \E i \in 1..Len(rows) : rows[i].role = "admin" /\ rows[i].active
  /\ rows' = IF \E i \in 1..Len(rows) : rows[i].user = u
               THEN [i \in 1..Len(rows) |->
                       IF rows[i].user = u THEN [user |-> u, role |-> role, active |-> TRUE] ELSE rows[i]]
               ELSE Append(rows, [user |-> u, role |-> role, active |-> TRUE])
  /\ first' = IF first = Nobody /\ role = "admin" THEN u ELSE first
  /\ UNCHANGED <<signedIn, paying, offered, live>>
  /\ Witness

revoke(u) ==
  /\ Bound(u)
  /\ rows' = [i \in 1..Len(rows) |-> IF rows[i].user = u THEN [rows[i] EXCEPT !.active = FALSE] ELSE rows[i]]
  /\ UNCHANGED <<signedIn, paying, offered, live, first>>
  /\ Witness

(* The account goes with its binding, sessions and subscription. *)
deleteAccount(u) ==
  /\ u \in signedIn
  /\ \/ \E i \in 1..Len(rows) : rows[i].user = u /\ rows' = RemoveAt(rows, i)
     \/ (\A i \in 1..Len(rows) : rows[i].user # u) /\ UNCHANGED rows
  /\ signedIn' = signedIn \ {u}
  /\ paying' = paying \cup {u}
  /\ UNCHANGED <<offered, live, first>>
  /\ Witness

subscriptionChange(u) ==
  /\ paying' = IF u \in paying THEN paying \ {u} ELSE paying \cup {u}
  /\ UNCHANGED <<rows, signedIn, offered, live, first>>
  /\ Witness

sessionEnds(u) ==
  /\ u \in signedIn
  /\ signedIn' = signedIn \ {u}
  /\ UNCHANGED <<rows, paying, offered, live, first>>
  /\ Witness

syncAppsChange ==
  /\ offered' = ~offered
  /\ UNCHANGED <<rows, signedIn, paying, live, first>>
  /\ Witness

tunnelChange ==
  /\ live' = ~live
  /\ UNCHANGED <<rows, signedIn, paying, offered, first>>
  /\ Witness

-----------------------------------------------------------------------------
(* remoteRequest *)

Step(r, new) == remote' = [remote EXCEPT ![r] = new] /\ UNCHANGED worldVars

finishTwice(q) == [q EXCEPT !.answered = TRUE, !.counted = @ + 1]

(* finish leaves the one sample of a request. *)
finish(q) == IF q.answered THEN q ELSE [q EXCEPT !.answered = TRUE, !.counted = @ + 1]

deny(r) == Step(r, [finish(remote[r]) EXCEPT !.at = "done"])

arrive(r, u) ==
  /\ remote[r].at = "new"
  /\ Step(r, [remote[r] EXCEPT !.at = "lookup", !.by = u, !.held = Good[u]])

lookupSession(r) ==
  /\ remote[r].at = "lookup"
  /\ IF remote[r].by \in signedIn THEN Step(r, [remote[r] EXCEPT !.at = "query"]) ELSE deny(r)

queryUnbound(r) ==
  /\ remote[r].at = "query"
  /\ IF offered /\ Owner # Nobody
       THEN Step(r, [remote[r] EXCEPT !.at = "subscription", !.owner = Owner])
       ELSE deny(r)

(* One statement for the binding, the application and the owner. *)
query(r) ==
  /\ remote[r].at = "query"
  /\ IF Bound(remote[r].by) /\ offered /\ Owner # Nobody
       THEN Step(r, [remote[r] EXCEPT !.at = "subscription", !.owner = Owner])
       ELSE deny(r)

subscription(r) ==
  /\ remote[r].at = "subscription"
  /\ IF subscriptionActive(remote[r].owner) THEN Step(r, [remote[r] EXCEPT !.at = "get"]) ELSE deny(r)

get(r) ==
  /\ remote[r].at = "get"
  /\ IF live THEN Step(r, [remote[r] EXCEPT !.at = "proxy"]) ELSE deny(r)

(* The request goes down the tunnel it was given, and its answer comes     *)
(* back, or the transport fails and the error handler denies it first.     *)
proxyServes(r) ==
  /\ remote[r].at = "proxy"
  /\ Step(r, [finish(remote[r]) EXCEPT !.at = "done", !.sent = TRUE])

proxyFails(r) ==
  /\ remote[r].at = "proxy"
  /\ Step(r, [finish(remote[r]) EXCEPT !.at = "failed"])

proxyReturns(r) ==
  /\ remote[r].at = "failed"
  /\ Step(r, [finish(remote[r]) EXCEPT !.at = "done"])

(* An answer that breaks off aborts the handler, and finish is not reached. *)
proxyAborts(r) ==
  /\ remote[r].at = "proxy"
  /\ Step(r, [remote[r] EXCEPT !.at = "done", !.sent = TRUE])

remoteRequest(r) ==
  \/ lookupSession(r) \/ query(r) \/ subscription(r) \/ get(r)
  \/ proxyServes(r) \/ proxyFails(r) \/ proxyReturns(r) \/ proxyAborts(r)

RoutingNext ==
  \/ \E u \in People, role \in {"admin", "guest"} : admit(u, role)
  \/ \E u \in People : revoke(u) \/ deleteAccount(u) \/ subscriptionChange(u) \/ sessionEnds(u)
  \/ syncAppsChange
  \/ tunnelChange
  \/ \E r \in Remote, u \in People : arrive(r, u)
  \/ \E r \in Remote : remoteRequest(r)

RoutingSpec == RoutingInit /\ [][RoutingNext]_routingVars

-----------------------------------------------------------------------------
(* Properties *)

(* routing.go:102-134: nothing goes down a tunnel for a caller unless the  *)
(* session, the binding, the application and the tunnel were each good at  *)
(* some instant since it asked, whatever changed between the reads, and so *)
(* was the first admin's subscription, unless the first admin was gone or  *)
(* a guest at some instant since.                                          *)
SentWasAllowed ==
  \A r \in Remote : remote[r].sent =>
    /\ {"session", "bound", "app", "live"} \subseteq remote[r].held
    /\ remote[r].held \cap {"paid", "displaced"} # {}

(* routing.go:95-106: whoever is admitted, revoked and admitted again, the *)
(* account whose subscription decides is that of the first admin the PC    *)
(* ever had, revoked or not, unless that admin's row was deleted or turned *)
(* into a guest's at some instant since the request arrived.               *)
FirstAdminAsked ==
  \A r \in Remote :
    remote[r].owner # Nobody => remote[r].owner = first \/ "displaced" \in remote[r].held

(* routing.go:95: "The owner is the first admin the device ever had,       *)
(* revoked or not", with no exception: the account whose subscription      *)
(* decides is always that admin's.                                         *)
FirstAdminPays ==
  \A r \in Remote : remote[r].owner # Nobody => remote[r].owner = first
=============================================================================
