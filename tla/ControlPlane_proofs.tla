------------------------ MODULE ControlPlane_proofs ------------------------
(***************************************************************************)
(* Theorems about five parts of the control plane that share no state: the *)
(* way of a request to a PC (Routing), the migration runner (Migrations),  *)
(* the nonces of signed requests (DeviceNonces), the copy of what a PC     *)
(* shares (AppSync) and the limiter (RateLimiter), for any accounts,       *)
(* instances, versions, clocks, copies, applications, clients and          *)
(* requests.                                                               *)
(***************************************************************************)
EXTENDS Routing, Migrations, DeviceNonces, AppSync, RateLimiter,
        WellFoundedInduction, SequenceTheorems, FiniteSetTheorems, TLAPS

-----------------------------------------------------------------------------
(* Routing.  What is said of the owner is said of the first admin, unless  *)
(* that admin was displaced while the request was being served.            *)

Access == {"session", "bound", "app", "live"}
AllGood == Access \cup {"paid", "displaced"}

(* The first admin's row is the first row of the PC, if it is there at     *)
(* all: nobody is admitted as a guest before there is an admin, a row      *)
(* keeps its place, and an account that lost its row was deleted and is    *)
(* never admitted again.                                                   *)
FirstRow ==
  /\ first = Nobody => rows = <<>>
  /\ \A i \in 1..Len(rows) : rows[i].user = first => i = 1
  /\ first \in signedIn => \E i \in 1..Len(rows) : rows[i].user = first

(* One request: what it knows at each point, that everything true now has  *)
(* been noted, and that it has left its sample when it was answered.       *)
RemoteOK(q) ==
  /\ q.at = "new" => q.owner = Nobody /\ ~q.sent
  /\ q.at # "new" => q.by \in People
  /\ q.at \notin {"new", "done"} => ~q.sent /\ Good[q.by] \subseteq q.held
  /\ q.owner # Nobody => "displaced" \in q.held \/ q.owner = first
  /\ q.at \in {"query", "subscription", "get", "proxy"} => "session" \in q.held
  /\ q.at \in {"subscription", "get", "proxy"} => {"bound", "app"} \subseteq q.held /\ q.owner # Nobody
  /\ q.at \in {"get", "proxy"} => "displaced" \in q.held \/ "paid" \in q.held
  /\ q.at = "proxy" => "live" \in q.held
  /\ q.sent => Access \subseteq q.held /\ ("displaced" \in q.held \/ "paid" \in q.held)
  /\ q.counted = IF q.answered THEN 1 ELSE 0

RoutingInv == RoutingTypeOK /\ FirstRow /\ \A r \in Remote : RemoteOK(remote[r])

(* Nobody has asked yet. *)
LEMMA RoutingInitInv == RoutingInit => RoutingInv
<1> SUFFICES ASSUME RoutingInit PROVE RoutingInv
  OBVIOUS
<1> USE RoutingAssumption DEF RoutingInit
<1>1. RoutingTypeOK
  <2>1. NewRemote \in Remotes
    BY DEF NewRemote, Remotes
  <2> QED
    BY <2>1 DEF RoutingTypeOK
<1>2. FirstRow /\ \A r \in Remote : RemoteOK(remote[r])
  BY DEF FirstRow, RemoteOK, NewRemote
<1> QED
  BY <1>1, <1>2 DEF RoutingInv

(* What can be true of a request. *)
LEMMA GoodIs ==
  ASSUME NEW u \in People
  PROVE  /\ Good[u] \subseteq AllGood
         /\ "session" \in Good[u] <=> u \in signedIn
         /\ "bound" \in Good[u] <=> Bound(u)
         /\ "app" \in Good[u] <=> offered
         /\ "paid" \in Good[u] <=> first \in paying
         /\ "live" \in Good[u] <=> live
         /\ "displaced" \in Good[u] <=> ~FirstStands
BY DEF Good, AllGood, Access

LEMMA GoodWillBe ==
  ASSUME NEW u \in People
  PROVE  Good'[u] \subseteq AllGood
BY DEF Good, AllGood, Access

(* Of some places there is a first. *)
LEMMA LeastPlace == ASSUME NEW S \in SUBSET Nat, S # {} PROVE \E i \in S : \A j \in S : i =< j
<1> DEFINE R == OpToRel(<, Nat)
<1>1. IsWellFoundedOn(R, Nat)
  BY NatLessThanWellFounded
<1>2. \A i, j \in Nat : i < j => <<i, j>> \in R
  BY DEF OpToRel
<1> HIDE DEF R
<1>3. PICK i \in S : \A j \in S : <<j, i>> \notin R
  BY <1>1, WFMin
<1>4. \A j \in S : ~(j < i)
  BY <1>2, <1>3
<1>5. \A j \in S : i =< j
  BY <1>4
<1> QED
  BY <1>5

(* The owner that the query finds. *)
LEMMA OwnerIs ==
  ASSUME RoutingTypeOK, FirstRow
  PROVE  Owner \in People \cup {Nobody} /\ (FirstStands => Owner = first)
<1> DEFINE admins == {i \in 1..Len(rows) : rows[i].role = "admin"}
<1>0. Len(rows) \in Nat /\ \A i \in 1..Len(rows) : rows[i] \in Row
  BY DEF RoutingTypeOK
<1>1. CASE admins = {}
  <2>1. Owner = Nobody
    BY <1>1 DEF Owner, Oldest
  <2>2. ~FirstStands
    BY <1>1 DEF FirstStands
  <2> QED
    BY <2>1, <2>2
<1>2. CASE admins # {}
  <2> DEFINE m == Min(admins)
  <2>1. m \in admins /\ \A i \in admins : m =< i
    <3>1. admins \subseteq Nat
      BY <1>0
    <3>2. \E i \in admins : \A j \in admins : i =< j
      BY <1>2, <3>1, LeastPlace
    <3> QED
      BY <3>2 DEF Min
  <2>2. Owner = rows[m].user
    BY <1>2 DEF Owner, Oldest
  <2> HIDE DEF m
  <2>3. Owner \in People
    BY <1>0, <2>1, <2>2 DEF Row
  <2>4. ASSUME FirstStands PROVE Owner = first
    <3>1. 1 \in admins /\ rows[1].user = first
      BY <1>0, <2>4 DEF FirstStands, FirstRow
    <3>2. m = 1
      BY <1>0, <2>1, <3>1
    <3> QED
      BY <2>2, <3>1, <3>2
  <2> QED
    BY <2>3, <2>4
<1> QED
  BY <1>1, <1>2

-----------------------------------------------------------------------------
(* Everything else on the server changes under the requests: what they     *)
(* know stays true of some instant since they arrived.                     *)
LEMMA WitnessKeeps ==
  ASSUME RoutingInv, Witness, first = Nobody \/ first' = first
  PROVE  remote' \in [Remote -> Remotes] /\ \A r \in Remote : RemoteOK(remote[r])'
<1> DEFINE seen(q) == [q EXCEPT !.held = q.held \cup Good'[q.by]]
<1>1. remote' = [r \in Remote |-> IF remote[r].at \in {"new", "done"} THEN remote[r]
                                  ELSE seen(remote[r])]
  BY DEF Witness
<1>2. ASSUME NEW r \in Remote PROVE remote'[r] \in Remotes /\ RemoteOK(remote[r])'
  <2> DEFINE q == remote[r]
  <2>1. q \in Remotes /\ RemoteOK(q)
    BY DEF RoutingInv, RoutingTypeOK
  <2>2. q.owner # Nobody => "displaced" \in q.held \/ q.owner = first'
    BY <2>1 DEF RemoteOK
  <2>3. CASE q.at \in {"new", "done"}
    <3>1. remote'[r] = q
      BY <1>1, <2>3
    <3> QED
      BY <2>1, <2>2, <2>3, <3>1 DEF RemoteOK
  <2>4. CASE q.at \notin {"new", "done"}
    <3>1. remote'[r] = seen(q)
      BY <1>1, <2>4
    <3>2. q.by \in People /\ ~q.sent
      BY <2>1, <2>4 DEF RemoteOK
    <3>3. Good'[q.by] \subseteq AllGood
      BY <3>2, GoodWillBe
    <3> HIDE DEF q
    <3>4. /\ seen(q) \in Remotes
          /\ seen(q).held = q.held \cup Good'[q.by]
          /\ seen(q).at = q.at /\ seen(q).by = q.by /\ seen(q).owner = q.owner
          /\ seen(q).sent = q.sent /\ seen(q).answered = q.answered
          /\ seen(q).counted = q.counted
      BY <2>1, <3>3 DEF Remotes, AllGood, Access
    <3> HIDE DEF seen
    <3> QED
      BY <2>1, <2>2, <2>4, <3>1, <3>2, <3>4 DEF RemoteOK
  <2> QED
    BY <2>3, <2>4
<1> QED
  BY <1>1, <1>2

(* The rows after somebody was admitted: one more at the end, or the same  *)
(* places with one row rewritten.                                          *)
LEMMA AdmitRows ==
  ASSUME RoutingInv, NEW u \in People, NEW role \in {"admin", "guest"},
         admit(u, role)
  PROVE  /\ rows' \in Seq(Row)
         /\ \A i, j \in 1..Len(rows') : rows'[i].user = rows'[j].user => i = j
         /\ FirstRow'
<1> DEFINE new == [user |-> u, role |-> role, active |-> TRUE]
           has == \E i \in 1..Len(rows) : rows[i].user = u
<1> new \in Row
  BY DEF Row
<1> HIDE DEF new
<1>0. /\ rows \in Seq(Row) /\ Len(rows) \in Nat
      /\ \A i \in 1..Len(rows) : rows[i] \in Row
      /\ \A i, j \in 1..Len(rows) : rows[i].user = rows[j].user => i = j
      /\ FirstRow /\ Nobody \notin People
  BY RoutingAssumption DEF RoutingInv, RoutingTypeOK
<1>1. /\ role = "admin" \/ \E i \in 1..Len(rows) : rows[i].role = "admin" /\ rows[i].active
      /\ u \in signedIn /\ UNCHANGED signedIn
      /\ first' = IF first = Nobody /\ role = "admin" THEN u ELSE first
  BY DEF admit
<1>2. CASE has
  <2>1. rows' = [i \in 1..Len(rows) |-> IF rows[i].user = u THEN new ELSE rows[i]]
    BY <1>2 DEF admit, new
  <2>2. rows' \in Seq(Row) /\ Len(rows') = Len(rows)
    BY <1>0, <2>1
  <2>3. \A i \in 1..Len(rows) : rows'[i].user = rows[i].user
    BY <1>0, <2>1 DEF new
  <2>4. first # Nobody /\ first' = first
    BY <1>0, <1>1, <1>2 DEF FirstRow
  <2> QED
    BY <1>0, <1>1, <2>2, <2>3, <2>4 DEF FirstRow
<1>3. CASE ~has
  <2>1. rows' = Append(rows, new)
    BY <1>3 DEF admit, new
  <2>2. /\ rows' \in Seq(Row) /\ Len(rows') = Len(rows) + 1
        /\ \A i \in 1..Len(rows) : rows'[i] = rows[i]
        /\ rows'[Len(rows) + 1] = new
    BY <1>0, <2>1, AppendProperties
  <2>3. new.user = u /\ new.role = role
    BY DEF new
  <2>4. \A i, j \in 1..Len(rows') : rows'[i].user = rows'[j].user => i = j
    <3> SUFFICES ASSUME NEW i \in 1..Len(rows'), NEW j \in 1..Len(rows'),
                        rows'[i].user = rows'[j].user
                 PROVE  i = j
      OBVIOUS
    <3>1. \A k \in 1..Len(rows') : k \in 1..Len(rows) \/ k = Len(rows) + 1
      BY <1>0, <2>2
    <3>2. \A k \in 1..Len(rows) : rows'[k].user # u
      BY <1>3, <2>2
    <3> QED
      BY <1>0, <2>2, <2>3, <3>1, <3>2
  <2>5. FirstRow'
    <3>1. CASE first = Nobody
      <4>1. Len(rows) = 0 /\ role = "admin"
        BY <1>0, <1>1, <3>1 DEF FirstRow
      <4>2. first' = u /\ u # Nobody /\ Len(rows') = 1 /\ rows'[1].user = u
        BY <1>0, <1>1, <2>2, <2>3, <3>1, <4>1
      <4>3. \A i \in 1..Len(rows') : i = 1
        BY <4>2
      <4> QED
        BY <4>2, <4>3 DEF FirstRow
    <3>2. CASE first # Nobody
      <4>1. u # first /\ first' = first
        BY <1>0, <1>1, <1>3, <3>2 DEF FirstRow
      <4>2. \A i \in 1..Len(rows') : i \in 1..Len(rows) \/ rows'[i].user = u
        BY <1>0, <2>2, <2>3
      <4>3. \A i \in 1..Len(rows') : rows'[i].user = first => i = 1
        BY <1>0, <2>2, <4>1, <4>2 DEF FirstRow
      <4>4. \A i \in 1..Len(rows) : i \in 1..Len(rows') /\ rows'[i] = rows[i]
        BY <1>0, <2>2
      <4> QED
        BY <1>0, <1>1, <3>2, <4>1, <4>3, <4>4 DEF FirstRow
    <3> QED
      BY <3>1, <3>2
  <2> QED
    BY <2>2, <2>4, <2>5
<1> QED
  BY <1>2, <1>3

(* A row goes with its account; the others close up. *)
LEMMA DeleteRows ==
  ASSUME RoutingInv, NEW u \in People, deleteAccount(u)
  PROVE  /\ rows' \in Seq(Row)
         /\ \A i, j \in 1..Len(rows') : rows'[i].user = rows'[j].user => i = j
         /\ FirstRow'
<1>0. /\ rows \in Seq(Row) /\ Len(rows) \in Nat
      /\ \A i \in 1..Len(rows) : rows[i] \in Row
      /\ \A i, j \in 1..Len(rows) : rows[i].user = rows[j].user => i = j
      /\ FirstRow
  BY DEF RoutingInv, RoutingTypeOK
<1>1. first' = first /\ signedIn' = signedIn \ {u}
  BY DEF deleteAccount
<1>2. CASE UNCHANGED rows
  BY <1>0, <1>1, <1>2 DEF FirstRow
<1>3. ASSUME NEW k \in 1..Len(rows), rows[k].user = u, rows' = RemoveAt(rows, k)
      PROVE  /\ rows' \in Seq(Row)
             /\ \A i, j \in 1..Len(rows') : rows'[i].user = rows'[j].user => i = j
             /\ FirstRow'
  <2> DEFINE front == SubSeq(rows, 1, k - 1)
             back == SubSeq(rows, k + 1, Len(rows))
  <2>1. /\ front \in Seq(Row) /\ Len(front) = k - 1
        /\ \A i \in 1..(k - 1) : front[i] = rows[i]
    <3>1. \A i \in 1..(k - 1) : rows[i] \in Row
      BY <1>0
    <3> QED
      BY <1>0, <3>1, SubSeqProperties
  <2>2. /\ back \in Seq(Row) /\ Len(back) = Len(rows) - k
        /\ \A i \in 1..(Len(rows) - k) : back[i] = rows[k + i]
    <3>1. \A i \in (k + 1)..Len(rows) : rows[i] \in Row
      BY <1>0
    <3>2. /\ back \in Seq(Row)
          /\ Len(back) = IF k + 1 <= Len(rows) THEN Len(rows) - (k + 1) + 1 ELSE 0
          /\ \A i \in 1..(Len(rows) - (k + 1) + 1) : back[i] = rows[k + 1 + i - 1]
      BY <1>0, <3>1, SubSeqProperties
    <3> HIDE DEF back
    <3> QED
      BY <1>0, <3>2
  <2>3. rows' = front \o back
    BY <1>3 DEF RemoveAt
  <2> HIDE DEF front, back
  <2>4. /\ rows' \in Seq(Row) /\ Len(rows') = Len(rows) - 1
        /\ \A i \in 1..Len(rows') : rows'[i] = IF i < k THEN rows[i] ELSE rows[i + 1]
    <3>1. /\ rows' \in Seq(Row)
          /\ Len(rows') = Len(front) + Len(back)
          /\ \A i \in 1..(Len(front) + Len(back)) :
               rows'[i] = IF i <= Len(front) THEN front[i] ELSE back[i - Len(front)]
      BY <2>1, <2>2, <2>3, ConcatProperties
    <3>2. Len(rows') = Len(rows) - 1
      BY <1>0, <2>1, <2>2, <3>1
    <3>3. ASSUME NEW i \in 1..Len(rows')
          PROVE  rows'[i] = IF i < k THEN rows[i] ELSE rows[i + 1]
      <4>1. CASE i < k
        BY <1>0, <2>1, <2>2, <3>1, <3>2, <4>1
      <4>2. CASE i >= k
        <5>1. i - (k - 1) \in 1..(Len(rows) - k) /\ i \in 1..(Len(front) + Len(back))
          BY <1>0, <2>1, <2>2, <3>2, <4>2
        <5>2. rows'[i] = back[i - (k - 1)]
          BY <1>0, <2>1, <3>1, <4>2, <5>1
        <5>3. back[i - (k - 1)] = rows[k + (i - (k - 1))] /\ k + (i - (k - 1)) = i + 1
          BY <1>0, <2>2, <4>2, <5>1
        <5> QED
          BY <1>0, <4>2, <5>2, <5>3
      <4> QED
        BY <1>0, <3>2, <4>1, <4>2
    <3> QED
      BY <3>1, <3>2, <3>3
  <2>5. \A i, j \in 1..Len(rows') : rows'[i].user = rows'[j].user => i = j
    <3> DEFINE at(i) == IF i < k THEN i ELSE i + 1
    <3>1. \A i \in 1..Len(rows') : at(i) \in 1..Len(rows) /\ rows'[i] = rows[at(i)]
      BY <1>0, <2>4
    <3>2. \A i, j \in 1..Len(rows') : at(i) = at(j) => i = j
      BY <1>0, <2>4
    <3> HIDE DEF at
    <3> QED
      BY <1>0, <3>1, <3>2
  <2>6. FirstRow'
    <3>1. first # Nobody
      BY <1>0, <1>3 DEF FirstRow
    <3>2. ASSUME NEW i \in 1..Len(rows'), rows'[i].user = first PROVE i = 1
      <4>1. CASE i < k
        BY <1>0, <2>4, <3>2, <4>1 DEF FirstRow
      <4>2. CASE i >= k
        <5>1. i + 1 \in 1..Len(rows) /\ rows'[i] = rows[i + 1]
          BY <1>0, <2>4, <4>2
        <5>2. i + 1 = 1
          BY <1>0, <3>2, <5>1 DEF FirstRow
        <5> QED
          BY <5>2
      <4> QED
        BY <1>0, <4>1, <4>2
    <3>3. ASSUME first \in signedIn' PROVE \E i \in 1..Len(rows') : rows'[i].user = first
      <4>1. PICK j \in 1..Len(rows) : rows[j].user = first
        BY <1>0, <1>1, <3>3 DEF FirstRow
      <4>2. j = 1 /\ j # k
        BY <1>0, <1>1, <1>3, <3>3, <4>1 DEF FirstRow
      <4>3. 1 \in 1..Len(rows') /\ rows'[1] = rows[1]
        BY <1>0, <2>4, <4>2
      <4> QED
        BY <4>1, <4>2, <4>3
    <3> QED
      BY <1>1, <3>1, <3>2, <3>3 DEF FirstRow
  <2> QED
    BY <2>4, <2>5, <2>6
<1> QED
  BY <1>2, <1>3 DEF deleteAccount

(* The same for a row that is revoked. *)
LEMMA RevokeRows ==
  ASSUME RoutingInv, NEW u \in People, revoke(u)
  PROVE  /\ rows' \in Seq(Row)
         /\ \A i, j \in 1..Len(rows') : rows'[i].user = rows'[j].user => i = j
         /\ FirstRow'
<1>0. /\ rows \in Seq(Row) /\ Len(rows) \in Nat
      /\ \A i \in 1..Len(rows) : rows[i] \in Row
      /\ \A i, j \in 1..Len(rows) : rows[i].user = rows[j].user => i = j
      /\ FirstRow
  BY DEF RoutingInv, RoutingTypeOK
<1>1. first' = first /\ signedIn' = signedIn /\ rows' = [i \in 1..Len(rows) |->
        IF rows[i].user = u THEN [rows[i] EXCEPT !.active = FALSE] ELSE rows[i]]
  BY DEF revoke
<1>2. \A i \in 1..Len(rows) : /\ rows'[i] \in Row
                              /\ rows'[i].user = rows[i].user /\ rows'[i].role = rows[i].role
  BY <1>0, <1>1 DEF Row
<1>3. rows' \in Seq(Row) /\ Len(rows') = Len(rows)
  BY <1>0, <1>1, <1>2
<1>4. first = Nobody => rows' = <<>>
  BY <1>0, <1>3, EmptySeq DEF FirstRow
<1> QED
  BY <1>0, <1>1, <1>2, <1>3, <1>4 DEF FirstRow

(* The server's other steps. *)
LEMMA WorldKeeps ==
  ASSUME RoutingInv,
         \/ \E u \in People, role \in {"admin", "guest"} : admit(u, role)
         \/ \E u \in People : revoke(u) \/ deleteAccount(u) \/ subscriptionChange(u) \/ sessionEnds(u)
         \/ syncAppsChange \/ tunnelChange
  PROVE  RoutingInv'
<1>0. RoutingTypeOK /\ FirstRow
  BY DEF RoutingInv
<1>1. Witness /\ (first = Nobody \/ first' = first)
  BY DEF admit, revoke, deleteAccount, subscriptionChange, sessionEnds, syncAppsChange, tunnelChange
<1>2. remote' \in [Remote -> Remotes] /\ \A r \in Remote : RemoteOK(remote[r])'
  BY <1>1, WitnessKeeps
<1>3. /\ rows' \in Seq(Row)
      /\ \A i, j \in 1..Len(rows') : rows'[i].user = rows'[j].user => i = j
      /\ FirstRow'
  <2>1. CASE UNCHANGED <<rows, first>> /\ signedIn' \subseteq signedIn
    BY <1>0, <2>1 DEF RoutingTypeOK, FirstRow
  <2> QED
    BY <2>1, AdmitRows, DeleteRows, RevokeRows
    DEF subscriptionChange, sessionEnds, syncAppsChange, tunnelChange
<1>4. signedIn' \subseteq People /\ paying' \subseteq People
  BY <1>0 DEF RoutingTypeOK, admit, revoke, deleteAccount, subscriptionChange, sessionEnds,
              syncAppsChange, tunnelChange
<1>5. offered' \in BOOLEAN /\ live' \in BOOLEAN
  BY <1>0 DEF RoutingTypeOK, admit, revoke, deleteAccount, subscriptionChange, sessionEnds,
              syncAppsChange, tunnelChange
<1>6. first' \in People \cup {Nobody}
  BY <1>0 DEF RoutingTypeOK, admit, revoke, deleteAccount, subscriptionChange, sessionEnds,
              syncAppsChange, tunnelChange
<1> QED
  BY <1>2, <1>3, <1>4, <1>5, <1>6 DEF RoutingInv, RoutingTypeOK

-----------------------------------------------------------------------------
(* A request moves while nothing else does. *)
LEMMA StepKeeps ==
  ASSUME RoutingInv, NEW r \in Remote, NEW q \in Remotes, RemoteOK(q), Step(r, q)
  PROVE  RoutingInv'
<1>1. UNCHANGED worldVars /\ remote' = [remote EXCEPT ![r] = q]
  BY DEF Step
<1>2. \A i \in Remote : RemoteOK(remote'[i])
  BY <1>1 DEF RoutingInv, RoutingTypeOK
<1>3. \A u \in People : Good'[u] = Good[u]
  BY <1>1 DEF Good, Bound, FirstStands, worldVars
<1>4. \A i \in Remote : RemoteOK(remote[i])'
  BY <1>1, <1>2, <1>3 DEF RemoteOK, worldVars
<1>5. RoutingTypeOK' /\ FirstRow'
  BY <1>1 DEF RoutingInv, RoutingTypeOK, FirstRow, worldVars
<1> QED
  BY <1>4, <1>5 DEF RoutingInv

(* finish leaves one sample, and a request that ends without having been   *)
(* sent needs nothing more.                                                *)
LEMMA FinishIs ==
  ASSUME NEW q \in Remotes, q.counted = IF q.answered THEN 1 ELSE 0
  PROVE  /\ finish(q) \in Remotes
         /\ finish(q).answered /\ finish(q).counted = 1
         /\ finish(q).at = q.at /\ finish(q).by = q.by /\ finish(q).owner = q.owner
         /\ finish(q).held = q.held /\ finish(q).sent = q.sent
<1>1. CASE q.answered
  BY <1>1 DEF finish, Remotes
<1>2. CASE ~q.answered
  <2>1. finish(q) = [q EXCEPT !.answered = TRUE, !.counted = 1]
    BY <1>2 DEF finish, Remotes
  <2> QED
    BY <2>1 DEF Remotes
<1> QED
  BY <1>1, <1>2

(* A request that is denied. *)
LEMMA DenyKeeps ==
  ASSUME RoutingInv, NEW r \in Remote, deny(r), remote[r].at \notin {"new", "done"}
  PROVE  RoutingInv'
<1> DEFINE p == remote[r]
           q == [finish(p) EXCEPT !.at = "done"]
<1>1. p \in Remotes /\ RemoteOK(p)
  BY DEF RoutingInv, RoutingTypeOK
<1>2. Step(r, q)
  BY DEF deny
<1>3. /\ finish(p) \in Remotes /\ finish(p).answered /\ finish(p).counted = 1
      /\ finish(p).by = p.by /\ finish(p).owner = p.owner /\ finish(p).sent = p.sent
      /\ finish(p).held = p.held
  BY <1>1, FinishIs DEF RemoteOK
<1>4. q \in Remotes /\ RemoteOK(q)
  <2>1. /\ q \in Remotes /\ q.at = "done" /\ q.by = p.by /\ q.owner = p.owner
        /\ q.held = p.held /\ q.sent = p.sent /\ q.answered /\ q.counted = 1
    BY <1>3 DEF Remotes
  <2>2. ~p.sent /\ p.by \in People /\ (p.owner # Nobody => "displaced" \in p.held \/ p.owner = first)
    BY <1>1 DEF RemoteOK
  <2> HIDE DEF p, q
  <2> QED
    BY <2>1, <2>2 DEF RemoteOK
<1> QED
  BY <1>2, <1>4, StepKeeps

(* remoteRequest: each check reads what is true now, and what is true now  *)
(* has been noted.                                                         *)
LEMMA RequestKeeps ==
  ASSUME RoutingInv, NEW r \in Remote, remoteRequest(r)
  PROVE  RoutingInv'
<1> DEFINE p == remote[r]
<1>1. p \in Remotes /\ RemoteOK(p)
  BY DEF RoutingInv, RoutingTypeOK
<1>2. ASSUME p.at \notin {"new", "done"}
      PROVE  /\ p.by \in People /\ ~p.sent /\ (p.owner # Nobody => "displaced" \in p.held \/ p.owner = first)
             /\ p.by \in signedIn => "session" \in p.held
             /\ Bound(p.by) => "bound" \in p.held
             /\ offered => "app" \in p.held
             /\ first \in paying => "paid" \in p.held
             /\ live => "live" \in p.held
             /\ FirstStands \/ "displaced" \in p.held
  <2>1. p.by \in People /\ ~p.sent /\ Good[p.by] \subseteq p.held
    BY <1>1, <1>2 DEF RemoteOK
  <2> QED
    BY <1>1, <2>1, GoodIs DEF RemoteOK
<1>3. ASSUME NEW q \in Remotes, Step(r, q), p.at \notin {"new", "done"},
             q.by = p.by, q.held = p.held, q.sent = p.sent, q.answered = p.answered,
             q.counted = p.counted,
             q.owner # Nobody => "displaced" \in p.held \/ q.owner = first,
             q.at \in {"query", "subscription", "get", "proxy"}, "session" \in p.held,
             q.at # "query" => {"bound", "app"} \subseteq p.held /\ q.owner # Nobody,
             q.at \in {"get", "proxy"} => "displaced" \in p.held \/ "paid" \in p.held,
             q.at = "proxy" => "live" \in p.held
      PROVE  RoutingInv'
  <2>1. Good[q.by] \subseteq q.held /\ ~q.sent /\ q.by \in People
    BY <1>1, <1>3 DEF RemoteOK
  <2>2. p.counted = IF p.answered THEN 1 ELSE 0
    BY <1>1 DEF RemoteOK
  <2> HIDE DEF p
  <2>3. RemoteOK(q)
    BY <1>3, <2>1, <2>2 DEF RemoteOK
  <2> QED
    BY <1>3, <2>3, StepKeeps
<1>4. CASE lookupSession(r)
  <2> DEFINE q == [p EXCEPT !.at = "query"]
  <2>1. p.at = "lookup"
    BY <1>4 DEF lookupSession
  <2>2. CASE p.by \in signedIn
    <3>1. Step(r, q)
      BY <1>4, <2>2 DEF lookupSession
    <3>2. q \in Remotes /\ q.at = "query" /\ q.by = p.by /\ q.held = p.held /\ q.sent = p.sent
          /\ q.answered = p.answered /\ q.counted = p.counted /\ q.owner = p.owner
      BY <1>1 DEF Remotes
    <3> HIDE DEF p, q
    <3> QED
      BY <1>2, <1>3, <2>1, <2>2, <3>1, <3>2
  <2>3. CASE p.by \notin signedIn
    BY <1>4, <2>1, <2>3, DenyKeeps DEF lookupSession
  <2> QED
    BY <2>2, <2>3
<1>5. CASE query(r)
  <2> DEFINE q == [p EXCEPT !.at = "subscription", !.owner = Owner]
             ok == Bound(p.by) /\ offered /\ Owner # Nobody
  <2>1. p.at = "query" /\ "session" \in p.held
    BY <1>1, <1>5 DEF query, RemoteOK
  <2>2. CASE ok
    <3>1. Step(r, q)
      BY <1>5, <2>2 DEF query
    <3>2. Owner \in People \cup {Nobody} /\ (FirstStands => Owner = first)
      BY OwnerIs DEF RoutingInv
    <3>3. q \in Remotes /\ q.at = "subscription" /\ q.by = p.by /\ q.held = p.held
          /\ q.sent = p.sent /\ q.answered = p.answered /\ q.counted = p.counted
          /\ q.owner = Owner
      BY <1>1, <3>2 DEF Remotes
    <3> HIDE DEF p, q
    <3> QED
      BY <1>2, <1>3, <2>1, <2>2, <3>1, <3>2, <3>3
  <2>3. CASE ~ok
    BY <1>5, <2>1, <2>3, DenyKeeps DEF query
  <2> QED
    BY <2>2, <2>3
<1>6. CASE subscription(r)
  <2> DEFINE q == [p EXCEPT !.at = "get"]
  <2>1. p.at = "subscription" /\ {"session", "bound", "app"} \subseteq p.held
        /\ ("displaced" \in p.held \/ p.owner = first) /\ p.owner # Nobody
    BY <1>1, <1>6 DEF subscription, RemoteOK
  <2>2. CASE p.owner \in paying
    <3>1. Step(r, q)
      BY <1>6, <2>2 DEF subscription, subscriptionActive
    <3>2. q \in Remotes /\ q.at = "get" /\ q.by = p.by /\ q.held = p.held /\ q.sent = p.sent
          /\ q.answered = p.answered /\ q.counted = p.counted /\ q.owner = p.owner
      BY <1>1 DEF Remotes
    <3> HIDE DEF p, q
    <3> QED
      BY <1>2, <1>3, <2>1, <2>2, <3>1, <3>2
  <2>3. CASE p.owner \notin paying
    BY <1>6, <2>1, <2>3, DenyKeeps DEF subscription, subscriptionActive
  <2> QED
    BY <2>2, <2>3
<1>7. CASE get(r)
  <2> DEFINE q == [p EXCEPT !.at = "proxy"]
  <2>1. p.at = "get" /\ {"session", "bound", "app"} \subseteq p.held
        /\ ("displaced" \in p.held \/ "paid" \in p.held)
        /\ ("displaced" \in p.held \/ p.owner = first) /\ p.owner # Nobody
    BY <1>1, <1>7 DEF get, RemoteOK
  <2>2. CASE live
    <3>1. Step(r, q)
      BY <1>7, <2>2 DEF get
    <3>2. q \in Remotes /\ q.at = "proxy" /\ q.by = p.by /\ q.held = p.held /\ q.sent = p.sent
          /\ q.answered = p.answered /\ q.counted = p.counted /\ q.owner = p.owner
      BY <1>1 DEF Remotes
    <3> HIDE DEF p, q
    <3> QED
      BY <1>2, <1>3, <2>1, <2>2, <3>1, <3>2
  <2>3. CASE ~live
    BY <1>7, <2>1, <2>3, DenyKeeps DEF get
  <2> QED
    BY <2>2, <2>3
<1>8. CASE proxyServes(r) \/ proxyAborts(r)
  <2>1. p.at = "proxy"
    BY <1>8 DEF proxyServes, proxyAborts
  <2>2. Access \subseteq p.held /\ ("displaced" \in p.held \/ "paid" \in p.held)
    BY <1>1, <2>1 DEF RemoteOK, Access
  <2>3. PICK f \in {finish(p), p} : Step(r, [f EXCEPT !.at = "done", !.sent = TRUE])
    BY <1>8 DEF proxyServes, proxyAborts
  <2>4. f \in Remotes /\ f.by = p.by /\ f.owner = p.owner /\ f.held = p.held
        /\ f.counted = IF f.answered THEN 1 ELSE 0
    BY <1>1, FinishIs DEF RemoteOK
  <2> DEFINE q == [f EXCEPT !.at = "done", !.sent = TRUE]
  <2>5. q \in Remotes /\ q.at = "done" /\ q.sent /\ q.by = p.by /\ q.owner = p.owner
        /\ q.held = p.held /\ q.counted = IF q.answered THEN 1 ELSE 0
    BY <2>4 DEF Remotes
  <2>6. p.by \in People /\ (p.owner # Nobody => "displaced" \in p.held \/ p.owner = first)
    BY <1>2, <2>1
  <2> HIDE DEF p, q
  <2>7. RemoteOK(q)
    BY <2>2, <2>5, <2>6 DEF RemoteOK
  <2> QED
    BY <2>3, <2>5, <2>7, StepKeeps DEF q
<1>9. CASE proxyFails(r)
  <2> DEFINE q == [finish(p) EXCEPT !.at = "failed"]
  <2>1. p.at = "proxy" /\ Step(r, q)
    BY <1>9 DEF proxyFails
  <2>2. /\ finish(p) \in Remotes /\ finish(p).answered /\ finish(p).counted = 1
        /\ finish(p).by = p.by /\ finish(p).owner = p.owner /\ finish(p).sent = p.sent
        /\ finish(p).held = p.held
    BY <1>1, FinishIs DEF RemoteOK
  <2>3. q \in Remotes /\ q.at = "failed" /\ q.by = p.by /\ q.owner = p.owner
        /\ q.held = p.held /\ q.sent = p.sent /\ q.answered /\ q.counted = 1
    BY <2>2 DEF Remotes
  <2>4. /\ p.by \in People /\ ~p.sent /\ (p.owner # Nobody => "displaced" \in p.held \/ p.owner = first)
        /\ Good[p.by] \subseteq p.held
    BY <1>1, <2>1 DEF RemoteOK
  <2> HIDE DEF p, q
  <2>5. RemoteOK(q)
    BY <2>3, <2>4 DEF RemoteOK
  <2> QED
    BY <2>1, <2>3, <2>5, StepKeeps
<1>10. CASE proxyReturns(r)
  BY <1>10, DenyKeeps DEF proxyReturns, deny
<1> QED
  BY <1>4, <1>5, <1>6, <1>7, <1>8, <1>9, <1>10 DEF remoteRequest

(* A request arrives; what is true at that instant is noted. *)
LEMMA ArriveKeeps ==
  ASSUME RoutingInv, NEW r \in Remote, NEW u \in People, arrive(r, u)
  PROVE  RoutingInv'
<1> DEFINE p == remote[r]
           q == [p EXCEPT !.at = "lookup", !.by = u, !.held = Good[u]]
<1>1. p \in Remotes /\ RemoteOK(p) /\ p.at = "new" /\ Step(r, q)
  BY DEF RoutingInv, RoutingTypeOK, arrive
<1>2. Good[u] \subseteq AllGood
  BY GoodIs
<1>3. q \in Remotes /\ q.at = "lookup" /\ q.by = u /\ q.held = Good[u] /\ q.owner = p.owner
      /\ q.sent = p.sent /\ q.answered = p.answered /\ q.counted = p.counted
  BY <1>1, <1>2 DEF Remotes, AllGood, Access
<1>4. p.owner = Nobody /\ ~p.sent /\ p.counted = IF p.answered THEN 1 ELSE 0
  BY <1>1 DEF RemoteOK
<1> HIDE DEF p, q
<1>5. RemoteOK(q)
  BY <1>3, <1>4 DEF RemoteOK
<1> QED
  BY <1>1, <1>3, <1>5, StepKeeps

-----------------------------------------------------------------------------

(* The inductive invariant. *)
LEMMA RoutingSpecInv == RoutingSpec => []RoutingInv
<1>1. RoutingInv /\ [RoutingNext]_routingVars => RoutingInv'
  <2> SUFFICES ASSUME RoutingInv, [RoutingNext]_routingVars PROVE RoutingInv'
    OBVIOUS
  <2>1. CASE UNCHANGED routingVars
    <3>1. RoutingTypeOK' /\ FirstRow'
      BY <2>1 DEF routingVars, RoutingInv, RoutingTypeOK, FirstRow
    <3>2. Good' = Good
      BY <2>1 DEF routingVars, Good, Bound, FirstStands
    <3>3. \A r \in Remote : RemoteOK(remote[r])'
      BY <2>1, <3>2 DEF routingVars, RoutingInv, RemoteOK
    <3> QED
      BY <3>1, <3>3 DEF RoutingInv
  <2> QED
    BY <2>1, WorldKeeps, ArriveKeeps, RequestKeeps DEF RoutingNext
<1> QED
  BY <1>1, RoutingInitInv, PTL DEF RoutingSpec

(* The rows, the requests and the samples keep their types; in particular  *)
(* an account has one row on a PC and a request leaves one sample at most  *)
(* (routing.go:47-60).                                                     *)
THEOREM RoutingTyped == RoutingSpec => []RoutingTypeOK
BY RoutingSpecInv, PTL DEF RoutingInv

(* routing.go remoteRequest: whatever changes between its reads, nothing   *)
(* is sent to the PC for a caller unless the session, the binding, the     *)
(* application and the tunnel were each good at some instant since it      *)
(* asked, and the first admin's subscription too unless the first admin    *)
(* was gone or a guest at some instant since.                              *)
THEOREM SentAllowed == RoutingSpec => []SentWasAllowed
<1>1. RoutingInv => SentWasAllowed
  BY DEF RoutingInv, RemoteOK, Access, SentWasAllowed
<1> QED
  BY <1>1, RoutingSpecInv, PTL

(* routing.go:95-106: in whatever order people are admitted, revoked,      *)
(* admitted again with another role and deleted, the subscription a        *)
(* request asks for is the first admin's, unless that admin's row was gone *)
(* or said guest at some instant since the request arrived.                *)
THEOREM FirstPays == RoutingSpec => []FirstAdminAsked
<1>1. RoutingInv => FirstAdminAsked
  BY DEF RoutingInv, RemoteOK, FirstAdminAsked
<1> QED
  BY <1>1, RoutingSpecInv, PTL
-----------------------------------------------------------------------------
(* Migrations *)

(* Which version an instance works on. *)
DoingOK ==
  \A i \in Instances :
    IF runner[i].at \in {"row", "commit"} THEN runner[i].doing \in All ELSE runner[i].doing = 0

(* While nobody has lost the lock, whoever works holds it, what it read is *)
(* still what is recorded, and it works on the next version.               *)
LockHeld ==
  ~broken => \A i \in Instances :
    /\ runner[i].at \notin {"off", "lock"} => holder = i
    /\ runner[i].at \in {"loop", "row", "commit"} => runner[i].applied = recorded
    /\ runner[i].at \in {"row", "commit"} => IsNext(i, runner[i].doing)

MigrationInv == MigrationTypeOK /\ DoingOK /\ RecordedIsDone /\ LockHeld /\ NoGaps

LEMMA MigrationInitInv == MigrationInit => MigrationInv
<1> SUFFICES ASSUME MigrationInit PROVE MigrationInv
  OBVIOUS
<1> USE DEF MigrationInit
<1>1. Off \in Runner /\ Off.at = "off" /\ Off.doing = 0
  BY MigrationAssumption DEF Off, Runner
<1>2. MigrationTypeOK /\ DoingOK
  BY <1>1 DEF MigrationTypeOK, DoingOK
<1>3. RecordedIsDone /\ LockHeld /\ NoGaps
  BY <1>1 DEF RecordedIsDone, LockHeld, NoGaps
<1> QED
  BY <1>2, <1>3 DEF MigrationInv

(* An instance that moves without touching the schema: what it is asked to *)
(* keep.                                                                   *)
LEMMA RunnerMoves ==
  ASSUME MigrationInv, NEW i \in Instances, NEW q \in Runner, Run(i, q),
         UNCHANGED <<schema, recorded>>,
         broken' \in BOOLEAN, broken => broken', holder' \in Instances \cup {NoInstance},
         IF q.at \in {"row", "commit"} THEN q.doing \in All ELSE q.doing = 0,
         ~broken' =>
           /\ \A j \in Instances \ {i} : holder = j => holder' = j
           /\ q.at \notin {"off", "lock"} => holder' = i
           /\ q.at \in {"loop", "row", "commit"} => q.applied = recorded
           /\ q.at \in {"row", "commit"} =>
                LET rest == IF q.way = "up" THEN All \ q.applied ELSE q.applied
                IN /\ q.doing \in rest
                   /\ \A w \in rest : IF q.way = "up" THEN q.doing <= w ELSE q.doing >= w
  PROVE  MigrationInv'
<1>1. runner' = [runner EXCEPT ![i] = q]
  BY DEF Run
<1>2. runner'[i] = q /\ \A j \in Instances \ {i} : runner'[j] = runner[j]
  BY <1>1 DEF MigrationInv, MigrationTypeOK
<1>3. MigrationTypeOK'
  BY <1>1 DEF MigrationInv, MigrationTypeOK
<1>4. DoingOK'
  BY <1>2 DEF MigrationInv, DoingOK
<1>5. LockHeld'
  <2> SUFFICES ASSUME ~broken', NEW j \in Instances
               PROVE  /\ runner'[j].at \notin {"off", "lock"} => holder' = j
                      /\ runner'[j].at \in {"loop", "row", "commit"} => runner'[j].applied = recorded'
                      /\ runner'[j].at \in {"row", "commit"} => IsNext(j, runner[j].doing)'
    BY DEF LockHeld
  <2>1. CASE j = i
    BY <1>2, <2>1 DEF IsNext, Rest
  <2>2. CASE j # i
    BY <1>2, <2>2 DEF MigrationInv, LockHeld, IsNext, Rest
  <2> QED
    BY <2>1, <2>2
<1>6. RecordedIsDone' /\ NoGaps'
  BY DEF MigrationInv, RecordedIsDone, NoGaps
<1> QED
  BY <1>3, <1>4, <1>5, <1>6 DEF MigrationInv

(* A version that is committed is the lowest that was missing, or the      *)
(* highest that was there.                                                 *)
LEMMA CommitKeeps ==
  ASSUME MigrationInv, NEW i \in Instances, commitMigration(i)
  PROVE  MigrationInv'
<1> DEFINE v == runner[i].doing
           q == [runner[i] EXCEPT !.at = "loop", !.applied = Apply(runner[i].applied, i), !.doing = 0]
<1>1. /\ runner[i].at = "commit" /\ v \in All /\ Versions \in Nat
      /\ runner[i] \in Runner /\ runner[i].way \in {"up", "down"}
  BY MigrationAssumption DEF commitMigration, MigrationInv, MigrationTypeOK, DoingOK, Runner
<1>2. /\ schema' = Apply(schema, i) /\ recorded' = Apply(recorded, i)
      /\ runner' = [runner EXCEPT ![i] = q] /\ UNCHANGED <<holder, broken>>
  BY DEF commitMigration, Run
<1>3. q \in Runner /\ q.at = "loop" /\ q.applied = Apply(runner[i].applied, i) /\ q.doing = 0
  <2>1. Apply(runner[i].applied, i) \subseteq All
    BY <1>1 DEF Runner, Apply
  <2>2. 0 \in 0..Versions
    BY <1>1
  <2> QED
    BY <1>1, <2>1, <2>2 DEF Runner
<1>4. runner'[i] = q /\ \A j \in Instances \ {i} : runner'[j] = runner[j]
  BY <1>2 DEF MigrationInv, MigrationTypeOK
<1> HIDE DEF q
<1>5. MigrationTypeOK'
  BY <1>1, <1>2, <1>3 DEF MigrationInv, MigrationTypeOK, Apply
<1>6. DoingOK' /\ RecordedIsDone'
  BY <1>2, <1>3, <1>4 DEF MigrationInv, DoingOK, RecordedIsDone, Apply
<1>7. LockHeld'
  BY <1>1, <1>2, <1>3, <1>4 DEF MigrationInv, LockHeld, Apply
<1>8. NoGaps'
  <2> SUFFICES ASSUME ~broken, NEW w \in recorded', NEW x \in 1..w PROVE x \in recorded'
    BY <1>2 DEF NoGaps
  <2>1. runner[i].applied = recorded /\ IsNext(i, v) /\ \A y \in recorded : 1..y \subseteq recorded
    BY <1>1 DEF MigrationInv, LockHeld, NoGaps
  <2>2. recorded \subseteq All
    BY DEF MigrationInv, MigrationTypeOK
  <2>3. CASE runner[i].way = "up"
    <3>1. recorded' = recorded \cup {v} /\ \A y \in All \ recorded : v <= y
      BY <1>2, <2>1, <2>3 DEF Apply, IsNext, Rest
    <3>2. CASE w \in recorded
      BY <2>1, <3>1, <3>2
    <3>3. CASE w = v
      BY <1>1, <3>1, <3>3 DEF All
    <3> QED
      BY <3>1, <3>2, <3>3
  <2>4. CASE runner[i].way = "down"
    <3>1. recorded' = recorded \ {v} /\ \A y \in recorded : v >= y
      BY <1>2, <2>1, <2>4 DEF Apply, IsNext, Rest
    <3> QED
      BY <1>1, <2>1, <2>2, <3>1 DEF All
  <2> QED
    BY <1>1, <2>3, <2>4
<1> QED
  BY <1>5, <1>6, <1>7, <1>8 DEF MigrationInv

(* Every step of the runner. *)
LEMMA MigrationNextInv == MigrationInv /\ [MigrationNext]_migrationVars => MigrationInv'
<1> SUFFICES ASSUME MigrationInv, [MigrationNext]_migrationVars PROVE MigrationInv'
  OBVIOUS
<1>0. /\ MigrationTypeOK /\ DoingOK /\ LockHeld
      /\ \A i \in Instances : runner[i] \in Runner /\ runner[i].way \in {"up", "down"}
      /\ \A i \in Instances : i # NoInstance
  BY MigrationAssumption DEF MigrationInv, MigrationTypeOK, Runner
<1>off. Off \in Runner /\ Off.at = "off" /\ Off.doing = 0
  BY MigrationAssumption DEF Off, Runner
<1>1. CASE UNCHANGED migrationVars
  BY <1>1 DEF migrationVars, MigrationInv, MigrationTypeOK, DoingOK, RecordedIsDone, LockHeld,
              NoGaps, IsNext, Rest
<1>2. ASSUME NEW i \in Instances, NEW way \in {"up", "down"}, migrateStart(i, way)
      PROVE  MigrationInv'
  <2> DEFINE q == [Off EXCEPT !.at = "lock", !.way = way]
  <2>1. q \in Runner /\ q.at = "lock" /\ q.doing = 0
    BY <1>off DEF Off, Runner
  <2>2. Run(i, q) /\ UNCHANGED <<schema, recorded, holder, broken>>
    BY <1>2 DEF migrateStart
  <2> HIDE DEF q
  <2> QED
    BY <1>0, <2>1, <2>2, RunnerMoves DEF MigrationTypeOK
<1>3. ASSUME NEW i \in Instances, withMigrationLock(i) PROVE MigrationInv'
  <2> DEFINE q == [runner[i] EXCEPT !.at = "read"]
  <2>1. q \in Runner /\ q.at = "read" /\ q.doing = 0
    BY <1>0, <1>3 DEF Runner, DoingOK, withMigrationLock
  <2>2. /\ Run(i, q) /\ UNCHANGED <<schema, recorded, broken>>
        /\ holder = NoInstance /\ holder' = i
    BY <1>3 DEF withMigrationLock
  <2> HIDE DEF q
  <2> QED
    BY <1>0, <2>1, <2>2, RunnerMoves DEF MigrationTypeOK
<1>4. ASSUME NEW i \in Instances, appliedVersions(i) PROVE MigrationInv'
  <2> DEFINE q == [runner[i] EXCEPT !.at = "loop", !.applied = recorded]
  <2>1. q \in Runner /\ q.at = "loop" /\ q.doing = 0 /\ q.applied = recorded
    BY <1>0, <1>4 DEF Runner, DoingOK, appliedVersions, MigrationTypeOK
  <2>2. /\ Run(i, q) /\ UNCHANGED <<schema, recorded, broken, holder>>
        /\ ~broken => holder = i
    BY <1>0, <1>4 DEF appliedVersions, LockHeld
  <2> HIDE DEF q
  <2> QED
    BY <1>0, <2>1, <2>2, RunnerMoves DEF MigrationTypeOK
<1>5. ASSUME NEW i \in Instances, runner[i].at = "loop",
             Run(i, [runner[i] EXCEPT !.at = "unlock"]),
             UNCHANGED <<schema, recorded, holder, broken>>
      PROVE  MigrationInv'
  <2> DEFINE q == [runner[i] EXCEPT !.at = "unlock"]
  <2>1. q \in Runner /\ q.at = "unlock" /\ q.doing = 0
    BY <1>0, <1>5 DEF Runner, DoingOK
  <2>2. Run(i, q) /\ (~broken => holder = i)
    BY <1>0, <1>5 DEF LockHeld
  <2> HIDE DEF q
  <2> QED
    BY <1>0, <1>5, <2>1, <2>2, RunnerMoves DEF MigrationTypeOK
<1>6. ASSUME NEW i \in Instances, NEW v \in All, execMigration(i, v) PROVE MigrationInv'
  <2> DEFINE q == [runner[i] EXCEPT !.at = "row", !.doing = v]
  <2>1. CASE (v \in schema) = (runner[i].way = "up")
    BY <1>5, <1>6, <2>1 DEF execMigration
  <2>2. CASE ~((v \in schema) = (runner[i].way = "up"))
    <3>1. /\ Run(i, q) /\ UNCHANGED <<schema, recorded, holder, broken>>
          /\ runner[i].at = "loop" /\ IsNext(i, v)
      BY <1>6, <2>2 DEF execMigration
    <3>2. q \in Runner /\ q.at = "row" /\ q.doing = v /\ q.applied = runner[i].applied
          /\ q.way = runner[i].way
      <4>1. v \in 0..Versions
        BY MigrationAssumption DEF All
      <4> QED
        BY <1>0, <4>1 DEF Runner
    <3>3. ~broken => holder = i /\ runner[i].applied = recorded
      BY <1>0, <3>1 DEF LockHeld
    <3>4. LET rest == IF q.way = "up" THEN All \ q.applied ELSE q.applied
          IN /\ q.doing \in rest
             /\ \A w \in rest : IF q.way = "up" THEN q.doing <= w ELSE q.doing >= w
      BY <3>1, <3>2 DEF IsNext, Rest
    <3> HIDE DEF q
    <3> QED
      BY <1>0, <3>1, <3>2, <3>3, <3>4, RunnerMoves DEF MigrationTypeOK
  <2> QED
    BY <2>1, <2>2
<1>7. ASSUME NEW i \in Instances, migrateDone(i) PROVE MigrationInv'
  BY <1>5, <1>7 DEF migrateDone
<1>8. ASSUME NEW i \in Instances, recordVersion(i) PROVE MigrationInv'
  <2> DEFINE q == [runner[i] EXCEPT !.at = "commit"]
  <2>1. /\ Run(i, q) /\ UNCHANGED <<schema, recorded, holder, broken>> /\ runner[i].at = "row"
    BY <1>8 DEF recordVersion
  <2>2. /\ q \in Runner /\ q.at = "commit" /\ q.doing = runner[i].doing
        /\ q.applied = runner[i].applied /\ q.way = runner[i].way
    BY <1>0 DEF Runner
  <2>3. q.doing \in All
    BY <1>0, <2>1, <2>2 DEF DoingOK
  <2>4. ~broken => holder = i /\ q.applied = recorded /\ IsNext(i, q.doing)
    BY <1>0, <2>1, <2>2 DEF LockHeld
  <2>5. ~broken =>
          LET rest == IF q.way = "up" THEN All \ q.applied ELSE q.applied
          IN /\ q.doing \in rest
             /\ \A w \in rest : IF q.way = "up" THEN q.doing <= w ELSE q.doing >= w
    BY <2>2, <2>4 DEF IsNext, Rest
  <2> HIDE DEF q
  <2> QED
    BY <1>0, <2>1, <2>2, <2>3, <2>4, <2>5, RunnerMoves DEF MigrationTypeOK
<1>9. ASSUME NEW i \in Instances, unlockMigration(i) \/ instanceDies(i) PROVE MigrationInv'
  <2>1. /\ Run(i, Off) /\ UNCHANGED <<schema, recorded, broken>>
        /\ holder' = IF holder = i THEN NoInstance ELSE holder
    BY <1>9 DEF unlockMigration, instanceDies
  <2> QED
    BY <1>0, <1>off, <2>1, RunnerMoves DEF MigrationTypeOK
<1>10. ASSUME NEW i \in Instances, lockLost(i) PROVE MigrationInv'
  BY <1>10 DEF lockLost, MigrationInv, MigrationTypeOK, DoingOK, RecordedIsDone, LockHeld, NoGaps
<1> QED
  BY <1>1, <1>2, <1>3, <1>4, <1>6, <1>7, <1>8, <1>9, <1>10, CommitKeeps
  DEF MigrationNext, migrate

LEMMA MigrationSpecInv == MigrationSpec => []MigrationInv
BY MigrationInitInv, MigrationNextInv, PTL DEF MigrationSpec

(* The instances, the lock and the recorded versions keep their types. *)
THEOREM MigrationsTyped == MigrationSpec => []MigrationTypeOK
BY MigrationSpecInv, PTL DEF MigrationInv

(* migrate.go: for any number of instances, versions, reversals and        *)
(* crashes a version is recorded exactly when the schema has it, and as    *)
(* long as nobody loses the advisory lock what is recorded has no gap.     *)
THEOREM SchemaStaysSound == MigrationSpec => []SchemaSound
<1>1. MigrationInv => SchemaSound
  BY DEF MigrationInv, SchemaSound
<1> QED
  BY <1>1, MigrationSpecInv, PTL

-----------------------------------------------------------------------------
(* DeviceNonces *)

(* The life of a nonce outlasts every copy that can still be accepted: one *)
(* that was verified in time and takes Lag to its claim.                   *)
LifeSuffices == ClockSkew + Ahead + Lag < NonceTTL

Copy == [at : {"new", "delete", "claim", "accepted", "refused"}, since : 0..MaxClock]

(* A copy on its way was verified within ClockSkew of the stamp, no longer *)
(* than Lag ago. *)
PendingOK ==
  \A d \in Copies : Pending(d) =>
    /\ copy[d].since - stamp <= ClockSkew
    /\ copy[d].since <= clock
    /\ clock - copy[d].since <= Lag

(* Once a copy was accepted, the row is there, or it is later than any     *)
(* copy on its way can be.                                                 *)
RowOutlives ==
  (\E d \in Copies : copy[d].at = "accepted") =>
    expires >= ClockSkew + NonceTTL \/ clock >= ClockSkew + NonceTTL

NonceInv ==
  /\ NonceTypeOK
  /\ ClockSkew <= clock /\ stamp <= ClockSkew + Ahead
  /\ PendingOK /\ RowOutlives /\ AcceptedOnce

LEMMA NonceInitInv == NonceInit => NonceInv
<1> SUFFICES ASSUME NonceInit PROVE NonceInv
  OBVIOUS
<1> USE NonceAssumption DEF NonceInit
<1>1. NonceTypeOK
  BY DEF NonceTypeOK
<1>2. PendingOK /\ RowOutlives /\ AcceptedOnce
  BY DEF PendingOK, Pending, RowOutlives, AcceptedOnce
<1> QED
  BY <1>1, <1>2 DEF NonceInv

LEMMA NonceNextInv ==
  ASSUME LifeSuffices
  PROVE  NonceInv /\ [NonceNext]_nonceVars => NonceInv'
<1> SUFFICES ASSUME NonceInv, [NonceNext]_nonceVars PROVE NonceInv'
  OBVIOUS
<1>0. /\ clock \in Nat /\ clock <= MaxClock /\ stamp \in Int /\ expires \in Nat
      /\ expires <= MaxClock + NonceTTL /\ copy \in [Copies -> Copy]
      /\ \A d \in Copies : copy[d].since \in Nat /\ copy[d].at \in {"new", "delete", "claim", "accepted", "refused"}
      /\ ClockSkew <= clock /\ stamp <= ClockSkew + Ahead
      /\ PendingOK /\ RowOutlives /\ AcceptedOnce
  BY NonceAssumption DEF NonceInv, NonceTypeOK, Copy
<1> USE NonceAssumption
<1>1. CASE UNCHANGED nonceVars
  BY <1>1 DEF nonceVars, NonceInv, NonceTypeOK, PendingOK, Pending, RowOutlives, AcceptedOnce
<1>2. CASE NonceTick
  <2>1. clock' = clock + 1 /\ clock < MaxClock /\ UNCHANGED <<stamp, expires, copy>>
    BY <1>2 DEF NonceTick
  <2>2. PendingOK'
    BY <1>0, <1>2, <2>1 DEF NonceTick, PendingOK, Pending
  <2>3. RowOutlives' /\ AcceptedOnce'
    BY <1>0, <2>1 DEF RowOutlives, AcceptedOnce
  <2> QED
    BY <1>0, <2>1, <2>2, <2>3 DEF NonceInv, NonceTypeOK, Copy
<1>3. ASSUME NEW d \in Copies, NEW q \in Copy, copy' = [copy EXCEPT ![d] = q],
             UNCHANGED <<clock, stamp>>,
             q.at \in {"delete", "claim"} =>
               q.since - stamp <= ClockSkew /\ q.since <= clock /\ clock - q.since <= Lag
      PROVE  /\ copy' \in [Copies -> Copy] /\ PendingOK'
             /\ copy'[d] = q /\ \A o \in Copies \ {d} : copy'[o] = copy[o]
  BY <1>0, <1>3 DEF PendingOK, Pending
<1>4. ASSUME NEW d \in Copies, Verify(d) PROVE NonceInv'
  <2> DEFINE late == clock - stamp > ClockSkew \/ stamp - clock > ClockSkew
             q == [at |-> IF late THEN "refused" ELSE "delete", since |-> clock]
  <2>1. copy' = [copy EXCEPT ![d] = q] /\ UNCHANGED <<clock, stamp, expires>>
    BY <1>4 DEF Verify
  <2>2. q \in Copy
    BY <1>0 DEF Copy
  <2>3. q.at # "accepted" /\ q.since = clock /\ (q.at \in {"delete", "claim"} => ~late)
    OBVIOUS
  <2> HIDE DEF q
  <2>4. /\ copy' \in [Copies -> Copy] /\ PendingOK'
        /\ copy'[d] = q /\ \A o \in Copies \ {d} : copy'[o] = copy[o]
    <3>1. q.at \in {"delete", "claim"} =>
            q.since - stamp <= ClockSkew /\ q.since <= clock /\ clock - q.since <= Lag
      BY <1>0, <2>3
    <3> QED
      BY <1>3, <2>1, <2>2, <3>1
  <2>5. RowOutlives' /\ AcceptedOnce'
    BY <1>0, <2>1, <2>3, <2>4 DEF RowOutlives, AcceptedOnce
  <2> QED
    BY <1>0, <2>1, <2>4, <2>5 DEF NonceInv, NonceTypeOK, Copy
<1>5. ASSUME NEW d \in Copies, DeleteExpired(d) PROVE NonceInv'
  <2> DEFINE q == [copy[d] EXCEPT !.at = "claim"]
  <2>1. /\ copy[d].at = "delete" /\ copy' = [copy EXCEPT ![d] = q] /\ UNCHANGED <<clock, stamp>>
        /\ expires' = IF expires <= clock THEN 0 ELSE expires
    BY <1>5 DEF DeleteExpired
  <2>2. q \in Copy /\ q.at = "claim" /\ q.since = copy[d].since
    BY <1>0 DEF Copy
  <2> HIDE DEF q
  <2>3. /\ copy' \in [Copies -> Copy] /\ PendingOK'
        /\ copy'[d] = q /\ \A o \in Copies \ {d} : copy'[o] = copy[o]
    BY <1>0, <1>3, <2>1, <2>2 DEF PendingOK, Pending
  <2>4. RowOutlives' /\ AcceptedOnce'
    BY <1>0, <2>1, <2>2, <2>3 DEF RowOutlives, AcceptedOnce
  <2> QED
    BY <1>0, <2>1, <2>3, <2>4 DEF NonceInv, NonceTypeOK, Copy
<1>6. ASSUME NEW d \in Copies, Claim(d) PROVE NonceInv'
  <2>1. copy[d].at = "claim" /\ UNCHANGED <<clock, stamp>>
    BY <1>6 DEF Claim
  <2>2. clock <= 2 * ClockSkew + Ahead + Lag
    BY <1>0, <2>1 DEF PendingOK, Pending
  <2>3. clock < ClockSkew + NonceTTL
    BY <1>0, <2>2 DEF LifeSuffices
  <2>4. CASE expires = 0
    <3> DEFINE q == [copy[d] EXCEPT !.at = "accepted"]
    <3>1. copy' = [copy EXCEPT ![d] = q] /\ expires' = clock + NonceTTL
      BY <1>6, <2>4 DEF Claim
    <3>2. q \in Copy /\ q.at = "accepted"
      BY <1>0 DEF Copy
    <3> HIDE DEF q
    <3>3. /\ copy' \in [Copies -> Copy] /\ PendingOK'
          /\ copy'[d] = q /\ \A o \in Copies \ {d} : copy'[o] = copy[o]
      BY <1>0, <1>3, <2>1, <3>1, <3>2
    <3>4. \A o \in Copies : copy[o].at # "accepted"
      BY <1>0, <2>3, <2>4 DEF RowOutlives
    <3>5. RowOutlives' /\ AcceptedOnce'
      BY <1>0, <2>1, <3>1, <3>3, <3>4 DEF RowOutlives, AcceptedOnce
    <3> QED
      BY <1>0, <2>1, <3>1, <3>3, <3>5 DEF NonceInv, NonceTypeOK, Copy
  <2>5. CASE expires # 0
    <3> DEFINE q == [copy[d] EXCEPT !.at = "refused"]
    <3>1. copy' = [copy EXCEPT ![d] = q] /\ expires' = expires
      BY <1>6, <2>5 DEF Claim
    <3>2. q \in Copy /\ q.at = "refused"
      BY <1>0 DEF Copy
    <3> HIDE DEF q
    <3>3. /\ copy' \in [Copies -> Copy] /\ PendingOK'
          /\ copy'[d] = q /\ \A o \in Copies \ {d} : copy'[o] = copy[o]
      BY <1>0, <1>3, <2>1, <3>1, <3>2
    <3>4. RowOutlives' /\ AcceptedOnce'
      BY <1>0, <2>1, <3>1, <3>2, <3>3 DEF RowOutlives, AcceptedOnce
    <3> QED
      BY <1>0, <2>1, <3>1, <3>3, <3>4 DEF NonceInv, NonceTypeOK, Copy
  <2> QED
    BY <2>4, <2>5
<1> QED
  BY <1>1, <1>2, <1>4, <1>5, <1>6 DEF NonceNext, verifyAgentSignature

LEMMA NonceSpecInv ==
  ASSUME LifeSuffices
  PROVE  NonceSpec => []NonceInv
<1>1. NonceInit => NonceInv
  BY NonceInitInv
<1>2. NonceInv /\ [NonceNext]_nonceVars => NonceInv'
  BY NonceNextInv
<1> QED
  BY <1>1, <1>2, PTL DEF NonceSpec

(* The clocks, the row of the nonce and the copies keep their types.       *)
THEOREM NoncesTyped == NonceSpec => []NonceTypeOK
<1>1. NonceInit => NonceTypeOK
  BY NonceInitInv DEF NonceInv
<1>2. NonceTypeOK /\ [NonceNext]_nonceVars => NonceTypeOK'
  <2> SUFFICES ASSUME NonceTypeOK, [NonceNext]_nonceVars PROVE NonceTypeOK'
    OBVIOUS
  <2> USE NonceAssumption
  <2>1. CASE UNCHANGED nonceVars
    BY <2>1 DEF nonceVars, NonceTypeOK
  <2>2. CASE NonceTick
    BY <2>2 DEF NonceTick, NonceTypeOK
  <2>3. ASSUME NEW d \in Copies, Verify(d) PROVE NonceTypeOK'
    BY <2>3 DEF Verify, NonceTypeOK
  <2>4. ASSUME NEW d \in Copies, DeleteExpired(d) PROVE NonceTypeOK'
    BY <2>4 DEF DeleteExpired, NonceTypeOK
  <2>5. ASSUME NEW d \in Copies, Claim(d) PROVE NonceTypeOK'
    BY <2>5 DEF Claim, NonceTypeOK
  <2> QED
    BY <2>1, <2>2, <2>3, <2>4, <2>5 DEF NonceNext, verifyAgentSignature
<1> QED
  BY <1>1, <1>2, PTL DEF NonceSpec

(* agent.go:14, "a captured request cannot be replayed": however often the *)
(* signed request arrives, it is accepted once, if the agent's clock is    *)
(* ahead by less than what the life of a nonce leaves over the skew and    *)
(* the time a copy may take to its claim.                                  *)
THEOREM AcceptedOnlyOnce ==
  ASSUME LifeSuffices
  PROVE  NonceSpec => []AcceptedOnce
<1>1. NonceInv => AcceptedOnce
  BY DEF NonceInv
<1> QED
  BY <1>1, NonceSpecInv, PTL

-----------------------------------------------------------------------------
(* AppSync *)

(* A push that has not been sent has done nothing, and before its inserts  *)
(* it has inserted nothing; what it deletes is not on its list.            *)
PushOK(q) ==
  /\ q.at \in {"idle", "spawned"} => q = [NoPush EXCEPT !.at = q.at]
  /\ q.at = "sent" => q.deleted = {} /\ q.upserted = {}
  /\ q.at = "delete" => q.targets \cap q.names = {} /\ q.upserted = {}
  /\ q.deleted \cap q.names = {}

(* One that no other crossed has the committed rows to itself: each of its *)
(* statements has done, or has still before it, exactly its part.          *)
CleanOK(q) ==
  /\ q.at = "delete" => q.targets \cup q.deleted = rowsOf \ q.names
  /\ q.at = "insert" => q.deleted = rowsOf \ q.names /\ q.targets \cup q.upserted = q.names
  /\ q.at = "commit" => q.deleted = rowsOf \ q.names /\ q.upserted = q.names

SyncInv ==
  /\ SyncTypeOK
  /\ \A r \in Pushes : PushOK(push[r])
  /\ \A r \in Pushes : push[r].clean =>
       CleanOK(push[r]) /\ \A o \in Pushes \ {r} : ~OnItsWay(o)

LEMMA NoPushIs == NoPush \in Push /\ NoPush.at = "idle" /\ ~NoPush.clean /\ PushOK(NoPush)
BY DEF NoPush, Push, PushOK

LEMMA SyncInitInv == SyncInit => SyncInv
<1> SUFFICES ASSUME SyncInit PROVE SyncInv
  OBVIOUS
<1>1. \A r \in Pushes : push[r] = NoPush
  BY DEF SyncInit
<1> QED
  BY <1>1, NoPushIs DEF SyncInit, SyncInv, SyncTypeOK, PushOK

(* One push moves while the committed rows stay. *)
LEMMA PushMoves ==
  ASSUME SyncInv, NEW r \in Pushes, NEW q \in Push, push' = [push EXCEPT ![r] = q],
         UNCHANGED rowsOf, apps' \subseteq Apps, active' \in BOOLEAN, PushOK(q),
         q.clean => push[r].clean /\ CleanOK(q),
         q.at \notin {"idle", "spawned"} => OnItsWay(r)
  PROVE  SyncInv'
<1>1. push'[r] = q /\ \A o \in Pushes \ {r} : push'[o] = push[o]
  BY DEF SyncInv, SyncTypeOK
<1>2. SyncTypeOK'
  BY <1>1 DEF SyncInv, SyncTypeOK, PushOK
<1>3. \A o \in Pushes : PushOK(push'[o])
  BY <1>1 DEF SyncInv
<1>4. \A o \in Pushes : OnItsWay(o)' => OnItsWay(o)
  BY <1>1 DEF OnItsWay
<1>5. \A o \in Pushes : push'[o].clean =>
        push[o].clean /\ CleanOK(push'[o])
  BY <1>1 DEF SyncInv
<1>6. \A o \in Pushes : push'[o].clean =>
        CleanOK(push[o])' /\ \A x \in Pushes \ {o} : ~OnItsWay(x)'
  BY <1>4, <1>5 DEF SyncInv, CleanOK
<1> QED
  BY <1>2, <1>3, <1>6 DEF SyncInv, PushOK

LEMMA SyncNextInv == SyncInv /\ [SyncNext]_syncVars => SyncInv'
<1> SUFFICES ASSUME SyncInv, [SyncNext]_syncVars PROVE SyncInv'
  OBVIOUS
<1>0. /\ apps \subseteq Apps /\ rowsOf \subseteq Apps /\ active \in BOOLEAN
      /\ push \in [Pushes -> Push]
      /\ \A r \in Pushes : push[r] \in Push /\ PushOK(push[r])
      /\ \A r \in Pushes : push[r].clean =>
           CleanOK(push[r]) /\ \A o \in Pushes \ {r} : ~OnItsWay(o)
  BY DEF SyncInv, SyncTypeOK
<1>1. CASE UNCHANGED syncVars
  BY <1>1 DEF syncVars, SyncInv, SyncTypeOK, PushOK, CleanOK, OnItsWay
<1>2. ASSUME NEW r \in Pushes, push[r].at = "idle", apps' \subseteq Apps,
             push' = [push EXCEPT ![r].at = "spawned"], UNCHANGED <<rowsOf, active>>
      PROVE  SyncInv'
  <2> DEFINE q == [NoPush EXCEPT !.at = "spawned"]
  <2>1. push[r] = NoPush
    BY <1>0, <1>2 DEF PushOK, NoPush
  <2>2. push' = [push EXCEPT ![r] = q]
    BY <1>2, <2>1
  <2>3. q \in Push /\ PushOK(q) /\ ~q.clean /\ q.at = "spawned"
    BY DEF NoPush, Push, PushOK
  <2> HIDE DEF q
  <2> QED
    BY <1>0, <1>2, <2>2, <2>3, PushMoves
<1>3. ASSUME NEW r \in Pushes, pushApps(r) PROVE SyncInv'
  <2> DEFINE alone == ~\E o \in Pushes : OnItsWay(o)
             q == [NoPush EXCEPT !.at = "sent", !.names = apps, !.clean = alone]
  <2>1. /\ push[r].at = "spawned" /\ UNCHANGED <<apps, rowsOf, active>>
        /\ push' = [o \in Pushes |-> IF o = r THEN q ELSE [push[o] EXCEPT !.clean = FALSE]]
    BY <1>3 DEF pushApps
  <2> alone \in BOOLEAN
    OBVIOUS
  <2>3. alone => \A o \in Pushes : ~OnItsWay(o)
    OBVIOUS
  <2> HIDE DEF alone
  <2>2. q \in Push /\ PushOK(q) /\ CleanOK(q) /\ q.clean = alone
    <3>1. NoPush \in Push /\ NoPush.deleted = {} /\ NoPush.upserted = {}
      BY NoPushIs DEF NoPush
    <3>2. /\ q \in Push /\ q.at = "sent" /\ q.names = apps /\ q.clean = alone
          /\ q.deleted = {} /\ q.upserted = {}
      BY <1>0, <3>1 DEF Push
    <3> HIDE DEF q
    <3> QED
      BY <3>2 DEF PushOK, CleanOK
  <2> HIDE DEF q
  <2>4. ASSUME NEW o \in Pushes \ {r}
        PROVE  /\ push'[o] \in Push /\ push'[o].at = push[o].at /\ ~push'[o].clean
               /\ PushOK(push'[o])
    <3>1. push'[o] = [push[o] EXCEPT !.clean = FALSE]
      BY <2>1
    <3>2. CASE push[o].at \in {"idle", "spawned"}
      <4>1. push[o] = [NoPush EXCEPT !.at = push[o].at]
        BY <1>0, <3>2 DEF PushOK
      <4>2. push'[o] = push[o] /\ ~push[o].clean
        BY <3>1, <4>1 DEF NoPush
      <4> QED
        BY <1>0, <4>2
    <3>3. CASE push[o].at \notin {"idle", "spawned"}
      BY <1>0, <3>1, <3>3 DEF Push, PushOK
    <3> QED
      BY <3>2, <3>3
  <2>5. push'[r] = q /\ push' \in [Pushes -> Push]
    BY <2>1, <2>2, <2>4
  <2>6. SyncTypeOK'
    BY <1>0, <2>1, <2>2, <2>4, <2>5 DEF SyncTypeOK, PushOK
  <2>7. \A o \in Pushes : PushOK(push'[o])
    BY <2>2, <2>4, <2>5
  <2>8. ASSUME NEW o \in Pushes, push'[o].clean
        PROVE  CleanOK(push[o])' /\ \A x \in Pushes \ {o} : ~OnItsWay(x)'
    <3>1. o = r /\ \A x \in Pushes : ~OnItsWay(x)
      BY <2>2, <2>3, <2>4, <2>5, <2>8
    <3> QED
      BY <2>1, <2>2, <2>4, <2>5, <3>1 DEF CleanOK, OnItsWay
  <2> QED
    BY <2>6, <2>7, <2>8 DEF SyncInv, PushOK
<1>4. ASSUME NEW r \in Pushes, Tx(r, NoPush) PROVE SyncInv'
  BY <1>0, <1>4, NoPushIs, PushMoves DEF Tx
<1>5. ASSUME NEW r \in Pushes, syncBegin(r) PROVE SyncInv'
  <2> DEFINE p == push[r]
             q == [p EXCEPT !.at = "delete", !.targets = rowsOf \ p.names]
  <2>1. p.at = "sent" /\ p \in Push /\ PushOK(p)
    BY <1>0, <1>5 DEF syncBegin
  <2>2. CASE active
    <3>1. Tx(r, q)
      BY <1>5, <2>2 DEF syncBegin
    <3>2. /\ q \in Push /\ q.at = "delete" /\ q.targets = rowsOf \ p.names
          /\ q.names = p.names /\ q.deleted = p.deleted /\ q.upserted = p.upserted
          /\ q.clean = p.clean
      BY <1>0, <2>1 DEF Push
    <3>3. p.deleted = {} /\ p.upserted = {}
      BY <2>1 DEF PushOK
    <3> HIDE DEF q
    <3>4. PushOK(q) /\ CleanOK(q)
      BY <3>2, <3>3 DEF PushOK, CleanOK
    <3> QED
      BY <1>0, <2>1, <3>1, <3>2, <3>4, PushMoves DEF Tx, OnItsWay
  <2>3. CASE ~active
    BY <1>4, <1>5, <2>3 DEF syncBegin
  <2> QED
    BY <2>2, <2>3
<1>6. ASSUME NEW r \in Pushes, syncDelete(r) PROVE SyncInv'
  <2> DEFINE p == push[r]
  <2>1. p.at = "delete" /\ p \in Push /\ PushOK(p) /\ (p.clean => CleanOK(p))
    BY <1>0, <1>6 DEF syncDelete
  <2>2. CASE p.targets = {}
    <3> DEFINE q == [p EXCEPT !.at = "insert", !.targets = p.names]
    <3>1. Tx(r, q)
      BY <1>6, <2>2 DEF syncDelete
    <3>2. /\ q \in Push /\ q.at = "insert" /\ q.targets = p.names
          /\ q.names = p.names /\ q.deleted = p.deleted /\ q.upserted = p.upserted
          /\ q.clean = p.clean
      BY <1>0, <2>1 DEF Push
    <3> HIDE DEF q, p
    <3>3. PushOK(q) /\ (p.clean => CleanOK(q))
      BY <2>1, <2>2, <3>2 DEF PushOK, CleanOK
    <3> QED
      BY <1>0, <2>1, <3>1, <3>2, <3>3, PushMoves DEF Tx, OnItsWay, p
  <2>3. ASSUME NEW n \in p.targets,
               Tx(r, [p EXCEPT !.targets = p.targets \ {n},
                               !.deleted = IF n \in rowsOf THEN p.deleted \cup {n} ELSE p.deleted])
        PROVE  SyncInv'
    <3> DEFINE q == [p EXCEPT !.targets = p.targets \ {n},
                              !.deleted = IF n \in rowsOf THEN p.deleted \cup {n} ELSE p.deleted]
    <3>1. /\ q.at = "delete" /\ q.targets = p.targets \ {n}
          /\ q.names = p.names /\ q.upserted = p.upserted /\ q.clean = p.clean
          /\ q.deleted = IF n \in rowsOf THEN p.deleted \cup {n} ELSE p.deleted
      BY <2>1 DEF Push
    <3>2. q \in Push
      <4>1. /\ p.targets \ {n} \in SUBSET Apps
            /\ (IF n \in rowsOf THEN p.deleted \cup {n} ELSE p.deleted) \in SUBSET Apps
        BY <2>1 DEF Push
      <4> QED
        BY <2>1, <4>1 DEF Push
    <3>3. Tx(r, q)
      BY <2>3
    <3> HIDE DEF q, p
    <3>4. PushOK(q)
      BY <2>1, <2>3, <3>1 DEF PushOK
    <3>5. p.clean => CleanOK(q)
      BY <2>1, <2>3, <3>1 DEF PushOK, CleanOK
    <3> QED
      BY <1>0, <2>1, <3>1, <3>2, <3>3, <3>4, <3>5, PushMoves DEF Tx, OnItsWay, p
  <2> QED
    BY <1>6, <2>2, <2>3 DEF syncDelete
<1>7. ASSUME NEW r \in Pushes, syncInsert(r) PROVE SyncInv'
  <2> DEFINE p == push[r]
  <2>1. p.at = "insert" /\ p \in Push /\ PushOK(p) /\ (p.clean => CleanOK(p))
    BY <1>0, <1>7 DEF syncInsert
  <2>2. CASE p.targets = {}
    <3> DEFINE q == [p EXCEPT !.at = "commit"]
    <3>1. Tx(r, q)
      BY <1>7, <2>2 DEF syncInsert
    <3>2. /\ q \in Push /\ q.at = "commit" /\ q.targets = p.targets
          /\ q.names = p.names /\ q.deleted = p.deleted /\ q.upserted = p.upserted
          /\ q.clean = p.clean
      BY <1>0, <2>1 DEF Push
    <3> HIDE DEF q, p
    <3>3. PushOK(q) /\ (p.clean => CleanOK(q))
      BY <2>1, <2>2, <3>2 DEF PushOK, CleanOK
    <3> QED
      BY <1>0, <2>1, <3>1, <3>2, <3>3, PushMoves DEF Tx, OnItsWay, p
  <2>3. ASSUME NEW n \in p.targets,
               Tx(r, [p EXCEPT !.targets = p.targets \ {n}, !.upserted = p.upserted \cup {n}])
        PROVE  SyncInv'
    <3> DEFINE q == [p EXCEPT !.targets = p.targets \ {n}, !.upserted = p.upserted \cup {n}]
    <3>1. /\ q \in Push /\ q.at = "insert" /\ q.targets = p.targets \ {n}
          /\ q.names = p.names /\ q.deleted = p.deleted /\ q.upserted = p.upserted \cup {n}
          /\ q.clean = p.clean
      BY <2>1 DEF Push
    <3>2. Tx(r, q)
      BY <2>3
    <3> HIDE DEF q, p
    <3>3. PushOK(q) /\ (p.clean => CleanOK(q))
      BY <2>1, <2>3, <3>1 DEF PushOK, CleanOK
    <3> QED
      BY <1>0, <2>1, <3>1, <3>2, <3>3, PushMoves DEF Tx, OnItsWay, p
  <2> QED
    BY <1>7, <2>2, <2>3 DEF syncInsert
<1>8. ASSUME NEW r \in Pushes, syncCommit(r) PROVE SyncInv'
  <2>1. /\ OnItsWay(r) /\ push' = [push EXCEPT ![r] = NoPush] /\ UNCHANGED <<apps, active>>
        /\ rowsOf' = (rowsOf \ push[r].deleted) \cup push[r].upserted
    BY <1>8 DEF syncCommit, OnItsWay
  <2>2. push'[r] = NoPush /\ \A o \in Pushes \ {r} : push'[o] = push[o] /\ ~push[o].clean
    BY <1>0, <2>1
  <2>3. rowsOf' \subseteq Apps
    BY <1>0, <2>1 DEF Push
  <2>4. \A o \in Pushes : PushOK(push'[o]) /\ ~push'[o].clean /\ push'[o] \in Push
    BY <1>0, <2>2, NoPushIs
  <2>5. push' \in [Pushes -> Push]
    BY <1>0, <2>1, NoPushIs
  <2> QED
    BY <1>0, <2>1, <2>3, <2>4, <2>5 DEF SyncInv, SyncTypeOK, PushOK
<1>9. CASE disableDeviceApps
  BY <1>9 DEF disableDeviceApps, SyncInv, SyncTypeOK, PushOK, CleanOK, OnItsWay
<1>10. ASSUME NEW r \in Pushes, pushAgain(r) \/ syncRollback(r) PROVE SyncInv'
  BY <1>0, <1>2, <1>4, <1>10 DEF pushAgain, syncRollback
<1>11. ASSUME NEW r \in Pushes, NEW list \in SUBSET Apps, setAppsPush(list, r) PROVE SyncInv'
  BY <1>2, <1>11 DEF setAppsPush
<1> QED
  BY <1>1, <1>3, <1>5, <1>6, <1>7, <1>8, <1>9, <1>10, <1>11 DEF SyncNext, syncApps

LEMMA SyncSpecInv == SyncSpec => []SyncInv
BY SyncInitInv, SyncNextInv, PTL DEF SyncSpec

(* The pushes and the rows keep their types; in particular no transaction  *)
(* deletes a name that is on its own list (apps.go:105-116).               *)
THEOREM SyncTyped == SyncSpec => []SyncTypeOK
BY SyncSpecInv, PTL DEF SyncInv

(* apps.go syncApps: a push that no other crossed on its way leaves exactly *)
(* the list it sent, whatever mixture crossing pushes left before, for any *)
(* names and any number of pushes.                                         *)
THEOREM CleanPushReplaces == SyncSpec => []PushReplaces
<1>1. SyncInv => PushReplaces
  <2> SUFFICES ASSUME SyncInv, NEW r \in Pushes, push[r].clean, push[r].at = "commit"
               PROVE  (rowsOf \ push[r].deleted) \cup push[r].upserted = push[r].names
    BY DEF PushReplaces
  <2>1. push[r].deleted = rowsOf \ push[r].names /\ push[r].upserted = push[r].names
    BY DEF SyncInv, CleanOK
  <2> QED
    BY <2>1
<1> QED
  BY <1>1, SyncSpecInv, PTL
-----------------------------------------------------------------------------
(* RateLimiter *)

(* A request does not wait longer than Wait. *)
WaitsOK == \A h \in Hits : hit[h].at = "waits" => time - hit[h].now <= Wait

(* What a key holds was let through, for that key. *)
RecordedOK ==
  \A k \in Clients : \A h \in hits[k] : hit[h].at = "allowed" /\ hit[h].key = k

(* A request that was let through less than a window ago is held. *)
Remembered ==
  \A h \in Hits : hit[h].at = "allowed" /\ hit[h].now + Window > time => h \in hits[hit[h].key]

(* A now that is a window older than the last sweep would be recorded and  *)
(* leave its key idle. *)
SweptOK == Wait < Window => NoIdleKeys

LimiterInv ==
  LimiterTypeOK /\ WaitsOK /\ RecordedOK /\ Remembered /\ LimitHolds /\ SweptOK

LEMMA NoneThrough ==
  ASSUME LimiterTypeOK, NEW k, NEW from \in Int, NEW to \in Int,
         \A h \in Hits : ~(hit[h].at = "allowed" /\ hit[h].now \in from..to)
  PROVE  Cardinality(Through(k, from, to)) <= Limit
<1>1. Through(k, from, to) = {}
  BY DEF Through
<1> QED
  BY <1>1, FS_EmptySet, LimiterAssumption

LEMMA LimiterInitInv == LimiterInit => LimiterInv
<1> SUFFICES ASSUME LimiterInit PROVE LimiterInv
  OBVIOUS
<1> USE LimiterAssumption DEF LimiterInit
<1>1. LimiterTypeOK
  <2>1. Cardinality({}) = 0
    BY FS_EmptySet
  <2> QED
    BY <2>1 DEF LimiterTypeOK
<1>2. \A h \in Hits : hit[h].at = "new"
  OBVIOUS
<1>3. WaitsOK /\ RecordedOK /\ Remembered /\ SweptOK
  BY <1>2 DEF WaitsOK, RecordedOK, Remembered, SweptOK, NoIdleKeys
<1>4. LimitHolds
  BY <1>1, <1>2, NoneThrough DEF LimitHolds
<1> QED
  BY <1>1, <1>3, <1>4 DEF LimiterInv

(* The clock *)
LEMMA TickKeeps == LimiterInv /\ LimiterTick => LimiterInv'
<1> SUFFICES ASSUME LimiterInv, LimiterTick PROVE LimiterInv'
  OBVIOUS
<1> USE LimiterAssumption DEF LimiterInv
<1>1. /\ time \in Nat /\ time' = time + 1 /\ time' \in 0..MaxNow
      /\ hits' = hits /\ lastSweep' = lastSweep /\ hit' = hit
      /\ \A h \in Hits : hit[h].now \in 0..time
  BY DEF LimiterTick, LimiterTypeOK
<1>2. LimiterTypeOK'
  BY <1>1 DEF LimiterTypeOK
<1>3. WaitsOK'
  BY <1>1 DEF LimiterTick, WaitsOK
<1>4. RecordedOK' /\ Remembered' /\ SweptOK'
  BY <1>1 DEF RecordedOK, Remembered, SweptOK, NoIdleKeys
<1>5. LimitHolds'
  <2> SUFFICES ASSUME NEW k \in Clients, NEW from \in 0..(time + 1)
               PROVE  Cardinality(Through(k, from, from + Window - Wait - 1)) <= Limit
    BY <1>1 DEF LimitHolds, Through
  <2>1. CASE from \in 0..time
    BY <2>1 DEF LimitHolds
  <2>2. CASE from = time + 1
    <3>1. from + Window - Wait - 1 \in Int /\ from \in Int
          /\ \A h \in Hits : hit[h].now \notin from..(from + Window - Wait - 1)
      BY <1>1, <2>2
    <3> QED
      BY <3>1, NoneThrough
  <2> QED
    BY <1>1, <2>1, <2>2
<1> QED
  BY <1>2, <1>3, <1>4, <1>5

LEMMA HitFields ==
  ASSUME NEW T, NEW n \in T,
         NEW q \in [at : {"new", "waits", "allowed", "refused"}, key : Clients, now : T]
  PROVE  [q EXCEPT !.at = "waits", !.now = n] \in
           [at : {"new", "waits", "allowed", "refused"}, key : Clients, now : T]
OBVIOUS

(* A request that reads the clock is not let through yet. *)
LEMMA ReadNowKeeps ==
  ASSUME LimiterInv, NEW h \in Hits, readNow(h)
  PROVE  LimiterInv'
<1> USE LimiterAssumption DEF LimiterInv
<1>1. /\ time' = time /\ hits' = hits /\ lastSweep' = lastSweep
      /\ hit' = [hit EXCEPT ![h] = [hit[h] EXCEPT !.at = "waits", !.now = time]]
      /\ hit[h].at = "new" /\ time \in Nat
  BY DEF readNow, LimiterTypeOK
<1>2. LimiterTypeOK'
  <2>1. [hit[h] EXCEPT !.at = "waits", !.now = time] \in
          [at : {"new", "waits", "allowed", "refused"}, key : Clients, now : 0..time]
    <3>1. time \in 0..time
      BY <1>1
    <3> QED
      BY <3>1, HitFields DEF LimiterTypeOK
  <2> QED
    BY <1>1, <2>1 DEF LimiterTypeOK
<1>3. /\ hit'[h].at = "waits" /\ hit'[h].now = time
      /\ \A g \in Hits : g # h => hit'[g] = hit[g]
  BY <1>1 DEF LimiterTypeOK
<1>4. \A g \in Hits : hit'[g].at = "allowed" <=> hit[g].at = "allowed"
  BY <1>1, <1>3
<1>5. \A k \in Clients : hits[k] \subseteq Hits /\ h \notin hits[k]
  BY <1>1 DEF RecordedOK, LimiterTypeOK
<1>6. WaitsOK'
  BY <1>1, <1>3 DEF WaitsOK
<1>7. RecordedOK' /\ Remembered'
  BY <1>1, <1>3, <1>4, <1>5 DEF RecordedOK, Remembered
<1>8. SweptOK'
  BY <1>1, <1>3, <1>5 DEF SweptOK, NoIdleKeys
<1>9. LimitHolds'
  <2>1. ASSUME NEW k \in Clients, NEW from, NEW to
        PROVE  {g \in Hits : hit'[g].at = "allowed" /\ hit'[g].key = k /\ hit'[g].now \in from..to}
                 = Through(k, from, to)
    BY <1>1, <1>3 DEF Through
  <2> QED
    BY <1>1, <2>1 DEF LimitHolds, Through
<1> QED
  BY <1>2, <1>6, <1>7, <1>8, <1>9

(* What allow does: the sweep takes no request that is in the window of    *)
(* now, and of the request's own key no other is left.                     *)
LEMMA AllowIs ==
  ASSUME LimiterInv, NEW h \in Hits, allow(h)
  PROVE  \E k \in Clients, now \in 0..time, a \in {"allowed", "refused"} :
         /\ k = hit[h].key /\ now = hit[h].now /\ hit[h].at = "waits"
         /\ a = "allowed" <=> Cardinality(Kept(hits[k], now)) < Limit
         /\ hits' \in [Clients -> SUBSET Hits]
         /\ hits'[k] = IF a = "allowed" THEN Kept(hits[k], now) \cup {h} ELSE Kept(hits[k], now)
         /\ \A x \in Clients : x # k =>
              \/ hits'[x] = hits[x] /\ (lastSweep' = lastSweep \/ Kept(hits[x], now) # {})
              \/ hits'[x] = {} /\ Kept(hits[x], now) = {}
         /\ \/ lastSweep' = now
            \/ lastSweep' = lastSweep /\ now - lastSweep < Window
         /\ hit' = [hit EXCEPT ![h] = [hit[h] EXCEPT !.at = a]]
         /\ time' = time
<1> USE LimiterAssumption DEF LimiterInv, LimiterTypeOK
<1>0. PICK k, now, a : /\ k = hit[h].key /\ now = hit[h].now
                       /\ a = IF Cardinality(Kept(hits[k], now)) < Limit THEN "allowed" ELSE "refused"
  OBVIOUS
<1>1. k \in Clients /\ now \in 0..time
  BY <1>0
<1>2. /\ sweepLocked(now) \in [Clients -> SUBSET Hits]
      /\ \A x \in Clients : Kept(sweepLocked(now)[x], now) = Kept(hits[x], now)
      /\ \A x \in Clients :
           \/ sweepLocked(now)[x] = hits[x]
                /\ (now - lastSweep < Window \/ Kept(hits[x], now) # {})
           \/ sweepLocked(now)[x] = {} /\ Kept(hits[x], now) = {}
  BY <1>0, <1>1 DEF sweepLocked, Kept
<1>3. Kept(hits[k], now) \subseteq Hits
  BY <1>0, <1>1 DEF Kept
<1>4. hits' = [sweepLocked(now) EXCEPT ![k] = IF a = "allowed" THEN Kept(hits[k], now) \cup {h}
                                                    ELSE Kept(hits[k], now)]
  BY <1>0, <1>1, <1>2 DEF allow
<1>5. /\ hits' \in [Clients -> SUBSET Hits]
      /\ hits'[k] = IF a = "allowed" THEN Kept(hits[k], now) \cup {h} ELSE Kept(hits[k], now)
      /\ \A x \in Clients : x # k => hits'[x] = sweepLocked(now)[x]
  BY <1>1, <1>2, <1>3, <1>4
<1>6. /\ hit[h].at = "waits" /\ time' = time
      /\ lastSweep' = IF now - lastSweep < Window THEN lastSweep ELSE now
  BY <1>0 DEF allow
<1>7. hit' = [hit EXCEPT ![h] = [hit[h] EXCEPT !.at = a]]
  BY <1>0, <1>1, <1>2 DEF allow
<1>8. a \in {"allowed", "refused"} /\ (a = "allowed" <=> Cardinality(Kept(hits[k], now)) < Limit)
  BY <1>0
<1>9. \A x \in Clients : x # k =>
        \/ hits'[x] = hits[x] /\ (lastSweep' = lastSweep \/ Kept(hits[x], now) # {})
        \/ hits'[x] = {} /\ Kept(hits[x], now) = {}
  BY <1>2, <1>5, <1>6
<1>10. \/ lastSweep' = now
       \/ lastSweep' = lastSweep /\ now - lastSweep < Window
  BY <1>6
<1> HIDE DEF LimiterInv, LimiterTypeOK
<1> USE <1>1, <1>8
<1> QED
  <2>1. WITNESS k \in Clients, now \in 0..time, a \in {"allowed", "refused"}
  <2> QED
    BY <1>0, <1>5, <1>6, <1>7, <1>9, <1>10

(* allow *)
LEMMA AllowKeeps ==
  ASSUME LimiterInv, NEW h \in Hits, allow(h)
  PROVE  LimiterInv'
<1>0. PICK k \in Clients, now \in 0..time, a \in {"allowed", "refused"} :
      /\ k = hit[h].key /\ now = hit[h].now /\ hit[h].at = "waits"
      /\ a = "allowed" <=> Cardinality(Kept(hits[k], now)) < Limit
      /\ hits' \in [Clients -> SUBSET Hits]
      /\ hits'[k] = IF a = "allowed" THEN Kept(hits[k], now) \cup {h} ELSE Kept(hits[k], now)
      /\ \A x \in Clients : x # k =>
           \/ hits'[x] = hits[x] /\ (lastSweep' = lastSweep \/ Kept(hits[x], now) # {})
           \/ hits'[x] = {} /\ Kept(hits[x], now) = {}
      /\ \/ lastSweep' = now
         \/ lastSweep' = lastSweep /\ now - lastSweep < Window
      /\ hit' = [hit EXCEPT ![h] = [hit[h] EXCEPT !.at = a]]
      /\ time' = time
  BY AllowIs
<1> USE LimiterAssumption DEF LimiterInv
<1> DEFINE kept == Kept(hits[k], now)
<1>1. /\ time \in Nat /\ now \in Nat /\ now <= time /\ time <= now + Wait
      /\ lastSweep \in Int /\ lastSweep <= time
      /\ \A g \in Hits : hit[g].now \in 0..time /\ hit[g].key \in Clients
      /\ \A x \in Clients : hits[x] \subseteq Hits /\ Cardinality(hits[x]) <= Limit
      /\ hit \in [Hits -> [at : {"new", "waits", "allowed", "refused"}, key : Clients, now : 0..time]]
  BY <1>0 DEF LimiterTypeOK, WaitsOK
<1>2. /\ hit'[h].at = a
      /\ hit'[h].now = now /\ hit'[h].key = k
      /\ \A g \in Hits : g # h => hit'[g] = hit[g]
      /\ \A g \in Hits : hit'[g].now = hit[g].now /\ hit'[g].key = hit[g].key
      /\ hit' \in [Hits -> [at : {"new", "waits", "allowed", "refused"}, key : Clients, now : 0..time]]
  BY <1>0, <1>1
<1>3. \A x \in Clients, g \in Hits : g \in Kept(hits[x], now) <=>
        g \in hits[x] /\ now - hit[g].now < Window
  BY DEF Kept
<1>4. kept \subseteq hits[k] /\ kept \subseteq Hits /\ h \notin hits[k]
  BY <1>0, <1>1 DEF Kept, RecordedOK
<1>5. /\ IsFiniteSet(hits[k]) /\ IsFiniteSet(kept)
      /\ Cardinality(kept) \in Nat /\ Cardinality(kept) <= Limit
      /\ IsFiniteSet(kept \cup {h}) /\ Cardinality(kept \cup {h}) = Cardinality(kept) + 1
  <2>1. IsFiniteSet(hits[k]) /\ Cardinality(hits[k]) \in Nat
    BY <1>0, <1>1, FS_Subset, FS_CardinalityType
  <2>2. IsFiniteSet(kept) /\ Cardinality(kept) \in Nat /\ Cardinality(kept) <= Cardinality(hits[k])
    BY <1>4, <2>1, FS_Subset, FS_CardinalityType
  <2>3. h \notin kept
    BY <1>4
  <2>4. Cardinality(kept \cup {h}) = Cardinality(kept) + 1 /\ IsFiniteSet(kept \cup {h})
    BY <2>2, <2>3, FS_AddElement
  <2> QED
    BY <1>0, <1>1, <2>1, <2>2, <2>4
<1>6. \A x \in Clients : x # k => hits'[x] \subseteq hits[x]
  BY <1>0
<1> HIDE DEF kept
<1>7. /\ hits'[k] = (IF a = "allowed" THEN kept \cup {h} ELSE kept) 
      /\ a \in {"allowed", "refused"} /\ (a = "allowed" <=> Cardinality(kept) < Limit)
  BY <1>0 DEF kept
<1>8. LimiterTypeOK'
  <2>1. ASSUME NEW x \in Clients PROVE Cardinality(hits'[x]) <= Limit
    <3>1. CASE x = k
      BY <1>5, <1>7, <3>1
    <3>2. CASE x # k
      <4>1. Cardinality({}) = 0
        BY FS_EmptySet
      <4>2. hits'[x] = hits[x] \/ hits'[x] = {}
        BY <1>0, <3>2
      <4>3. CASE hits'[x] = hits[x]
        BY <1>1, <4>3
      <4>4. CASE hits'[x] = {}
        BY <4>1, <4>4
      <4> QED
        BY <4>2, <4>3, <4>4
    <3> QED
      BY <3>1, <3>2
  <2>2. lastSweep' \in (-Window)..time
    BY <1>0, <1>1 DEF LimiterTypeOK
  <2> QED
    BY <1>0, <1>2, <2>1, <2>2 DEF LimiterTypeOK
<1>9. WaitsOK'
  BY <1>0, <1>2 DEF WaitsOK
<1>10. RecordedOK'
  <2> SUFFICES ASSUME NEW x \in Clients, NEW g \in hits'[x]
               PROVE  hit'[g].at = "allowed" /\ hit'[g].key = x
    BY DEF RecordedOK
  <2>1. g \in hits[x] => g \in Hits /\ g # h /\ hit[g].at = "allowed" /\ hit[g].key = x
    BY <1>0, <1>1 DEF RecordedOK
  <2>2. g \in hits[x] \/ (x = k /\ g = h /\ a = "allowed")
    BY <1>4, <1>6, <1>7
  <2> QED
    BY <1>2, <2>1, <2>2
<1>11. Remembered'
  <2> SUFFICES ASSUME NEW g \in Hits, hit'[g].at = "allowed", hit'[g].now + Window > time
               PROVE  g \in hits'[hit'[g].key]
    BY <1>0 DEF Remembered
  <2>1. CASE g = h
    BY <1>2, <1>7, <2>1
  <2>2. CASE g # h
    <3> DEFINE x == hit[g].key
    <3>1. g \in hits[x] /\ x \in Clients
      BY <1>1, <1>2, <2>2 DEF Remembered
    <3>2. g \in Kept(hits[x], now)
      BY <1>1, <1>2, <1>3, <3>1
    <3>3. g \in hits'[x]
      BY <1>0, <1>7, <3>1, <3>2 DEF kept
    <3> QED
      BY <1>2, <3>3
  <2> QED
    BY <2>1, <2>2
<1>12. SweptOK'
  <2> SUFFICES ASSUME Wait < Window, NoIdleKeys, NEW x \in Clients, hits'[x] # {}
               PROVE  \E g \in hits'[x] : hit[g].now > lastSweep' - Window
    <3>1. \A x \in Clients : \A g \in hits'[x] : hit'[g].now = hit[g].now
      BY <1>0, <1>2
    <3> QED
      BY <3>1 DEF SweptOK, NoIdleKeys
  <2>1. \A g \in Kept(hits[x], now) : g \in Hits /\ hit[g].now > now - Window
    BY <1>1, <1>3 DEF Kept
  <2>2. CASE x # k /\ Kept(hits[x], now) # {} /\ lastSweep' # lastSweep
    <3>1. hits'[x] = hits[x] /\ lastSweep' = now
      BY <1>0, <2>2
    <3> QED
      BY <2>1, <2>2, <3>1 DEF Kept
  <2>3. CASE x # k /\ lastSweep' = lastSweep
    BY <1>0, <2>3 DEF NoIdleKeys
  <2>4. CASE x # k /\ Kept(hits[x], now) = {} /\ lastSweep' # lastSweep
    BY <1>0, <2>4
  <2>5. CASE x = k /\ a = "allowed"
    <3>1. h \in hits'[x] /\ hit[h].now = now
      BY <1>0, <1>7, <2>5
    <3>2. now > lastSweep' - Window
      BY <1>0, <1>1
    <3> QED
      BY <3>1, <3>2
  <2>6. CASE x = k /\ a = "refused"
    <3>1. hits'[x] = kept /\ kept # {} /\ kept = Kept(hits[x], now)
      BY <1>7, <2>6 DEF kept
    <3>2. CASE lastSweep' <= now
      BY <1>0, <1>1, <2>1, <3>1, <3>2
    <3>3. CASE lastSweep' > now
      <4>1. lastSweep' = lastSweep /\ hits[x] # {}
        BY <1>0, <1>1, <1>4, <2>6, <3>1, <3>3
      <4>2. PICK g \in hits[x] : hit[g].now > lastSweep - Window
        BY <4>1 DEF NoIdleKeys
      <4>3. g \in kept
        BY <1>1, <1>3, <3>1, <3>3, <4>1, <4>2
      <4> QED
        BY <3>1, <4>1, <4>2, <4>3
    <3> QED
      BY <1>0, <1>1, <3>2, <3>3
  <2> QED
    BY <1>7, <2>2, <2>3, <2>4, <2>5, <2>6
<1>13. LimitHolds'
  <2> SUFFICES ASSUME NEW x \in Clients, NEW from \in 0..time
               PROVE  Cardinality(Through(x, from, from + Window - Wait - 1)') <= Limit
    BY <1>0 DEF LimitHolds, Through
  <2> DEFINE to == from + Window - Wait - 1
             old == Through(x, from, to)
             new == {g \in Hits : hit'[g].at = "allowed" /\ hit'[g].key = x /\ hit'[g].now \in from..to}
  <2>1. Through(x, from, to)' = new
    BY DEF Through
  <2>2. Cardinality(old) <= Limit
    BY DEF LimitHolds
  <2>3. CASE ~(x = k /\ a = "allowed" /\ now \in from..to)
    <3>1. new = old
      BY <1>0, <1>2, <2>3 DEF Through
    <3> QED
      BY <2>1, <2>2, <3>1
  <2>4. CASE x = k /\ a = "allowed" /\ now \in from..to
    <3>1. new \subseteq kept \cup {h}
      <4> SUFFICES ASSUME NEW g \in new, g # h PROVE g \in kept
        OBVIOUS
      <4>1. g \in Hits /\ hit[g].at = "allowed" /\ hit[g].key = k /\ hit[g].now \in from..to
        BY <1>2, <2>4
      <4>2. hit[g].now + Window > time /\ now - hit[g].now < Window
        BY <1>1, <2>4, <4>1
      <4>3. g \in hits[k]
        BY <4>1, <4>2 DEF Remembered
      <4> QED
        BY <1>0, <1>3, <4>1, <4>2, <4>3 DEF kept
    <3>2. Cardinality(new) <= Cardinality(kept \cup {h})
      BY <1>5, <3>1, FS_Subset
    <3>3. Cardinality(new) \in Nat
      BY <1>5, <3>1, FS_Subset, FS_CardinalityType
    <3> HIDE DEF new
    <3>4. Cardinality(new) <= Limit
      BY <1>5, <1>7, <2>4, <3>2, <3>3
    <3> QED
      BY <2>1, <3>4
  <2> QED
    BY <2>3, <2>4
<1> QED
  BY <1>8, <1>9, <1>10, <1>11, <1>12, <1>13

(* A limiter at rest keeps everything. *)
LEMMA LimiterSpecInv == LimiterSpec => []LimiterInv
<1>1. LimiterInv /\ [LimiterNext]_limiterVars => LimiterInv'
  <2> SUFFICES ASSUME LimiterInv, [LimiterNext]_limiterVars PROVE LimiterInv'
    OBVIOUS
  <2>1. CASE UNCHANGED limiterVars
    BY <2>1 DEF limiterVars, LimiterInv, LimiterTypeOK, WaitsOK, RecordedOK, Remembered,
       LimitHolds, Through, SweptOK, NoIdleKeys
  <2>2. CASE LimiterNext
    BY <2>2, TickKeeps, ReadNowKeeps, AllowKeeps DEF LimiterNext
  <2> QED
    BY <2>1, <2>2
<1> QED
  BY <1>1, LimiterInitInv, PTL DEF LimiterSpec

(* Every variable of the limiter keeps its type, and no key holds more     *)
(* than Limit times (ratelimit.go:50-54).                                  *)
THEOREM LimiterTyped == LimiterSpec => []LimiterTypeOK
BY LimiterSpecInv, PTL DEF LimiterInv

(* allow and sweepLocked (ratelimit.go:38-76): no client gets more than    *)
(* Limit requests through in a span of a window less what a request waits  *)
(* for the lock, and no key stays that was idle for two windows.           *)
THEOREM LimiterKeepsCount == Wait < Window => (LimiterSpec => []LimiterSound)
<1> SUFFICES ASSUME Wait < Window PROVE LimiterSpec => []LimiterSound
  OBVIOUS
<1>1. LimiterInv => LimiterSound
  BY DEF LimiterInv, LimiterSound, SweptOK
<1> QED
  BY <1>1, LimiterSpecInv, PTL
=============================================================================
