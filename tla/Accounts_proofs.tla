-------------------------- MODULE Accounts_proofs --------------------------
(***************************************************************************)
(* Theorems about Accounts, for any number of accounts an address has had, *)
(* and any number of links, sessions and requests.                         *)
(***************************************************************************)
EXTENDS Accounts, TLAPS

(* What a request between two statements remembers: the account it read    *)
(* and, if it follows a link, that link, which is of that account still.   *)
ReqOK ==
  \A t \in Reqs :
    /\ req[t].at # "idle" => req[t].acct \in Ids
    /\ req[t].at = "reset_write" => req[t].pw \in Passwords
    /\ req[t].at \in {"verify_write", "reset_write"} =>
         /\ req[t].link \in Links
         /\ links[req[t].link].state # "unminted"
         /\ links[req[t].link].acct = req[t].acct
         /\ links[req[t].link].kind = IF req[t].at = "verify_write" THEN "verify" ELSE "reset"

(* A row names the account it was inserted for. *)
LinksNamed == \A l \in Links : links[l].state # "unminted" => links[l].acct \in Ids

SessionsNamed == \A s \in Sessions : sessions[s].state # "unminted" => sessions[s].acct \in Ids

(* An id is not drawn again, and rows go only with their account. *)
SpentOK ==
  /\ acct \notin spent
  /\ \A l \in Links : links[l].state = "deleted" => links[l].acct \in spent

Inv == TypeOK /\ ReqOK /\ LinksNamed /\ SessionsNamed /\ SpentOK /\ DeletedLeavesNothing /\ VerifiedByOwnLink

(* An address without an account has nothing. *)
LEMMA InitInv == Init => Inv
<1> SUFFICES ASSUME Init PROVE Inv
  OBVIOUS
<1> USE AccountsAssumption DEF Init, Idle
<1>1. TypeOK
  BY DEF TypeOK, Link, Session, Request
<1>2. ReqOK
  BY DEF ReqOK
<1>3. LinksNamed /\ SessionsNamed /\ SpentOK
  BY DEF LinksNamed, SessionsNamed, SpentOK
<1>4. DeletedLeavesNothing
  BY DEF DeletedLeavesNothing
<1>5. VerifiedByOwnLink
  BY DEF VerifiedByOwnLink
<1> QED
  BY <1>1, <1>2, <1>3, <1>4, <1>5 DEF Inv

(* Every statement of every handler keeps the types. *)
LEMMA NextTyped == Inv /\ [Next]_vars => TypeOK'
<1> SUFFICES ASSUME Inv, [Next]_vars PROVE TypeOK'
  OBVIOUS
<1> USE AccountsAssumption DEF Inv, TypeOK
<1>1. CASE UNCHANGED vars
  BY <1>1 DEF vars
<1>2. ASSUME NEW t \in Reqs, NEW a \in Ids, NEW p \in Passwords, signupInsert(t, a, p)
      PROVE  TypeOK'
  BY <1>2 DEF signupInsert, Idle, Request
<1>3. ASSUME NEW t \in Reqs, seedSubscription(t) PROVE TypeOK'
  <2>1. sub' \in [Ids -> {"active", "suspended", None}]
    BY <1>3 DEF seedSubscription, ReqOK
  <2>2. req' \in [Reqs -> Request]
    BY <1>3 DEF seedSubscription, Request
  <2> QED
    BY <1>3, <2>1, <2>2 DEF seedSubscription
<1>4. ASSUME NEW t \in Reqs, NEW l \in Links, signupLink(t, l) PROVE TypeOK'
  BY <1>4 DEF signupLink, NewLink, Answer, ReqOK, Idle, Request, Link
<1>5. ASSUME NEW t \in Reqs, NEW l \in Links, verifyEmailRead(t, l) PROVE TypeOK'
  BY <1>5 DEF verifyEmailRead, ReadLink, Request, Link
<1>6. ASSUME NEW t \in Reqs, signupFails(t) \/ createSessionFails(t) PROVE TypeOK'
  BY <1>6 DEF signupFails, createSessionFails, Answer, Idle, Request
<1>7. ASSUME NEW t \in Reqs, NEW p \in Passwords, signinRead(t, p) PROVE TypeOK'
  BY <1>7 DEF signinRead, Idle, Request
<1>8. ASSUME NEW t \in Reqs, NEW s \in Sessions, createSession(t, s) PROVE TypeOK'
  BY <1>8 DEF createSession, Answer, Idle, Request, Session
<1>9. ASSUME NEW t \in Reqs, verifyEmailWrite(t) PROVE TypeOK'
  BY <1>9 DEF verifyEmailWrite, UseLink, Answer, Idle, Request, Link, ReqOK
<1>10. ASSUME NEW t \in Reqs, NEW l \in Links, NEW p \in Passwords, resetConfirmRead(t, l, p)
       PROVE  TypeOK'
  BY <1>10 DEF resetConfirmRead, ReadLink, Request, Link
<1>11. ASSUME NEW t \in Reqs, resetConfirmWrite(t) PROVE TypeOK'
  <2>1. links' \in [Links -> Link]
    BY <1>11 DEF resetConfirmWrite, UseLink, Link, ReqOK
  <2>2. sessions' \in [Sessions -> Session]
    BY <1>11 DEF resetConfirmWrite, Session
  <2>3. password' \in Passwords \cup {None} /\ ((acct' = None) = (password' = None))
    BY <1>11 DEF resetConfirmWrite, ReqOK
  <2>4. req' \in [Reqs -> Request]
    BY <1>11 DEF resetConfirmWrite, Answer, Idle, Request
  <2> QED
    BY <1>11, <2>1, <2>2, <2>3, <2>4 DEF resetConfirmWrite
<1>12. ASSUME NEW t \in Reqs, deleteAccountRead(t) PROVE TypeOK'
  BY <1>12 DEF deleteAccountRead, Idle, Request
<1>13. ASSUME NEW t \in Reqs, runAccountDeletion(t) PROVE TypeOK'
  <2>1. req' \in [Reqs -> Request]
    BY <1>13 DEF runAccountDeletion, Answer, Idle, Request
  <2>2. CASE acct = req[t].acct
    <3>1. links' \in [Links -> Link]
      BY <1>13, <2>2 DEF runAccountDeletion, Link
    <3>2. sessions' \in [Sessions -> Session]
      BY <1>13, <2>2 DEF runAccountDeletion, Session
    <3>3. acct \in Ids
      BY <1>13, <2>2 DEF runAccountDeletion, ReqOK
    <3>4. sub' \in [Ids -> {"active", "suspended", None}] /\ spent' \subseteq Ids
      BY <1>13, <2>2, <3>3 DEF runAccountDeletion
    <3>5. acct' = None /\ password' = None /\ verified' = FALSE
      BY <1>13, <2>2 DEF runAccountDeletion
    <3> QED
      BY <2>1, <3>1, <3>2, <3>4, <3>5
  <2>3. CASE acct # req[t].acct
    BY <1>13, <2>1, <2>3 DEF runAccountDeletion
  <2> QED
    BY <2>2, <2>3
<1>14. ASSUME NEW s \in Sessions, signout(s) \/ SessionExpires(s) PROVE TypeOK'
  BY <1>14 DEF signout, SessionExpires, Session
<1>15. ASSUME NEW l \in Links, resetRequest(l) \/ LinkExpires(l) PROVE TypeOK'
  BY <1>15 DEF resetRequest, NewLink, LinkExpires, Link
<1>16. ASSUME NEW a \in Ids, NEW st \in {"active", "suspended"}, setSubscription(a, st)
       PROVE  TypeOK'
  BY <1>16 DEF setSubscription
<1> QED
  BY <1>1, <1>2, <1>3, <1>4, <1>5, <1>6, <1>7, <1>8, <1>9, <1>10, <1>11, <1>12, <1>13, <1>14,
     <1>15, <1>16 DEF Next

(* A link that was minted keeps its kind and its account. *)
LinksKept ==
  \A l \in Links : links[l].state # "unminted" =>
    /\ links'[l].kind = links[l].kind
    /\ links'[l].acct = links[l].acct
    /\ links'[l].state # "unminted"

(* The statements that touch links mint one, mark one or delete them. *)
LEMMA NextLinksKept == Inv /\ [Next]_vars => LinksKept
<1> SUFFICES ASSUME Inv, [Next]_vars PROVE LinksKept
  OBVIOUS
<1> USE DEF Inv, TypeOK, Link, LinksKept
<1>1. ASSUME NEW t \in Reqs, NEW l \in Links, signupLink(t, l) PROVE LinksKept
  BY <1>1 DEF signupLink, NewLink
<1>2. ASSUME NEW t \in Reqs, verifyEmailWrite(t) \/ resetConfirmWrite(t) PROVE LinksKept
  BY <1>2 DEF verifyEmailWrite, resetConfirmWrite, UseLink, ReqOK
<1>3. ASSUME NEW t \in Reqs, runAccountDeletion(t) PROVE LinksKept
  <2>1. CASE acct = req[t].acct
    BY <1>3, <2>1 DEF runAccountDeletion
  <2>2. CASE acct # req[t].acct
    BY <1>3, <2>2 DEF runAccountDeletion
  <2> QED
    BY <2>1, <2>2
<1>4. ASSUME NEW l \in Links, resetRequest(l) \/ LinkExpires(l) PROVE LinksKept
  BY <1>4 DEF resetRequest, NewLink, LinkExpires
<1>5. CASE UNCHANGED links
  BY <1>5
<1> QED
  BY <1>1, <1>2, <1>3, <1>4, <1>5
  DEF Next, vars, signupInsert, seedSubscription, verifyEmailRead, ReadLink, signupFails,
      signinRead, createSession, createSessionFails, resetConfirmRead, deleteAccountRead, signout,
      SessionExpires, setSubscription

(* A request remembers an account, and a link of that account. *)
LEMMA NextReq == Inv /\ [Next]_vars => ReqOK'
<1> SUFFICES ASSUME Inv, [Next]_vars PROVE ReqOK'
  OBVIOUS
<1> USE DEF ReqOK
<1>typed. /\ req \in [Reqs -> Request]
          /\ links \in [Links -> Link]
          /\ acct \in Ids \cup {None}
          /\ ReqOK
  BY DEF Inv, TypeOK
<1>kept. LinksKept
  BY NextLinksKept
<1> USE <1>typed
<1>1. CASE UNCHANGED req
  BY <1>1, <1>kept DEF LinksKept
<1>2. ASSUME NEW t \in Reqs, Answer(t) PROVE ReqOK'
  BY <1>2, <1>kept DEF Answer, Idle, LinksKept
<1>3. ASSUME NEW t \in Reqs, NEW a \in Ids, NEW p \in Passwords, signupInsert(t, a, p)
      PROVE  ReqOK'
  BY <1>3, <1>kept DEF signupInsert, Idle, LinksKept
<1>4. ASSUME NEW t \in Reqs, seedSubscription(t) PROVE ReqOK'
  BY <1>4, <1>kept DEF seedSubscription, Request, LinksKept
<1>5. ASSUME NEW t \in Reqs, NEW p \in Passwords, signinRead(t, p) PROVE ReqOK'
  BY <1>5, <1>kept DEF signinRead, Idle, LinksKept
<1>6. ASSUME NEW t \in Reqs, deleteAccountRead(t) PROVE ReqOK'
  BY <1>6, <1>kept DEF deleteAccountRead, Idle, LinksKept
<1>7. ASSUME NEW t \in Reqs, NEW l \in Links, verifyEmailRead(t, l) PROVE ReqOK'
  BY <1>7 DEF verifyEmailRead, ReadLink, Inv, LinksNamed
<1>8. ASSUME NEW t \in Reqs, NEW l \in Links, NEW p \in Passwords, resetConfirmRead(t, l, p)
      PROVE  ReqOK'
  BY <1>8 DEF resetConfirmRead, ReadLink, Inv, LinksNamed
<1> QED
  BY <1>1, <1>2, <1>3, <1>4, <1>5, <1>6, <1>7, <1>8
  DEF Next, vars, signupLink, signupFails, createSession, createSessionFails, verifyEmailWrite,
      resetConfirmWrite, runAccountDeletion, signout, SessionExpires, resetRequest, LinkExpires,
      setSubscription

(* Links and sessions are inserted for the account a request read. *)
LEMMA NextNamed == Inv /\ [Next]_vars => LinksNamed' /\ SessionsNamed'
<1> SUFFICES ASSUME Inv, [Next]_vars PROVE LinksNamed' /\ SessionsNamed'
  OBVIOUS
<1>1. LinksNamed'
  <2> USE DEF Inv, TypeOK, Link, LinksNamed
  <2>1. ASSUME NEW t \in Reqs, NEW l \in Links, signupLink(t, l) PROVE LinksNamed'
    BY <2>1 DEF signupLink, NewLink, ReqOK
  <2>2. ASSUME NEW l \in Links, resetRequest(l) PROVE LinksNamed'
    BY <2>2 DEF resetRequest, NewLink
  <2>3. CASE \A l \in Links : links'[l].state # "unminted" => links[l].state # "unminted"
    BY <2>3, NextLinksKept DEF LinksKept
  <2>4. ASSUME NEW t \in Reqs, verifyEmailWrite(t) \/ resetConfirmWrite(t) PROVE LinksNamed'
    BY <2>4, <2>3 DEF verifyEmailWrite, resetConfirmWrite, UseLink, ReqOK
  <2>5. ASSUME NEW t \in Reqs, runAccountDeletion(t) PROVE LinksNamed'
    <3>1. CASE acct = req[t].acct
      <4>1. acct \in Ids
        BY <2>5, <3>1 DEF runAccountDeletion, ReqOK
      <4>2. \A l \in Links : links'[l].acct = links[l].acct
                            /\ (links[l].acct # acct => links'[l] = links[l])
        BY <2>5, <3>1 DEF runAccountDeletion
      <4> QED
        BY <4>1, <4>2
    <3>2. CASE acct # req[t].acct
      BY <2>5, <3>2 DEF runAccountDeletion
    <3> QED
      BY <3>1, <3>2
  <2>6. ASSUME NEW l \in Links, LinkExpires(l) PROVE LinksNamed'
    BY <2>6 DEF LinkExpires
  <2>7. CASE UNCHANGED links
    BY <2>7
  <2> QED
    BY <2>1, <2>2, <2>4, <2>5, <2>6, <2>7
    DEF Next, vars, signupInsert, seedSubscription, verifyEmailRead, ReadLink, signupFails,
        signinRead, createSession, createSessionFails, resetConfirmRead, deleteAccountRead,
        signout, SessionExpires, setSubscription
<1>2. SessionsNamed'
  <2> USE DEF Inv, TypeOK, Session, SessionsNamed
  <2>1. ASSUME NEW t \in Reqs, NEW s \in Sessions, createSession(t, s) PROVE SessionsNamed'
    BY <2>1 DEF createSession, ReqOK
  <2>2. ASSUME NEW s \in Sessions, signout(s) \/ SessionExpires(s) PROVE SessionsNamed'
    BY <2>2 DEF signout, SessionExpires
  <2>3. ASSUME NEW t \in Reqs, resetConfirmWrite(t) PROVE SessionsNamed'
    BY <2>3 DEF resetConfirmWrite
  <2>4. ASSUME NEW t \in Reqs, runAccountDeletion(t) PROVE SessionsNamed'
    <3>1. CASE acct = req[t].acct
      BY <2>4, <3>1 DEF runAccountDeletion, ReqOK
    <3>2. CASE acct # req[t].acct
      BY <2>4, <3>2 DEF runAccountDeletion
    <3> QED
      BY <3>1, <3>2
  <2>5. CASE UNCHANGED sessions
    BY <2>5
  <2> QED
    BY <2>1, <2>2, <2>3, <2>4, <2>5
    DEF Next, vars, signupInsert, seedSubscription, signupLink, verifyEmailRead, ReadLink,
        signupFails, signinRead, createSessionFails, verifyEmailWrite, resetConfirmRead,
        deleteAccountRead, resetRequest, LinkExpires, setSubscription
<1> QED
  BY <1>1, <1>2

(* The id of a deleted account does not come back, and only deletion       *)
(* deletes links.                                                          *)
LEMMA NextSpent == Inv /\ [Next]_vars => SpentOK'
<1> SUFFICES ASSUME Inv, [Next]_vars PROVE SpentOK'
  OBVIOUS
<1> USE AccountsAssumption DEF Inv, TypeOK, Link, SpentOK
<1>1. ASSUME NEW t \in Reqs, NEW a \in Ids, NEW p \in Passwords, signupInsert(t, a, p)
      PROVE  SpentOK'
  BY <1>1 DEF signupInsert
<1>2. ASSUME NEW t \in Reqs, NEW l \in Links, signupLink(t, l) PROVE SpentOK'
  BY <1>2 DEF signupLink, NewLink
<1>3. ASSUME NEW t \in Reqs, verifyEmailWrite(t) \/ resetConfirmWrite(t) PROVE SpentOK'
  BY <1>3 DEF verifyEmailWrite, resetConfirmWrite, UseLink, ReqOK
<1>4. ASSUME NEW t \in Reqs, runAccountDeletion(t) PROVE SpentOK'
  <2>1. CASE acct = req[t].acct
    <3>1. acct \in Ids /\ acct' = None /\ spent' = spent \cup {acct}
      BY <1>4, <2>1 DEF runAccountDeletion, ReqOK
    <3>2. \A l \in Links : links'[l].acct = links[l].acct
                          /\ (links[l].acct # acct => links'[l] = links[l])
      BY <1>4, <2>1 DEF runAccountDeletion
    <3> QED
      BY <3>1, <3>2
  <2>2. CASE acct # req[t].acct
    BY <1>4, <2>2 DEF runAccountDeletion
  <2> QED
    BY <2>1, <2>2
<1>5. ASSUME NEW l \in Links, resetRequest(l) \/ LinkExpires(l) PROVE SpentOK'
  BY <1>5 DEF resetRequest, NewLink, LinkExpires
<1>6. CASE UNCHANGED <<acct, spent, links>>
  BY <1>6
<1> QED
  BY <1>1, <1>2, <1>3, <1>4, <1>5, <1>6
  DEF Next, vars, seedSubscription, verifyEmailRead, ReadLink, signupFails, signinRead,
      createSession, createSessionFails, resetConfirmRead, deleteAccountRead, signout,
      SessionExpires, setSubscription

(* The foreign keys keep late inserts of a deleted account out, and the    *)
(* cascade takes what was there.                                           *)
LEMMA NextDeleted == Inv /\ [Next]_vars => DeletedLeavesNothing'
<1> SUFFICES ASSUME Inv, [Next]_vars PROVE DeletedLeavesNothing'
  OBVIOUS
<1> USE AccountsAssumption DEF Inv, TypeOK, DeletedLeavesNothing
<1>1. ASSUME NEW t \in Reqs, NEW a \in Ids, NEW p \in Passwords, signupInsert(t, a, p)
      PROVE  DeletedLeavesNothing'
  BY <1>1 DEF signupInsert, LinksNamed, SessionsNamed
<1>2. ASSUME NEW t \in Reqs, seedSubscription(t) PROVE DeletedLeavesNothing'
  BY <1>2 DEF seedSubscription, ForeignKey, ReqOK
<1>3. ASSUME NEW t \in Reqs, NEW l \in Links, signupLink(t, l) PROVE DeletedLeavesNothing'
  BY <1>3 DEF signupLink, NewLink, ForeignKey, Link
<1>4. ASSUME NEW t \in Reqs, NEW s \in Sessions, createSession(t, s)
      PROVE  DeletedLeavesNothing'
  BY <1>4 DEF createSession, ForeignKey, Session
<1>5. ASSUME NEW t \in Reqs, verifyEmailWrite(t) PROVE DeletedLeavesNothing'
  BY <1>5 DEF verifyEmailWrite, UseLink, ReqOK, Link
<1>6. ASSUME NEW t \in Reqs, resetConfirmWrite(t) PROVE DeletedLeavesNothing'
  <2>1. \A l \in Links : links'[l].state = "fresh" => links'[l].acct = acct'
    BY <1>6 DEF resetConfirmWrite, UseLink, ReqOK, Link
  <2>2. \A s \in Sessions : sessions'[s].state = "live" => sessions'[s].acct = acct'
    BY <1>6 DEF resetConfirmWrite, Session
  <2> QED
    BY <1>6, <2>1, <2>2 DEF resetConfirmWrite
<1>7. ASSUME NEW t \in Reqs, runAccountDeletion(t) PROVE DeletedLeavesNothing'
  <2>1. CASE acct = req[t].acct
    <3>1. \A l \in Links : links'[l].state # "fresh"
      BY <1>7, <2>1 DEF runAccountDeletion, Link
    <3>2. \A s \in Sessions : sessions'[s].state # "live"
      BY <1>7, <2>1 DEF runAccountDeletion, Session
    <3>3. \A a \in Ids : sub'[a] = None
      BY <1>7, <2>1 DEF runAccountDeletion
    <3> QED
      BY <3>1, <3>2, <3>3
  <2>2. CASE acct # req[t].acct
    BY <1>7, <2>2 DEF runAccountDeletion
  <2> QED
    BY <2>1, <2>2
<1>8. ASSUME NEW s \in Sessions, signout(s) \/ SessionExpires(s) PROVE DeletedLeavesNothing'
  BY <1>8 DEF signout, SessionExpires, Session
<1>9. ASSUME NEW l \in Links, resetRequest(l) \/ LinkExpires(l) PROVE DeletedLeavesNothing'
  BY <1>9 DEF resetRequest, NewLink, LinkExpires, Link
<1>10. ASSUME NEW a \in Ids, NEW st \in {"active", "suspended"}, setSubscription(a, st)
       PROVE  DeletedLeavesNothing'
  BY <1>10 DEF setSubscription
<1>11. CASE UNCHANGED <<acct, sub, links, sessions>>
  BY <1>11
<1>12. ASSUME NEW t \in Reqs,
              \/ \E l \in Links : verifyEmailRead(t, l)
              \/ \E l \in Links, p \in Passwords : resetConfirmRead(t, l, p)
              \/ \E p \in Passwords : signinRead(t, p)
              \/ signupFails(t) \/ createSessionFails(t) \/ deleteAccountRead(t)
       PROVE  UNCHANGED <<acct, sub, links, sessions>>
  BY <1>12 DEF verifyEmailRead, ReadLink, signupFails, signinRead, createSessionFails,
     resetConfirmRead, deleteAccountRead
<1>13. CASE Next
  BY <1>1, <1>2, <1>3, <1>4, <1>5, <1>6, <1>7, <1>8, <1>9, <1>10, <1>11, <1>12, <1>13 DEF Next
<1> QED
  BY <1>11, <1>13 DEF vars

(* A link that is followed for the account that is there was not deleted   *)
(* in between, so the step that uses it leaves it used.                    *)
LEMMA FollowedLink ==
  ASSUME Inv, NEW t \in Reqs, req[t].at \in {"verify_write", "reset_write"},
         acct = req[t].acct, UseLink(req[t].link)
  PROVE  /\ req[t].link \in Links
         /\ links'[req[t].link].state = "used"
         /\ links'[req[t].link].kind = links[req[t].link].kind
         /\ links'[req[t].link].acct = acct
BY DEF Inv, TypeOK, Link, ReqOK, SpentOK, UseLink

(* Only verifyEmail verifies, and the link it follows is of the account.   *)
LEMMA NextVerified == Inv /\ [Next]_vars => VerifiedByOwnLink'
<1> SUFFICES ASSUME Inv, [Next]_vars PROVE VerifiedByOwnLink'
  OBVIOUS
<1> USE AccountsAssumption DEF Inv, TypeOK, Link, VerifiedByOwnLink
<1>1. ASSUME NEW t \in Reqs, NEW a \in Ids, NEW p \in Passwords, signupInsert(t, a, p)
      PROVE  VerifiedByOwnLink'
  BY <1>1 DEF signupInsert
<1>2. CASE /\ UNCHANGED <<acct, verified>>
           /\ \A l \in Links : links[l].state = "used" /\ links[l].acct = acct
                                 => links'[l] = links[l]
  BY <1>2
<1>3. ASSUME NEW t \in Reqs, NEW l \in Links, signupLink(t, l) PROVE VerifiedByOwnLink'
  BY <1>2, <1>3 DEF signupLink, NewLink
<1>4. ASSUME NEW t \in Reqs, verifyEmailWrite(t) PROVE VerifiedByOwnLink'
  <2>1. CASE acct = req[t].acct
    BY <1>4, <2>1, FollowedLink DEF verifyEmailWrite, ReqOK
  <2>2. CASE acct # req[t].acct
    BY <1>2, <1>4, <2>2 DEF verifyEmailWrite, UseLink, ReqOK
  <2> QED
    BY <2>1, <2>2
<1>5. ASSUME NEW t \in Reqs, resetConfirmWrite(t) PROVE VerifiedByOwnLink'
  BY <1>2, <1>5 DEF resetConfirmWrite, UseLink, ReqOK
<1>6. ASSUME NEW t \in Reqs, runAccountDeletion(t) PROVE VerifiedByOwnLink'
  BY <1>2, <1>6 DEF runAccountDeletion
<1>7. ASSUME NEW l \in Links, resetRequest(l) \/ LinkExpires(l) PROVE VerifiedByOwnLink'
  BY <1>2, <1>7 DEF resetRequest, NewLink, LinkExpires
<1>8. CASE UNCHANGED <<acct, verified, links>>
  BY <1>8
<1> QED
  BY <1>1, <1>3, <1>4, <1>5, <1>6, <1>7, <1>8
  DEF Next, vars, seedSubscription, verifyEmailRead, ReadLink, signupFails, signinRead,
      createSession, createSessionFails, resetConfirmRead, deleteAccountRead, signout,
      SessionExpires, setSubscription

(* The inductive invariant. *)
LEMMA SpecInv == Spec => []Inv
<1>1. Inv /\ [Next]_vars => Inv'
  BY NextTyped, NextReq, NextNamed, NextSpent, NextDeleted, NextVerified DEF Inv
<1> QED
  BY InitInv, <1>1, PTL DEF Spec

(* Every variable keeps its type; an address has a password exactly while  *)
(* it has an account.                                                      *)
THEOREM AccountsTyped == Spec => []TypeOK
<1>1. Inv => TypeOK
  BY DEF Inv
<1> QED
  BY SpecInv, <1>1, PTL

(* delete.go: nothing of a deleted account comes back, whatever requests   *)
(* that read the account before it was deleted do afterwards, and however  *)
(* often the address signs up again.                                       *)
THEOREM NothingComesBack == Spec => []DeletedLeavesNothing
<1>1. Inv => DeletedLeavesNothing
  BY DEF Inv
<1> QED
  BY SpecInv, <1>1, PTL

(* auth.go verifyEmail: an account is verified only by following a link    *)
(* that was mailed for it, not for an earlier account of the address.      *)
THEOREM VerifiedByOwn == Spec => []VerifiedByOwnLink
<1>1. Inv => VerifiedByOwnLink
  BY DEF Inv
<1> QED
  BY SpecInv, <1>1, PTL

(* auth.go resetConfirm: while an account is there, its password changes   *)
(* only in the step that uses up a reset link mailed for that account, and *)
(* to the password that came with the link.                                *)
THEOREM PasswordByOwn == Spec => PasswordByOwnLink
<1> DEFINE By(t) == /\ req[t].at = "reset_write" /\ req'[t].at = "idle"
                    /\ password' = req[t].pw
                    /\ links[req[t].link].kind = "reset"
                    /\ links[req[t].link].acct = acct
                    /\ links'[req[t].link].state = "used"
           Own == acct # None /\ acct' = acct /\ password' # password => \E t \in Reqs : By(t)
<1>1. Inv /\ [Next]_vars => Own
  <2> SUFFICES ASSUME Inv, [Next]_vars, acct # None, acct' = acct, password' # password
               PROVE  \E t \in Reqs : By(t)
    OBVIOUS
  <2>1. PICK t \in Reqs : resetConfirmWrite(t)
    BY DEF Next, vars, signupInsert, seedSubscription, signupLink, verifyEmailRead, ReadLink,
           signupFails, signinRead, createSession, createSessionFails, verifyEmailWrite,
           resetConfirmRead, deleteAccountRead, runAccountDeletion, signout, SessionExpires,
           resetRequest, LinkExpires, setSubscription
  <2>2. /\ acct = req[t].acct /\ req[t].at = "reset_write"
        /\ password' = req[t].pw /\ UseLink(req[t].link)
    BY <2>1 DEF resetConfirmWrite
  <2>3. req'[t].at = "idle"
    BY <2>1 DEF resetConfirmWrite, Answer, Idle, Inv, TypeOK
  <2>4. /\ links[req[t].link].kind = "reset"
        /\ links[req[t].link].acct = acct
        /\ links'[req[t].link].state = "used"
    BY <2>1, <2>2, FollowedLink DEF Inv, ReqOK
  <2> QED
    BY <2>2, <2>3, <2>4
<1>2. Spec => [][Own]_vars
  BY <1>1, SpecInv, PTL DEF Spec
<1> QED
  BY <1>2 DEF PasswordByOwnLink

(* subscription.go: no signup that is still to seed its row lifts a        *)
(* suspension; the operator does.                                          *)
THEOREM SuspensionStays == Spec => SuspensionSticks
<1> DEFINE Sticks ==
      \A a \in Ids : sub[a] = "suspended" /\ sub'[a] = "active" =>
        \A t \in Reqs : req[t].at = "signup_seed" => UNCHANGED req[t]
<1>1. Inv /\ [Next]_vars => Sticks
  <2> SUFFICES ASSUME Inv, [Next]_vars, NEW a \in Ids, sub[a] = "suspended", sub'[a] = "active"
               PROVE  UNCHANGED req
    OBVIOUS
  <2>0. sub[a] # None
    BY AccountsAssumption
  <2>1. ASSUME NEW t \in Reqs, seedSubscription(t) PROVE FALSE
    <3>1. sub'[a] = sub[a]
      BY <2>0, <2>1 DEF seedSubscription, Inv, TypeOK
    <3> QED
      BY <3>1
  <2>2. ASSUME NEW t \in Reqs, runAccountDeletion(t) PROVE FALSE
    <3>1. sub'[a] \in {None, sub[a]}
      BY <2>2 DEF runAccountDeletion, Inv, TypeOK
    <3> QED
      BY <3>1, AccountsAssumption
  <2>3. CASE \E b \in Ids, st \in {"active", "suspended"} : setSubscription(b, st)
    BY <2>3 DEF setSubscription
  <2> QED
    BY <2>1, <2>2, <2>3
    DEF Next, vars, signupInsert, signupLink, verifyEmailRead, ReadLink,
        signupFails, signinRead, createSession, createSessionFails, verifyEmailWrite,
        resetConfirmRead, resetConfirmWrite, deleteAccountRead, signout, SessionExpires,
        resetRequest, LinkExpires
<1>2. Spec => [][Sticks]_vars
  BY <1>1, SpecInv, PTL DEF Spec
<1> QED
  BY <1>2 DEF SuspensionSticks
=============================================================================
