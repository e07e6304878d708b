------------------------------ MODULE Accounts ------------------------------
(***************************************************************************)
(* One email address and everything the control plane keeps for it: the    *)
(* account row, its sessions, the links mailed to it and its subscription  *)
(* (auth.go, delete.go, subscription.go and the foreign keys of migration  *)
(* 0001).  Rows of two addresses never meet in one statement.              *)
(*                                                                         *)
(* One action is one SQL statement or one transaction.  signup, signin,    *)
(* verifyEmail, resetConfirm and deleteAccount read in one and write in a  *)
(* later one, so their requests carry what they read.                      *)
(***************************************************************************)
EXTENDS FiniteSets

CONSTANTS
  Ids,        \* account ids the address may get, one per signup that inserts
  Passwords,
  Links,      \* mailed tokens
  Sessions,
  Reqs,       \* requests being served at one time
  None,
  Ops         \* the endpoints the clients call

ASSUME AccountsAssumption ==
  /\ None \notin Ids \cup Passwords \cup Links \cup Sessions \cup Reqs
  /\ None \notin {"active", "suspended"}
  /\ Ops \subseteq {"signup", "signin", "signout", "verify", "reset", "delete",
                    "operator", "expire"}

VARIABLES
  acct,      \* the account row's id, None while the address has none
  password,  \* what the row's password_hash is the hash of
  verified,  \* email_verified_at IS NOT NULL
  spent,     \* ids of deleted accounts; an id is never drawn again
  sub,       \* subscriptions.status of each id, None for no row
  links,     \* email_verification_tokens and password_reset_tokens
  sessions,
  req

vars == <<acct, password, verified, spent, sub, links, sessions, req>>

-----------------------------------------------------------------------------

Link == [kind  : {"verify", "reset", None},
         acct  : Ids \cup {None},
         state : {"unminted", "fresh", "expired", "used", "deleted"}]

Session == [acct  : Ids \cup {None},
            pw    : Passwords \cup {None},  \* history: the password it was opened with
            state : {"unminted", "live", "revoked", "expired", "deleted"}]

Request == [at   : {"idle", "signup_seed", "signup_link", "signin_session",
                    "verify_write", "reset_write", "delete_write"},
            acct : Ids \cup {None},
            pw   : Passwords \cup {None},
            link : Links \cup {None}]

Idle == [at |-> "idle", acct |-> None, pw |-> None, link |-> None]

TypeOK ==
  /\ acct \in Ids \cup {None}
  /\ password \in Passwords \cup {None}
  /\ verified \in BOOLEAN
  /\ spent \subseteq Ids
  /\ sub \in [Ids -> {"active", "suspended", None}]
  /\ links \in [Links -> Link]
  /\ sessions \in [Sessions -> Session]
  /\ req \in [Reqs -> Request]
  /\ (acct = None) = (password = None)

Init ==
  /\ acct = None
  /\ password = None
  /\ verified = FALSE
  /\ spent = {}
  /\ sub = [a \in Ids |-> None]
  /\ links = [l \in Links |-> [kind |-> None, acct |-> None, state |-> "unminted"]]
  /\ sessions = [s \in Sessions |-> [acct |-> None, pw |-> None, state |-> "unminted"]]
  /\ req = [t \in Reqs |-> Idle]

Answer(t) == req' = [req EXCEPT ![t] = Idle]

(* A row that references account a can be inserted only while a is there. *)
ForeignKey(a) == acct = a

(* lookupSession and requireSession *)
requireSession(a) == acct = a /\ \E s \in Sessions :
                       sessions[s].acct = a /\ sessions[s].state = "live"

NewLink(l, k, a) ==
  /\ links[l].state = "unminted"
  /\ links' = [links EXCEPT ![l] = [kind |-> k, acct |-> a, state |-> "fresh"]]

-----------------------------------------------------------------------------
(* signup: three statements, no transaction around them *)

(* The address is free.  A taken one is answered alike and changes nothing. *)
signupInsert(t, a, p) ==
  /\ "signup" \in Ops
  /\ req[t].at = "idle"
  /\ acct = None
  /\ a \notin spent
  /\ acct' = a
  /\ password' = p
  /\ verified' = FALSE
  /\ req' = [req EXCEPT ![t] = [Idle EXCEPT !.at = "signup_seed", !.acct = a]]
  /\ UNCHANGED <<spent, sub, links, sessions>>

seedSubscriptionOverwriting(t) ==
  /\ req[t].at = "signup_seed"
  /\ ForeignKey(req[t].acct)
  /\ sub' = [sub EXCEPT ![req[t].acct] = "active"]
  /\ req' = [req EXCEPT ![t].at = "signup_link"]
  /\ UNCHANGED <<acct, password, verified, spent, links, sessions>>

(* ON CONFLICT DO NOTHING *)
seedSubscription(t) ==
  /\ req[t].at = "signup_seed"
  /\ ForeignKey(req[t].acct)
  /\ sub' = [sub EXCEPT ![req[t].acct] = IF @ = None THEN "active" ELSE @]
  /\ req' = [req EXCEPT ![t].at = "signup_link"]
  /\ UNCHANGED <<acct, password, verified, spent, links, sessions>>

signupLink(t, l) ==
  /\ req[t].at = "signup_link"
  /\ ForeignKey(req[t].acct)
  /\ NewLink(l, "verify", req[t].acct)
  /\ Answer(t)
  /\ UNCHANGED <<acct, password, verified, spent, sub, sessions>>

(* A later statement of signup fails: the account it inserted stays. *)
signupFails(t) ==
  /\ req[t].at \in {"signup_seed", "signup_link"}
  /\ Answer(t)
  /\ UNCHANGED <<acct, password, verified, spent, sub, links, sessions>>

-----------------------------------------------------------------------------
(* signin and signout *)

(* SELECT the hash; checkPassword. *)
signinRead(t, p) ==
  /\ "signin" \in Ops
  /\ req[t].at = "idle"
  /\ acct # None
  /\ password = p
  /\ req' = [req EXCEPT ![t] = [Idle EXCEPT !.at = "signin_session", !.acct = acct, !.pw = p]]
  /\ UNCHANGED <<acct, password, verified, spent, sub, links, sessions>>

createSessionUnchecked(t, s) ==
  /\ req[t].at = "signin_session"
  /\ sessions[s].state = "unminted"
  /\ sessions' = [sessions EXCEPT ![s] =
                    [acct |-> req[t].acct, pw |-> req[t].pw, state |-> "live"]]
  /\ Answer(t)
  /\ UNCHANGED <<acct, password, verified, spent, sub, links>>

(* The INSERT; it does not read the password again. *)
createSession(t, s) ==
  /\ req[t].at = "signin_session"
  /\ ForeignKey(req[t].acct)
  /\ sessions[s].state = "unminted"
  /\ sessions' = [sessions EXCEPT ![s] =
                    [acct |-> req[t].acct, pw |-> req[t].pw, state |-> "live"]]
  /\ Answer(t)
  /\ UNCHANGED <<acct, password, verified, spent, sub, links>>

createSessionFails(t) ==
  /\ req[t].at = "signin_session"
  /\ Answer(t)
  /\ UNCHANGED <<acct, password, verified, spent, sub, links, sessions>>

signout(s) ==
  /\ "signout" \in Ops
  /\ sessions[s].state = "live"
  /\ sessions' = [sessions EXCEPT ![s].state = "revoked"]
  /\ UNCHANGED <<acct, password, verified, spent, sub, links, req>>

SessionExpires(s) ==
  /\ "expire" \in Ops
  /\ sessions[s].state = "live"
  /\ sessions' = [sessions EXCEPT ![s].state = "expired"]
  /\ UNCHANGED <<acct, password, verified, spent, sub, links, req>>

-----------------------------------------------------------------------------
(* The mailed links *)

(* The UPDATE by id has no other condition: used_at is set whatever the    *)
(* row says by now.  A link that went with its account is not there.       *)
UseLink(l) == links' = [links EXCEPT ![l].state = IF @ = "deleted" THEN @ ELSE "used"]

(* SELECT the unused, unexpired token. *)
ReadLink(t, l, k, p, point) ==
  /\ req[t].at = "idle"
  /\ links[l].kind = k
  /\ links[l].state = "fresh"
  /\ req' = [req EXCEPT ![t] =
               [at |-> point, acct |-> links[l].acct, pw |-> p, link |-> l]]
  /\ UNCHANGED <<acct, password, verified, spent, sub, links, sessions>>

verifyEmailRead(t, l) ==
  /\ "verify" \in Ops
  /\ ReadLink(t, l, "verify", None, "verify_write")

verifyEmailByAddress(t) ==
  /\ req[t].at = "verify_write"
  /\ UseLink(req[t].link)
  /\ verified' = (verified \/ acct # None)
  /\ Answer(t)
  /\ UNCHANGED <<acct, password, spent, sub, sessions>>

(* The transaction: the token is used, the account it names is verified. *)
verifyEmailWrite(t) ==
  /\ req[t].at = "verify_write"
  /\ UseLink(req[t].link)
  /\ verified' = (verified \/ acct = req[t].acct)
  /\ Answer(t)
  /\ UNCHANGED <<acct, password, spent, sub, sessions>>

(* SELECT the account, INSERT the token, mail it. *)
resetRequest(l) ==
  /\ "reset" \in Ops
  /\ acct # None
  /\ NewLink(l, "reset", acct)
  /\ UNCHANGED <<acct, password, verified, spent, sub, sessions, req>>

resetConfirmRead(t, l, p) ==
  /\ "reset" \in Ops
  /\ ReadLink(t, l, "reset", p, "reset_write")

resetConfirmByAddress(t) ==
  /\ req[t].at = "reset_write"
  /\ UseLink(req[t].link)
  /\ password' = IF acct = None THEN None ELSE req[t].pw
  /\ sessions' = [s \in Sessions |->
                    IF sessions[s].acct = req[t].acct /\ sessions[s].state = "live"
                      THEN [sessions[s] EXCEPT !.state = "revoked"] ELSE sessions[s]]
  /\ Answer(t)
  /\ UNCHANGED <<acct, verified, spent, sub>>

resetConfirmUpserts(t) ==
  /\ req[t].at = "reset_write"
  /\ UseLink(req[t].link)
  /\ password' = req[t].pw
  /\ sessions' = [s \in Sessions |->
                    IF sessions[s].acct = req[t].acct /\ sessions[s].state = "live"
                      THEN [sessions[s] EXCEPT !.state = "revoked"] ELSE sessions[s]]
  /\ Answer(t)
  /\ UNCHANGED <<acct, verified, spent, sub>>

(* The transaction: the token is used, the password of the account it      *)
(* names replaced and that account's sessions revoked.                     *)
resetConfirmWrite(t) ==
  /\ req[t].at = "reset_write"
  /\ UseLink(req[t].link)
  /\ password' = IF acct = req[t].acct THEN req[t].pw ELSE password
  /\ sessions' = [s \in Sessions |->
                    IF sessions[s].acct = req[t].acct /\ sessions[s].state = "live"
                      THEN [sessions[s] EXCEPT !.state = "revoked"] ELSE sessions[s]]
  /\ Answer(t)
  /\ UNCHANGED <<acct, verified, spent, sub>>

LinkExpires(l) ==
  /\ "expire" \in Ops
  /\ links[l].state = "fresh"
  /\ links' = [links EXCEPT ![l].state = "expired"]
  /\ UNCHANGED <<acct, password, verified, spent, sub, sessions, req>>

-----------------------------------------------------------------------------
(* delete.go and subscription.go *)

(* A signed-in caller who gives the right password. *)
deleteAccountRead(t) ==
  /\ "delete" \in Ops
  /\ req[t].at = "idle"
  /\ acct # None
  /\ requireSession(acct)
  /\ req' = [req EXCEPT ![t] = [Idle EXCEPT !.at = "delete_write", !.acct = acct]]
  /\ UNCHANGED <<acct, password, verified, spent, sub, links, sessions>>

(* The row goes and, by ON DELETE CASCADE, everything that references it.  *)
(* A second deletion of the same account deletes nothing.                  *)
runAccountDeletion(t) ==
  /\ req[t].at = "delete_write"
  /\ Answer(t)
  /\ IF acct = req[t].acct
       THEN /\ acct' = None
            /\ password' = None
            /\ verified' = FALSE
            /\ spent' = spent \cup {acct}
            /\ sub' = [sub EXCEPT ![acct] = None]
            /\ links' = [l \in Links |-> IF links[l].acct = acct
                           THEN [links[l] EXCEPT !.state = "deleted"] ELSE links[l]]
            /\ sessions' = [s \in Sessions |-> IF sessions[s].acct = acct
                              THEN [sessions[s] EXCEPT !.state = "deleted"] ELSE sessions[s]]
       ELSE UNCHANGED <<acct, password, verified, spent, sub, links, sessions>>

(* One transaction; an account with no row gets one. *)
setSubscription(a, st) ==
  /\ "operator" \in Ops
  /\ acct = a
  /\ sub[a] # st
  /\ sub' = [sub EXCEPT ![a] = st]
  /\ UNCHANGED <<acct, password, verified, spent, links, sessions, req>>

-----------------------------------------------------------------------------

Next ==
  \/ \E t \in Reqs :
       \/ \E a \in Ids, p \in Passwords : signupInsert(t, a, p)
       \/ seedSubscription(t)
       \/ \E l \in Links : signupLink(t, l) \/ verifyEmailRead(t, l)
       \/ signupFails(t)
       \/ \E p \in Passwords : signinRead(t, p)
       \/ \E s \in Sessions : createSession(t, s)
       \/ createSessionFails(t)
       \/ verifyEmailWrite(t)
       \/ \E l \in Links, p \in Passwords : resetConfirmRead(t, l, p)
       \/ resetConfirmWrite(t)
       \/ deleteAccountRead(t)
       \/ runAccountDeletion(t)
  \/ \E s \in Sessions : signout(s) \/ SessionExpires(s)
  \/ \E l \in Links : resetRequest(l) \/ LinkExpires(l)
  \/ \E a \in Ids, st \in {"active", "suspended"} : setSubscription(a, st)

Spec == Init /\ [][Next]_vars

-----------------------------------------------------------------------------
(* Properties. *)

(* delete.go: the account's "invites, sessions and tokens go with it", and *)
(* a request that read the account before the deletion brings none of them *)
(* back: every live session, every link that still works and every         *)
(* subscription row belongs to the account that is there.                  *)
DeletedLeavesNothing ==
  /\ \A s \in Sessions : sessions[s].state = "live" => sessions[s].acct = acct
  /\ \A l \in Links : links[l].state = "fresh" => links[l].acct = acct
  /\ \A a \in Ids : sub[a] # None => a = acct

(* verifyEmail: an account counts as verified only when a link mailed for  *)
(* that account was followed.  A link of a deleted account, still being    *)
(* served when somebody signs up with the address again, does not verify   *)
(* the new one.                                                            *)
VerifiedByOwnLink ==
  verified => \E l \in Links : /\ links[l].kind = "verify"
                               /\ links[l].acct = acct
                               /\ links[l].state = "used"

(* resetConfirm: an account's password changes only to the one that came   *)
(* with a reset link mailed for that account, in the step that uses the    *)
(* link up, whatever was deleted and signed up again since it was read.    *)
PasswordByOwnLink ==
  [][acct # None /\ acct' = acct /\ password' # password =>
       \E t \in Reqs :
         /\ req[t].at = "reset_write" /\ req'[t].at = "idle"
         /\ password' = req[t].pw
         /\ links[req[t].link].kind = "reset"
         /\ links[req[t].link].acct = acct
         /\ links'[req[t].link].state = "used"]_vars

(* subscription.go: only an operator lifts a suspension.  The signup that  *)
(* created the account seeds its row late, with ON CONFLICT DO NOTHING.    *)
SuspensionSticks ==
  [][\A a \in Ids : sub[a] = "suspended" /\ sub'[a] = "active" =>
        \A t \in Reqs : req[t].at = "signup_seed" => UNCHANGED req[t]]_vars

(* Migration 0001: "Single use: confirming sets used_at and a second use   *)
(* fails", and the mail's "The link works once": a reset link whose used_at *)
(* is set changes no password.                                             *)
ResetLinkWorksOnce ==
  [][\A t \in Reqs :
        req[t].at = "reset_write" /\ req'[t].at = "idle" /\ password' # password
          => links[req[t].link].state # "used"]_vars

(* resetConfirm: "A new password ends every session".  A live session was  *)
(* opened with the password the account has.                               *)
NewPasswordEndsSessions ==
  \A s \in Sessions : sessions[s].state = "live" => sessions[s].pw = password
=============================================================================
