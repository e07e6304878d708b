------------------------------ MODULE Bindings ------------------------------
(***************************************************************************)
(* Who may reach one PC: the rows of devices, device_users, invites and    *)
(* enrolment_tokens that concern one device, and the request handlers of   *)
(* the control plane that read and write them (enrol.go, invite.go,        *)
(* bindings.go, delete.go).                                                *)
(*                                                                         *)
(* PostgreSQL runs at Read Committed, so every SQL statement sees its own  *)
(* snapshot and a handler that reads in one statement and writes in a      *)
(* later one may act on what is no longer true.  One action is one         *)
(* statement, or a run of statements whose row locks make them             *)
(* indistinguishable from one step taken at the commit.  The exclusive     *)
(* lock on the device row (SELECT ... FOR UPDATE) is the variable lock:    *)
(* an UPDATE of that row, and an INSERT whose foreign key points at it,    *)
(* wait for it; an UPDATE of a device_users row does not.                  *)
(***************************************************************************)
EXTENDS Naturals, FiniteSets

CONSTANTS
  Users,        \* accounts that may ever exist
  Invites,      \* invitation codes that may ever be minted
  Reqs,         \* requests being served at one time (pool connections)
  None,         \* the null of a column or of a local variable
  Ops,          \* the endpoints the clients call
  InviteRoles,  \* the roles an admin puts on an invite
  MaxTokens     \* bound: unused enrolment tokens of one account

Roles == {"admin", "guest"}

AllOps == {"enrol", "invite", "redeem", "revoke", "leave", "remove",
           "unenrol", "disable", "delete", "expire"}

ASSUME BindingsAssumption ==
  /\ IsFiniteSet(Users)
  /\ None \notin Users \cup Invites \cup Reqs \cup Roles
  /\ Ops \subseteq AllOps
  /\ InviteRoles \subseteq Roles
  /\ MaxTokens \in Nat

VARIABLES
  accounts,  \* rows of accounts
  status,    \* devices.status, "absent" while the device has no row
  role,      \* device_users.role of each user, None while there is no row
  revoked,   \* device_users.revoked_at IS NOT NULL
  invite,    \* rows of invites
  tokens,    \* unused, unexpired enrolment tokens of each account
  lock,      \* the request holding the device row FOR UPDATE
  req,       \* the local variables of each request being served
  intact     \* history: since an enrolment last seated an admin, none went but by a revoke

vars == <<accounts, status, role, revoked, invite, tokens, lock, req, intact>>

-----------------------------------------------------------------------------

Statuses == {"absent", "active", "disabled"}

(* open: used_at IS NULL and unexpired; expired: used_at IS NULL.          *)
InviteStates == {"unminted", "open", "expired", "used", "deleted"}

Invite == [state : InviteStates, by : Users \cup {None}, role : Roles \cup {None}]

Unminted == [state |-> "unminted", by |-> None, role |-> None]

Points == {"idle", "create_admin", "create_insert", "redeem_write", "revoke_check", "revoke_count",
           "revoke_write", "leave_write", "remove_check", "remove_write",
           "disable_write"}

(* The points of a handler that lie between its FOR UPDATE and its commit. *)
LockedPoints == {"revoke_check", "revoke_count", "revoke_write", "leave_write",
                 "remove_check", "remove_write"}

Request == [at     : Points,
            who    : Users \cup {None},    \* the caller, from the session
            target : Users \cup {None},    \* {user} of the revoke path
            inv    : Invites \cup {None},  \* inviteID
            role   : Roles \cup {None},    \* in.Role
            more   : BOOLEAN]              \* the UPDATE's snapshot let it match

Idle == [at |-> "idle", who |-> None, target |-> None, inv |-> None,
         role |-> None, more |-> FALSE]

Active(u) == role[u] # None /\ ~revoked[u]

(* bindings.go isActiveAdmin *)
isActiveAdmin(u) == role[u] = "admin" /\ ~revoked[u]

ActiveAdmins == {u \in Users : isActiveAdmin(u)}

TypeOK ==
  /\ accounts \subseteq Users
  /\ status \in Statuses
  /\ role \in [Users -> Roles \cup {None}]
  /\ revoked \in [Users -> BOOLEAN]
  /\ invite \in [Invites -> Invite]
  /\ tokens \in [Users -> 0..MaxTokens]
  /\ lock \in Reqs \cup {None}
  /\ req \in [Reqs -> Request]
  /\ intact \in BOOLEAN

Init ==
  /\ accounts = Users
  /\ status = "absent"
  /\ role = [u \in Users |-> None]
  /\ revoked = [u \in Users |-> FALSE]
  /\ invite = [i \in Invites |-> Unminted]
  /\ tokens = [u \in Users |-> 0]
  /\ lock = None
  /\ req = [t \in Reqs |-> Idle]
  /\ intact = TRUE

-----------------------------------------------------------------------------
(* The device row's lock.  A statement that needs the row waits for it.    *)

DeviceFree == lock = None

Answer(t) == req' = [req EXCEPT ![t] = Idle]

(* SELECT ... FOR UPDATE, the first statement of revoke, leave and remove: *)
(* it waits for the row, and a device that has no row is a 404.            *)
LockDevice(t) ==
  /\ status # "absent"
  /\ DeviceFree
  /\ lock' = t

(* Commit and rollback both release the row. *)
Release(t) ==
  /\ lock' = None
  /\ Answer(t)

(* An active admin among S loses the binding, or the role, without the     *)
(* count that revokeBinding makes.                                         *)
Unseats(S) == intact' = (intact /\ S \cap ActiveAdmins = {})

(* Sets revoked_at on the active bindings of S. *)
RevokeAll(S) == revoked' = [u \in Users |-> IF u \in S /\ Active(u) THEN TRUE ELSE revoked[u]]

-----------------------------------------------------------------------------
(* enrol.go *)

mintEnrolToken(u) ==
  /\ "enrol" \in Ops
  /\ u \in accounts
  /\ tokens[u] < MaxTokens
  /\ tokens' = [tokens EXCEPT ![u] = @ + 1]
  /\ UNCHANGED <<accounts, status, role, revoked, invite, lock, req, intact>>

(* expires_at passes on a token nobody used. *)
TokenExpires(u) ==
  /\ "expire" \in Ops
  /\ tokens[u] > 0
  /\ tokens' = [tokens EXCEPT ![u] = @ - 1]
  /\ UNCHANGED <<accounts, status, role, revoked, invite, lock, req, intact>>

enrolDeviceNoToken(u) ==
  /\ DeviceFree
  /\ status # "disabled"
  /\ tokens' = [tokens EXCEPT ![u] = @ - 1]
  /\ status' = "active"
  /\ role' = [role EXCEPT ![u] = IF Active(u) THEN @ ELSE "admin"]
  /\ revoked' = [revoked EXCEPT ![u] = FALSE]
  /\ intact' = (intact \/ role'[u] = "admin")
  /\ UNCHANGED <<accounts, invite, lock, req>>

(* One transaction: consume the token, upsert the device (which waits for  *)
(* the row), refuse a disabled one, and bind the token's user as admin     *)
(* unless an active binding is already there.  A refusal rolls back, the   *)
(* token with it.                                                          *)
enrolDevice(u) ==
  /\ tokens[u] > 0
  /\ DeviceFree
  /\ status # "disabled"
  /\ tokens' = [tokens EXCEPT ![u] = @ - 1]
  /\ status' = "active"
  /\ role' = [role EXCEPT ![u] = IF Active(u) THEN @ ELSE "admin"]
  /\ revoked' = [revoked EXCEPT ![u] = FALSE]
  /\ intact' = (intact \/ role'[u] = "admin")
  /\ UNCHANGED <<accounts, invite, lock, req>>

(* The UPDATE of the device row reads the caller's binding in its          *)
(* snapshot, then may wait for the row.                                    *)
disableDeviceRead(t, u) ==
  /\ "disable" \in Ops
  /\ req[t].at = "idle"
  /\ u \in accounts
  /\ status # "absent"
  /\ isActiveAdmin(u)
  /\ req' = [req EXCEPT ![t] = [Idle EXCEPT !.at = "disable_write", !.who = u]]
  /\ UNCHANGED <<accounts, status, role, revoked, invite, tokens, lock, intact>>

disableDeviceWrite(t) ==
  /\ req[t].at = "disable_write"
  /\ DeviceFree
  /\ status' = "disabled"
  /\ Answer(t)
  /\ UNCHANGED <<accounts, role, revoked, invite, tokens, lock, intact>>

(* The PC takes itself off every account.  It takes no lock on the device  *)
(* row; a device that has no row is answered ok and nothing changes.       *)
unenrolDevice ==
  /\ "unenrol" \in Ops
  /\ status # "absent"
  /\ RevokeAll(Users)
  /\ Unseats(Users)
  /\ UNCHANGED <<accounts, status, role, invite, tokens, lock, req>>

-----------------------------------------------------------------------------
(* invite.go *)

(* A fresh random code, then SELECT the device's status.  Any answer but   *)
(* "active" ends in an error and changes nothing.                          *)
createInviteStatus(t, u, r, i) ==
  /\ "invite" \in Ops
  /\ req[t].at = "idle"
  /\ invite[i].state = "unminted"
  /\ \A x \in Reqs : req[x].at \in {"create_admin", "create_insert"} => req[x].inv # i
  /\ u \in accounts
  /\ status = "active"
  /\ req' = [req EXCEPT ![t] = [Idle EXCEPT !.at = "create_admin", !.who = u, !.role = r,
                                       !.inv = i]]
  /\ UNCHANGED <<accounts, status, role, revoked, invite, tokens, lock, intact>>

(* SELECT whether the caller is an active admin, in a snapshot of its own. *)
createInviteAdmin(t) ==
  /\ req[t].at = "create_admin"
  /\ IF isActiveAdmin(req[t].who)
       THEN req' = [req EXCEPT ![t].at = "create_insert"]
       ELSE Answer(t)
  /\ UNCHANGED <<accounts, status, role, revoked, invite, tokens, lock, intact>>

(* The INSERT, its foreign keys (the device row, which may be locked, and  *)
(* the caller's account) and the commit.                                   *)
createInviteInsert(t) ==
  /\ req[t].at = "create_insert"
  /\ DeviceFree
  /\ req[t].who \in accounts
  /\ invite' = [invite EXCEPT ![req[t].inv] =
                  [state |-> "open", by |-> req[t].who, role |-> req[t].role]]
  /\ Answer(t)
  /\ UNCHANGED <<accounts, status, role, revoked, tokens, lock, intact>>

(* The creator's account went away: the foreign key refuses the row. *)
createInviteFails(t) ==
  /\ req[t].at = "create_insert"
  /\ req[t].who \notin accounts
  /\ Answer(t)
  /\ UNCHANGED <<accounts, status, role, revoked, invite, tokens, lock, intact>>

(* expires_at passes on an invite nobody used. *)
InviteExpires(i) ==
  /\ "expire" \in Ops
  /\ invite[i].state = "open"
  /\ invite' = [invite EXCEPT ![i].state = "expired"]
  /\ UNCHANGED <<accounts, status, role, revoked, tokens, lock, req, intact>>

(* The one SELECT that reads the invite, the device's status, whether the  *)
(* creator still administers it and whether the caller is already bound.   *)
redeemInviteSelect(t, u, i) ==
  /\ "redeem" \in Ops
  /\ req[t].at = "idle"
  /\ u \in accounts
  /\ invite[i].state = "open"
  /\ status = "active"
  /\ isActiveAdmin(invite[i].by)
  /\ ~Active(u)
  /\ req' = [req EXCEPT ![t] = [Idle EXCEPT !.at = "redeem_write", !.who = u, !.inv = i]]
  /\ UNCHANGED <<accounts, status, role, revoked, invite, tokens, lock, intact>>

(* The guarded UPDATE's condition, read at the row's latest version. *)
InviteUnused(i) == invite[i].state \in {"open", "expired"}

redeemInviteKeepingRole(t) ==
  LET u == req[t].who
      i == req[t].inv
  IN /\ req[t].at = "redeem_write"
     /\ u \in accounts
     /\ InviteUnused(i)
     /\ role[u] = None => DeviceFree
     /\ invite' = [invite EXCEPT ![i].state = "used"]
     /\ role' = [role EXCEPT ![u] = IF @ = None THEN invite[i].role ELSE @]
     /\ revoked' = [revoked EXCEPT ![u] = FALSE]
     /\ Answer(t)
     /\ Unseats(IF invite[i].role = "admin" THEN {} ELSE {u})
     /\ UNCHANGED <<accounts, status, tokens, lock>>

(* The guarded UPDATE consumes the code, the upsert binds the caller with  *)
(* the code's role, whatever the row says by now, and the transaction      *)
(* commits.  A new row's foreign key waits for the device row; a           *)
(* re-admission on the old row does not.                                   *)
redeemInviteWrite(t) ==
  LET u == req[t].who
      i == req[t].inv
  IN /\ req[t].at = "redeem_write"
     /\ u \in accounts
     /\ InviteUnused(i)
     /\ role[u] = None => DeviceFree
     /\ invite' = [invite EXCEPT ![i].state = "used"]
     /\ role' = [role EXCEPT ![u] = invite[i].role]
     /\ revoked' = [revoked EXCEPT ![u] = FALSE]
     /\ Answer(t)
     /\ Unseats(IF invite[i].role = "admin" THEN {} ELSE {u})
     /\ UNCHANGED <<accounts, status, tokens, lock>>

(* Another request took the code, or an account it refers to is gone. *)
redeemInviteLost(t) ==
  /\ req[t].at = "redeem_write"
  /\ ~InviteUnused(req[t].inv) \/ req[t].who \notin accounts
  /\ Answer(t)
  /\ UNCHANGED <<accounts, status, role, revoked, invite, tokens, lock, intact>>

-----------------------------------------------------------------------------
(* bindings.go *)

revokeBindingUnlocked(t, u, v) ==
  /\ "revoke" \in Ops
  /\ req[t].at = "idle"
  /\ u \in accounts
  /\ status # "absent"
  /\ req' = [req EXCEPT ![t] =
               [Idle EXCEPT !.at = "revoke_check", !.who = u, !.target = v]]
  /\ UNCHANGED <<accounts, status, role, revoked, invite, tokens, lock, intact>>

revokeBindingLock(t, u, v) ==
  /\ "revoke" \in Ops
  /\ req[t].at = "idle"
  /\ u \in accounts
  /\ LockDevice(t)
  /\ req' = [req EXCEPT ![t] =
               [Idle EXCEPT !.at = "revoke_check", !.who = u, !.target = v]]
  /\ UNCHANGED <<accounts, status, role, revoked, invite, tokens, intact>>

revokeBindingCheck(t) ==
  /\ req[t].at = "revoke_check"
  /\ IF isActiveAdmin(req[t].who)
       THEN /\ req' = [req EXCEPT ![t].at = "revoke_count"]
            /\ UNCHANGED lock
       ELSE Release(t)
  /\ UNCHANGED <<accounts, status, role, revoked, invite, tokens, intact>>

CountAdmins == Cardinality(ActiveAdmins)

revokeBindingAnyCount(t) ==
  /\ req[t].at = "revoke_count"
  /\ req' = [req EXCEPT ![t].at = "revoke_write", ![t].more = TRUE]
  /\ UNCHANGED <<accounts, status, role, revoked, invite, tokens, lock, intact>>

(* The UPDATE's snapshot: its subquery counts the active admins here. *)
revokeBindingCount(t) ==
  /\ req[t].at = "revoke_count"
  /\ req' = [req EXCEPT ![t].at = "revoke_write", ![t].more = CountAdmins > 1]
  /\ UNCHANGED <<accounts, status, role, revoked, invite, tokens, lock, intact>>

(* The UPDATE's write: the target's row is read again at its latest        *)
(* version, the count is not.  No row updated is a 404 or, for the last    *)
(* admin, a 409.                                                           *)
revokeBindingWrite(t) ==
  LET v == req[t].target
  IN /\ req[t].at = "revoke_write"
     /\ IF Active(v) /\ (role[v] # "admin" \/ req[t].more)
          THEN revoked' = [revoked EXCEPT ![v] = TRUE]
          ELSE UNCHANGED revoked
     /\ Release(t)
     /\ UNCHANGED <<accounts, status, role, invite, tokens, intact>>

leaveDeviceLock(t, u) ==
  /\ "leave" \in Ops
  /\ req[t].at = "idle"
  /\ u \in accounts
  /\ LockDevice(t)
  /\ req' = [req EXCEPT ![t] = [Idle EXCEPT !.at = "leave_write", !.who = u]]
  /\ UNCHANGED <<accounts, status, role, revoked, invite, tokens, intact>>

(* A guest's active binding is revoked; an admin is refused. *)
leaveDeviceWrite(t) ==
  /\ req[t].at = "leave_write"
  /\ RevokeAll({u \in {req[t].who} : role[u] # "admin"})
  /\ Release(t)
  /\ UNCHANGED <<accounts, status, role, invite, tokens, intact>>

removeDeviceLock(t, u) ==
  /\ "remove" \in Ops
  /\ req[t].at = "idle"
  /\ u \in accounts
  /\ LockDevice(t)
  /\ req' = [req EXCEPT ![t] = [Idle EXCEPT !.at = "remove_check", !.who = u]]
  /\ UNCHANGED <<accounts, status, role, revoked, invite, tokens, intact>>

removeDeviceCheckLeaks(t) ==
  /\ req[t].at = "remove_check"
  /\ IF isActiveAdmin(req[t].who)
       THEN req' = [req EXCEPT ![t].at = "remove_write"]
       ELSE Answer(t)
  /\ UNCHANGED <<accounts, status, role, revoked, invite, tokens, lock, intact>>

removeDeviceCheck(t) ==
  /\ req[t].at = "remove_check"
  /\ IF isActiveAdmin(req[t].who)
       THEN /\ req' = [req EXCEPT ![t].at = "remove_write"]
            /\ UNCHANGED lock
       ELSE Release(t)
  /\ UNCHANGED <<accounts, status, role, revoked, invite, tokens, intact>>

(* Every binding revoked, and the commit.  Closing the tunnel comes after  *)
(* it and is modelled in TunnelRegistry.                                   *)
removeDeviceWrite(t) ==
  /\ req[t].at = "remove_write"
  /\ RevokeAll(Users)
  /\ Release(t)
  /\ Unseats(Users)
  /\ UNCHANGED <<accounts, status, role, invite, tokens>>

-----------------------------------------------------------------------------
(* delete.go *)

(* One transaction.  The foreign keys' ON DELETE rules take the account's  *)
(* bindings, the invites it made and its tokens.                           *)
runAccountDeletion(u) ==
  /\ "delete" \in Ops
  /\ u \in accounts
  /\ accounts' = accounts \ {u}
  /\ role' = [role EXCEPT ![u] = None]
  /\ revoked' = [revoked EXCEPT ![u] = FALSE]
  /\ invite' = [i \in Invites |-> IF invite[i].by = u
                                    THEN [invite[i] EXCEPT !.state = "deleted"]
                                    ELSE invite[i]]
  /\ tokens' = [tokens EXCEPT ![u] = 0]
  /\ Unseats({u})
  /\ UNCHANGED <<status, lock, req>>

-----------------------------------------------------------------------------

(* What the clients and the clock start. *)
Calls ==
  \/ \E u \in Users : mintEnrolToken(u) \/ TokenExpires(u) \/ enrolDevice(u)
                      \/ runAccountDeletion(u)
  \/ \E i \in Invites : InviteExpires(i)
  \/ unenrolDevice
  \/ \E t \in Reqs, u \in Users :
       \/ \E r \in InviteRoles, i \in Invites : createInviteStatus(t, u, r, i)
       \/ \E i \in Invites : redeemInviteSelect(t, u, i)
       \/ \E v \in Users : revokeBindingLock(t, u, v)
       \/ leaveDeviceLock(t, u)
       \/ removeDeviceLock(t, u)
       \/ disableDeviceRead(t, u)

(* The later statements of a request being served. *)
Serve(t) ==
  \/ createInviteAdmin(t)
  \/ createInviteInsert(t)
  \/ createInviteFails(t)
  \/ redeemInviteWrite(t)
  \/ redeemInviteLost(t)
  \/ revokeBindingCheck(t)
  \/ revokeBindingCount(t)
  \/ revokeBindingWrite(t)
  \/ leaveDeviceWrite(t)
  \/ removeDeviceCheck(t)
  \/ removeDeviceWrite(t)
  \/ disableDeviceWrite(t)

Next == Calls \/ \E t \in Reqs : Serve(t)

Spec == Init /\ [][Next]_vars

(* A handler runs to its end and PostgreSQL queues the waiters of a row in *)
(* order, so a request that waits for the device row gets its turn.        *)
FairSpec == Spec /\ \A t \in Reqs : SF_vars(Serve(t))

-----------------------------------------------------------------------------
(* Properties. *)

(* The device row's lock does its work: exactly the request that holds it  *)
(* is between its FOR UPDATE and its commit (bindings.go revokeBinding,    *)
(* leaveDevice, removeDevice), and no path out of a handler keeps it.      *)
LockDiscipline ==
  \A t \in Reqs : req[t].at \in LockedPoints <=> lock = t

(* A user who becomes bound, or whose role changes, spends in that step an *)
(* unused enrolment token of theirs and is admin, or an unused invite and  *)
(* has the role it carries.                                                *)
PaidAccess ==
  \A u \in Users :
    Active(u)' /\ (~Active(u) \/ role'[u] # role[u]) =>
      \/ tokens'[u] < tokens[u] /\ role'[u] = "admin"
      \/ \E i \in Invites : /\ InviteUnused(i)
                            /\ invite'[i].state = "used"
                            /\ role'[u] = invite[i].role

(* Nobody's access or role changes for free: invite.go's single use under  *)
(* racing redemptions, and its promise that a revoked admin cannot climb   *)
(* back through a guest invite.                                            *)
NoFreeAccess == [][PaidAccess]_vars

(* No interleaving of revokes, leaves, invites and enrolments takes the    *)
(* last admin of an enrolled PC: while the only admins who went did so by  *)
(* a revoke, which counts under the device row's lock, one is left         *)
(* (bindings.go revokeBinding).                                            *)
RevokesLeaveAdmin == intact /\ status # "absent" => ActiveAdmins # {}

(* revokeBinding's "a device keeps at least one admin" (bindings.go): once *)
(* a PC is enrolled, it has an active admin.                               *)
DeviceKeepsAdmin == status # "absent" => ActiveAdmins # {}

(* A revoke that takes effect was asked for by somebody who is an active   *)
(* admin when it commits: of two admins revoking each other at the same    *)
(* instant, the second sees the first's result (bindings.go revokeBinding). *)
(* Only what takes no lock, the PC's own unenrolment, the account's        *)
(* deletion or a guest invite, may unseat the caller before the commit.    *)
RevokerStands ==
  [][\A t \in Reqs :
       intact /\ req[t].at = "revoke_write" /\ req'[t].at = "idle" /\ revoked' # revoked
         => isActiveAdmin(req[t].who)]_vars

(* Every request is answered: nobody waits for the device row for ever     *)
(* (migrate.go inTx commits or rolls back on every path).                  *)
RequestsFinish == \A t \in Reqs : req[t].at # "idle" ~> req[t].at = "idle"
=============================================================================
