-------------------------- MODULE Bindings_proofs --------------------------
(***************************************************************************)
(* Theorems about Bindings, for any number of users, invites and requests. *)
(***************************************************************************)
EXTENDS Bindings, FiniteSetTheorems, TLAPS

(* What a request between two statements remembers. *)
ReqOK ==
  \A t \in Reqs :
    /\ req[t].at \in {"create_admin", "create_insert"} =>
         req[t].inv \in Invites /\ req[t].role \in InviteRoles
    /\ req[t].at = "redeem_write" => req[t].inv \in Invites /\ req[t].who \in Users
    /\ req[t].at \in {"revoke_check", "revoke_count", "revoke_write"} =>
         req[t].target \in Users /\ req[t].who \in Users
    /\ req[t].at = "leave_write" => req[t].who \in Users
    /\ req[t].at \in {"disable_write", "redeem_write"} => status # "absent"

Typed == TypeOK /\ ReqOK

(* The first state is typed. *)
LEMMA InitTyped == Init => Typed
BY BindingsAssumption DEF Init, Typed, TypeOK, ReqOK, Statuses, Unminted, Invite, InviteStates,
   Idle, Request, Points

(* Every statement of every handler keeps the types. *)
LEMMA NextTyped == Typed /\ [Next]_vars => Typed'
<1> SUFFICES ASSUME Typed, [Next]_vars PROVE Typed'
  OBVIOUS
<1> USE BindingsAssumption DEF Typed
<1>1. CASE UNCHANGED vars
  BY <1>1 DEF vars, TypeOK, ReqOK
<1>2. ASSUME NEW u \in Users, mintEnrolToken(u) PROVE Typed'
  BY <1>2 DEF mintEnrolToken, TypeOK, ReqOK
<1>3. ASSUME NEW u \in Users, TokenExpires(u) PROVE Typed'
  BY <1>3 DEF TokenExpires, TypeOK, ReqOK
<1>4. ASSUME NEW u \in Users, enrolDevice(u) PROVE Typed'
  BY <1>4 DEF enrolDevice, TypeOK, ReqOK, Statuses, Roles
<1>5. ASSUME NEW u \in Users, runAccountDeletion(u) PROVE Typed'
  BY <1>5 DEF runAccountDeletion, Unseats, TypeOK, ReqOK, Invite, InviteStates
<1>6. ASSUME NEW i \in Invites, InviteExpires(i) PROVE Typed'
  BY <1>6 DEF InviteExpires, TypeOK, ReqOK, Invite, InviteStates
<1>7. CASE unenrolDevice
  BY <1>7 DEF unenrolDevice, RevokeAll, Unseats, TypeOK, ReqOK
<1>8. ASSUME NEW t \in Reqs, NEW u \in Users, NEW r \in InviteRoles, NEW i \in Invites,
             createInviteStatus(t, u, r, i)
      PROVE  Typed'
  BY <1>8 DEF createInviteStatus, TypeOK, ReqOK, Idle, Request, Points, Roles
<1>9. ASSUME NEW t \in Reqs, NEW u \in Users, NEW i \in Invites, redeemInviteSelect(t, u, i)
      PROVE  Typed'
  BY <1>9 DEF redeemInviteSelect, TypeOK, ReqOK, Idle, Request, Points
<1>10. ASSUME NEW t \in Reqs, NEW u \in Users, NEW v \in Users, revokeBindingLock(t, u, v)
       PROVE  Typed'
  BY <1>10 DEF revokeBindingLock, LockDevice, DeviceFree, TypeOK, ReqOK, Idle, Request, Points
<1>11. ASSUME NEW t \in Reqs, NEW u \in Users, leaveDeviceLock(t, u) PROVE Typed'
  BY <1>11 DEF leaveDeviceLock, LockDevice, DeviceFree, TypeOK, ReqOK, Idle, Request, Points
<1>12. ASSUME NEW t \in Reqs, NEW u \in Users, removeDeviceLock(t, u) PROVE Typed'
  BY <1>12 DEF removeDeviceLock, LockDevice, DeviceFree, TypeOK, ReqOK, Idle, Request, Points
<1>13. ASSUME NEW t \in Reqs, NEW u \in Users, disableDeviceRead(t, u) PROVE Typed'
  BY <1>13 DEF disableDeviceRead, TypeOK, ReqOK, Idle, Request, Points
<1>14. ASSUME NEW t \in Reqs, Serve(t) PROVE Typed'
  <2>1. CASE createInviteInsert(t)
    BY <2>1 DEF createInviteInsert, Answer, TypeOK, ReqOK, Idle, Request, Points, Invite, InviteStates
  <2>2. CASE createInviteFails(t)
    BY <2>2 DEF createInviteFails, Answer, TypeOK, ReqOK, Idle, Request, Points
  <2>3. CASE redeemInviteWrite(t)
    <3>1. TypeOK'
      <4>1. /\ invite' \in [Invites -> Invite]
            /\ role' \in [Users -> Roles \cup {None}] /\ revoked' \in [Users -> BOOLEAN]
        BY <2>3 DEF redeemInviteWrite, TypeOK, ReqOK, Invite, InviteStates
      <4>2. req' \in [Reqs -> Request]
        BY <2>3 DEF redeemInviteWrite, Answer, TypeOK, Idle, Request, Points
      <4> QED
        BY <2>3, <4>1, <4>2 DEF redeemInviteWrite, Unseats, TypeOK
    <3>2. req' = [req EXCEPT ![t] = Idle] /\ UNCHANGED status
      BY <2>3 DEF redeemInviteWrite, Answer
    <3>3. ReqOK'
      BY <3>2 DEF TypeOK, ReqOK, Idle
    <3> QED
      BY <3>1, <3>3
  <2>4. CASE redeemInviteLost(t)
    BY <2>4 DEF redeemInviteLost, Answer, TypeOK, ReqOK, Idle, Request, Points
  <2>5. CASE revokeBindingCheck(t)
    <3>1. CASE isActiveAdmin(req[t].who)
      <4>1. req' = [req EXCEPT ![t].at = "revoke_count"]
        BY <2>5, <3>1 DEF revokeBindingCheck
      <4>2. [req[t] EXCEPT !.at = "revoke_count"] \in Request
        BY DEF TypeOK, Request, Points
      <4>3. req' \in [Reqs -> Request]
        BY <4>1, <4>2 DEF TypeOK
      <4> QED
        BY <2>5, <3>1, <4>1, <4>3 DEF revokeBindingCheck, TypeOK, ReqOK
    <3>2. CASE ~isActiveAdmin(req[t].who)
      <4>1. Release(t) /\ UNCHANGED <<accounts, status, role, revoked, invite, tokens, intact>>
        BY <2>5, <3>2 DEF revokeBindingCheck
      <4> QED
        BY <4>1 DEF Release, Answer, TypeOK, ReqOK, Idle, Request, Points
    <3> QED
      BY <3>1, <3>2
  <2>6. CASE revokeBindingCount(t)
    <3> DEFINE more == CountAdmins > 1
               r == [req[t] EXCEPT !.at = "revoke_write", !.more = more]
    <3>1. more \in BOOLEAN
      OBVIOUS
    <3>2. req' = [req EXCEPT ![t] = r]
      BY <2>6 DEF revokeBindingCount, TypeOK
    <3> HIDE DEF more
    <3>3. r \in Request
      <4>1. req[t] \in Request
        BY DEF TypeOK
      <4>2. "revoke_write" \in Points
        BY DEF Points
      <4> QED
        BY <3>1, <4>1, <4>2 DEF Request
    <3>4. /\ r.at = "revoke_write"
          /\ r.target = req[t].target
          /\ r.who = req[t].who
      BY DEF TypeOK, Request
    <3> HIDE DEF r
    <3>5. req' \in [Reqs -> Request]
      BY <3>2, <3>3 DEF TypeOK
    <3>6. /\ req[t].at = "revoke_count"
          /\ UNCHANGED <<accounts, status, role, revoked, invite, tokens, lock, intact>>
      BY <2>6 DEF revokeBindingCount
    <3>7. TypeOK'
      BY <3>5, <3>6 DEF TypeOK
    <3>8. ReqOK'
      BY <3>2, <3>4, <3>6 DEF TypeOK, ReqOK
    <3> QED
      BY <3>7, <3>8
  <2>7. CASE revokeBindingWrite(t)
    BY <2>7 DEF revokeBindingWrite, Release, Answer, TypeOK, ReqOK, Idle, Request, Points
  <2>8. CASE leaveDeviceWrite(t)
    BY <2>8 DEF leaveDeviceWrite, RevokeAll, Release, Answer, TypeOK, ReqOK, Idle, Request, Points
  <2>9. CASE removeDeviceCheck(t)
    <3>1. CASE isActiveAdmin(req[t].who)
      <4>1. req' = [req EXCEPT ![t].at = "remove_write"]
        BY <2>9, <3>1 DEF removeDeviceCheck
      <4>2. [req[t] EXCEPT !.at = "remove_write"] \in Request
        BY DEF TypeOK, Request, Points
      <4>3. req' \in [Reqs -> Request]
        BY <4>1, <4>2 DEF TypeOK
      <4> QED
        BY <2>9, <3>1, <4>1, <4>3 DEF removeDeviceCheck, TypeOK, ReqOK
    <3>2. CASE ~isActiveAdmin(req[t].who)
      <4>1. Release(t) /\ UNCHANGED <<accounts, status, role, revoked, invite, tokens, intact>>
        BY <2>9, <3>2 DEF removeDeviceCheck
      <4> QED
        BY <4>1 DEF Release, Answer, TypeOK, ReqOK, Idle, Request, Points
    <3> QED
      BY <3>1, <3>2
  <2>10. CASE removeDeviceWrite(t)
    BY <2>10 DEF removeDeviceWrite, RevokeAll, Unseats, Release, Answer, TypeOK, ReqOK, Idle, Request, Points
  <2>11. CASE disableDeviceWrite(t)
    BY <2>11 DEF disableDeviceWrite, Answer, TypeOK, ReqOK, Idle, Request, Points, Statuses
  <2>12. CASE createInviteAdmin(t)
    <3>1. CASE isActiveAdmin(req[t].who)
      <4>1. req' = [req EXCEPT ![t].at = "create_insert"]
        BY <2>12, <3>1 DEF createInviteAdmin
      <4>2. [req[t] EXCEPT !.at = "create_insert"] \in Request
        BY DEF TypeOK, Request, Points
      <4>3. req' \in [Reqs -> Request]
        BY <4>1, <4>2 DEF TypeOK
      <4> QED
        BY <2>12, <3>1, <4>1, <4>3 DEF createInviteAdmin, TypeOK, ReqOK
    <3>2. CASE ~isActiveAdmin(req[t].who)
      <4>1. Answer(t) /\ UNCHANGED <<accounts, status, role, revoked, invite, tokens, lock, intact>>
        BY <2>12, <3>2 DEF createInviteAdmin
      <4> QED
        BY <4>1 DEF Answer, TypeOK, ReqOK, Idle, Request, Points
    <3> QED
      BY <3>1, <3>2
  <2> QED
    BY <1>14, <2>1, <2>2, <2>3, <2>4, <2>5, <2>6, <2>7, <2>8, <2>9, <2>10, <2>11, <2>12 DEF Serve
<1> QED
  BY <1>1, <1>2, <1>3, <1>4, <1>5, <1>6, <1>7, <1>8, <1>9, <1>10, <1>11, <1>12, <1>13, <1>14
  DEF Next, Calls

(* Every variable keeps its type, and a request that waits between two     *)
(* statements of enrol.go, invite.go or bindings.go remembers the rows it  *)
(* is about to touch.                                                      *)
THEOREM TypeCorrect == Spec => []TypeOK
<1>1. Spec => []Typed
  BY InitTyped, NextTyped, PTL DEF Spec
<1> QED
  BY <1>1, PTL DEF Typed

-----------------------------------------------------------------------------

(* No step takes a lock that is held, or leaves a handler with one. *)
LEMMA NextLock == Typed /\ LockDiscipline /\ [Next]_vars => LockDiscipline'
<1> SUFFICES ASSUME Typed, LockDiscipline, [Next]_vars PROVE LockDiscipline'
  OBVIOUS
<1> USE BindingsAssumption DEF LockDiscipline, LockedPoints
<1>typed. req \in [Reqs -> Request]
  BY DEF Typed, TypeOK
<1> USE <1>typed
<1>1. CASE UNCHANGED vars
  BY <1>1 DEF vars
<1>2. ASSUME NEW u \in Users, mintEnrolToken(u) \/ TokenExpires(u) \/ enrolDevice(u)
                              \/ runAccountDeletion(u)
      PROVE  LockDiscipline'
  BY <1>2 DEF mintEnrolToken, TokenExpires, enrolDevice, runAccountDeletion
<1>3. ASSUME NEW i \in Invites, InviteExpires(i) PROVE LockDiscipline'
  BY <1>3 DEF InviteExpires
<1>4. CASE unenrolDevice
  BY <1>4 DEF unenrolDevice
<1>5. ASSUME NEW t \in Reqs, NEW u \in Users, NEW r \in InviteRoles, NEW i \in Invites,
             createInviteStatus(t, u, r, i)
      PROVE  LockDiscipline'
  BY <1>5 DEF createInviteStatus, Idle
<1>6. ASSUME NEW t \in Reqs, NEW u \in Users, NEW i \in Invites, redeemInviteSelect(t, u, i)
      PROVE  LockDiscipline'
  BY <1>6 DEF redeemInviteSelect, Idle
<1>7. ASSUME NEW t \in Reqs, NEW u \in Users, disableDeviceRead(t, u) PROVE LockDiscipline'
  BY <1>7 DEF disableDeviceRead, Idle
<1>8. ASSUME NEW t \in Reqs, NEW u \in Users, NEW v \in Users, revokeBindingLock(t, u, v)
      PROVE  LockDiscipline'
  BY <1>8 DEF revokeBindingLock, LockDevice, DeviceFree, Idle
<1>9. ASSUME NEW t \in Reqs, NEW u \in Users, leaveDeviceLock(t, u) PROVE LockDiscipline'
  BY <1>9 DEF leaveDeviceLock, LockDevice, DeviceFree, Idle
<1>10. ASSUME NEW t \in Reqs, NEW u \in Users, removeDeviceLock(t, u) PROVE LockDiscipline'
  BY <1>10 DEF removeDeviceLock, LockDevice, DeviceFree, Idle
<1>11. ASSUME NEW t \in Reqs, Serve(t) PROVE LockDiscipline'
  <2>1. CASE \/ createInviteInsert(t) \/ createInviteFails(t) \/ redeemInviteWrite(t)
             \/ redeemInviteLost(t) \/ disableDeviceWrite(t)
    <3>1. /\ req[t].at \in {"create_insert", "redeem_write", "disable_write"}
          /\ req' = [req EXCEPT ![t] = Idle]
          /\ UNCHANGED lock
      BY <2>1 DEF createInviteInsert, createInviteFails, redeemInviteWrite, redeemInviteLost,
                  disableDeviceWrite, Answer
    <3> QED
      BY <3>1 DEF Idle
  <2>2. CASE /\ req[t].at \in LockedPoints
             /\ \/ UNCHANGED lock /\ \E p \in LockedPoints : req'[t].at = p
                \/ Release(t)
             /\ \A x \in Reqs \ {t} : req'[x] = req[x]
    <3>1. CASE Release(t)
      BY <2>2, <3>1 DEF Release, Answer, Idle
    <3>2. CASE UNCHANGED lock /\ \E p \in LockedPoints : req'[t].at = p
      BY <2>2, <3>2
    <3> QED
      BY <2>2, <3>1, <3>2
  <2>3. CASE revokeBindingCheck(t)
    BY <2>2, <2>3 DEF revokeBindingCheck, Release, Answer, Request
  <2>4. CASE revokeBindingCount(t)
    <3>1. /\ req'[t].at = "revoke_write"
          /\ \A x \in Reqs \ {t} : req'[x] = req[x]
      BY <2>4 DEF revokeBindingCount, Request
    <3> QED
      BY <2>2, <2>4, <3>1 DEF revokeBindingCount
  <2>5. CASE removeDeviceCheck(t)
    BY <2>2, <2>5 DEF removeDeviceCheck, Release, Answer, Request
  <2>6. CASE revokeBindingWrite(t) \/ leaveDeviceWrite(t) \/ removeDeviceWrite(t)
    BY <2>2, <2>6 DEF revokeBindingWrite, leaveDeviceWrite, removeDeviceWrite, Release, Answer
  <2>7. CASE createInviteAdmin(t)
    <3>1. /\ req[t].at = "create_admin" /\ req'[t].at \in {"create_insert", "idle"}
          /\ \A x \in Reqs \ {t} : req'[x] = req[x]
          /\ UNCHANGED lock
      BY <2>7 DEF createInviteAdmin, Answer, Idle, Request
    <3> QED
      BY <3>1
  <2> QED
    BY <1>11, <2>1, <2>3, <2>4, <2>5, <2>6, <2>7 DEF Serve
<1> QED
  BY <1>1, <1>2, <1>3, <1>4, <1>5, <1>6, <1>7, <1>8, <1>9, <1>10, <1>11 DEF Next, Calls

(* Nobody holds the device row at first. *)
LEMMA InitLock == Init => LockDiscipline
BY BindingsAssumption DEF Init, LockDiscipline, LockedPoints, Idle

(* The row lock of revokeBinding, leaveDevice and removeDevice is held by  *)
(* exactly the request that is between its FOR UPDATE and its commit,      *)
(* whatever else the server is doing.                                      *)
THEOREM LockHeld == Spec => []LockDiscipline
<1>1. Spec => [](Typed /\ LockDiscipline)
  BY InitTyped, NextTyped, InitLock, NextLock, PTL DEF Spec
<1> QED
  BY <1>1, PTL

-----------------------------------------------------------------------------

(* A step that gives nobody a role and lifts no revocation. *)
LEMMA NoGrant ==
  ASSUME \A u \in Users : role'[u] # None => role'[u] = role[u] /\ (revoked[u] => revoked'[u])
  PROVE  PaidAccess
BY DEF PaidAccess, Active

(* Only enrolDevice and redeemInviteWrite grant, and both pay. *)
LEMMA NextPaid == Typed /\ [Next]_vars => PaidAccess
<1> SUFFICES ASSUME Typed, [Next]_vars PROVE PaidAccess
  OBVIOUS
<1> USE BindingsAssumption
<1>1. CASE UNCHANGED vars
  BY <1>1, NoGrant DEF vars
<1>2. ASSUME NEW u \in Users, mintEnrolToken(u) \/ TokenExpires(u) PROVE PaidAccess
  BY <1>2, NoGrant DEF mintEnrolToken, TokenExpires
<1>3. ASSUME NEW u \in Users, enrolDevice(u) PROVE PaidAccess
  BY <1>3 DEF enrolDevice, PaidAccess, Active, Typed, TypeOK
<1>4. ASSUME NEW u \in Users, runAccountDeletion(u) PROVE PaidAccess
  <2>1. \A v \in Users : role'[v] # None => role'[v] = role[v] /\ (revoked[v] => revoked'[v])
    BY <1>4 DEF runAccountDeletion, Typed, TypeOK
  <2> QED
    BY <2>1, NoGrant
<1>5. ASSUME NEW i \in Invites, InviteExpires(i) PROVE PaidAccess
  BY <1>5, NoGrant DEF InviteExpires
<1>6. CASE unenrolDevice
  <2>1. \A v \in Users : role'[v] # None => role'[v] = role[v] /\ (revoked[v] => revoked'[v])
    BY <1>6 DEF unenrolDevice, RevokeAll, Typed, TypeOK
  <2> QED
    BY <2>1, NoGrant
<1>7. ASSUME NEW t \in Reqs, NEW u \in Users,
             \/ \E r \in InviteRoles, i \in Invites : createInviteStatus(t, u, r, i)
             \/ \E i \in Invites : redeemInviteSelect(t, u, i)
             \/ \E v \in Users : revokeBindingLock(t, u, v)
             \/ leaveDeviceLock(t, u)
             \/ removeDeviceLock(t, u)
             \/ disableDeviceRead(t, u)
      PROVE  PaidAccess
  <2>1. UNCHANGED <<role, revoked>>
    BY <1>7 DEF createInviteStatus, redeemInviteSelect, revokeBindingLock, leaveDeviceLock,
                removeDeviceLock, disableDeviceRead
  <2> QED
    BY <2>1, NoGrant
<1>8. ASSUME NEW t \in Reqs, Serve(t) PROVE PaidAccess
  <2>1. CASE redeemInviteWrite(t)
    <3> DEFINE w == req[t].who
               i == req[t].inv
    <3>1. i \in Invites /\ w \in Users
      BY <2>1 DEF redeemInviteWrite, Typed, ReqOK
    <3>2. /\ InviteUnused(i)
          /\ role'[w] = invite[i].role
          /\ \A u \in Users \ {w} : role'[u] = role[u] /\ revoked'[u] = revoked[u]
      BY <2>1, <3>1 DEF redeemInviteWrite, Typed, TypeOK
    <3>3. invite'[i].state = "used"
      BY <2>1, <3>1 DEF redeemInviteWrite, Typed, TypeOK, Invite
    <3> HIDE DEF w, i
    <3> QED
      BY <3>1, <3>2, <3>3 DEF PaidAccess, Active
  <2>2. CASE \/ createInviteInsert(t) \/ createInviteFails(t) \/ redeemInviteLost(t)
             \/ revokeBindingCheck(t) \/ revokeBindingCount(t) \/ removeDeviceCheck(t)
             \/ disableDeviceWrite(t) \/ createInviteAdmin(t)
    <3>1. UNCHANGED <<role, revoked>>
      BY <2>2 DEF createInviteAdmin, createInviteInsert, createInviteFails, redeemInviteLost, revokeBindingCheck,
                  revokeBindingCount, removeDeviceCheck, disableDeviceWrite
    <3> QED
      BY <3>1, NoGrant
  <2>3. CASE revokeBindingWrite(t) \/ leaveDeviceWrite(t) \/ removeDeviceWrite(t)
    <3>1. \A v \in Users : role'[v] = role[v] /\ (revoked[v] => revoked'[v])
      BY <2>3 DEF revokeBindingWrite, leaveDeviceWrite, removeDeviceWrite, RevokeAll, Typed, TypeOK
    <3> QED
      BY <3>1, NoGrant
  <2> QED
    BY <1>8, <2>1, <2>2, <2>3 DEF Serve
<1> QED
  BY <1>1, <1>2, <1>3, <1>4, <1>5, <1>6, <1>7, <1>8 DEF Next, Calls

(* Nobody becomes bound, and nobody's role changes, without an unused      *)
(* enrolment token or an unused invite of that role being consumed in the  *)
(* same step, however many redemptions race (invite.go redeemInvite,       *)
(* enrol.go enrolDevice).                                                  *)
THEOREM AccessIsPaidFor == Spec => NoFreeAccess
<1>1. Typed /\ [Next]_vars => [PaidAccess]_vars
  BY NextPaid
<1>2. Spec => [][PaidAccess]_vars
  BY <1>1, InitTyped, NextTyped, PTL DEF Spec
<1> QED
  BY <1>2 DEF NoFreeAccess

-----------------------------------------------------------------------------
(* The last admin.  DeviceKeepsAdmin does not hold (see the run            *)
(* bindings_lastadmin); RevokesLeaveAdmin does, as long as every admin who *)
(* went did so by a revoke.                                                *)

(* Before the PC is enrolled nobody is bound to it. *)
NoRowsYet == status = "absent" => \A u \in Users : role[u] = None

(* What a revoke has read while it holds the device row stays true. *)
SawTruth(t) ==
  /\ req[t].at \in {"revoke_count", "revoke_write"} => isActiveAdmin(req[t].who)
  /\ req[t].at = "revoke_write" /\ req[t].more =>
       \E a, b \in Users : a # b /\ isActiveAdmin(a) /\ isActiveAdmin(b)

RevokeSawTruth == intact => \A t \in Reqs : SawTruth(t)

KeepInv == NoRowsYet /\ RevokeSawTruth /\ RevokesLeaveAdmin

(* Before the PC is enrolled there is nothing to keep. *)
LEMMA InitKeep == Init => KeepInv
BY BindingsAssumption
DEF Init, KeepInv, NoRowsYet, RevokeSawTruth, SawTruth, RevokesLeaveAdmin, Idle

(* A set that counts more than one has two different members. *)
LEMMA TwoOfMany ==
  ASSUME NEW S, IsFiniteSet(S), Cardinality(S) > 1
  PROVE  \E a, b \in S : a # b
<1>1. S # {}
  BY FS_EmptySet
<1>2. PICK a \in S : TRUE
  BY <1>1
<1>3. CASE S \subseteq {a}
  <2>1. IsFiniteSet({a}) /\ Cardinality({a}) = 1
    BY FS_Singleton
  <2>2. Cardinality(S) <= Cardinality({a})
    BY <1>3, <2>1, FS_Subset
  <2> QED
    BY <2>1, <2>2, FS_CardinalityType
<1> QED
  BY <1>2, <1>3

(* What revokeBinding's subquery counted: two different admins. *)
LEMMA CountedTwo ==
  ASSUME CountAdmins > 1
  PROVE  \E a, b \in Users : a # b /\ isActiveAdmin(a) /\ isActiveAdmin(b)
<1>1. IsFiniteSet(ActiveAdmins)
  BY BindingsAssumption, FS_Subset DEF ActiveAdmins
<1>2. \E a, b \in ActiveAdmins : a # b
  BY <1>1, TwoOfMany DEF CountAdmins
<1> QED
  BY <1>2 DEF ActiveAdmins

(* A request's first statement changes no row that is modelled here but    *)
(* the lock.                                                               *)
LEMMA CallReads ==
  ASSUME NEW t \in Reqs, NEW u \in Users,
         \/ \E r \in InviteRoles, i \in Invites : createInviteStatus(t, u, r, i)
         \/ \E i \in Invites : redeemInviteSelect(t, u, i)
         \/ \E v \in Users : revokeBindingLock(t, u, v)
         \/ leaveDeviceLock(t, u)
         \/ removeDeviceLock(t, u)
         \/ disableDeviceRead(t, u)
  PROVE  UNCHANGED <<status, role, revoked, intact>>
BY DEF createInviteStatus, redeemInviteSelect, revokeBindingLock, leaveDeviceLock,
       removeDeviceLock, disableDeviceRead

(* What the steps do to the admins.  Only an enrolment makes the history   *)
(* intact again, and while it stays intact only a revoke's write takes an  *)
(* admin away.                                                             *)
AdminsStay == intact /\ intact' => \A v \in Users : isActiveAdmin(v) => isActiveAdmin(v)'

LEMMA NextAdminsStay ==
  ASSUME Typed, [Next]_vars
  PROVE  \/ \E u \in Users : enrolDevice(u) /\ AdminsStay
         \/ \E t \in Reqs : revokeBindingWrite(t)
         \/ (intact' => intact) /\ AdminsStay
<1> USE BindingsAssumption DEF isActiveAdmin, AdminsStay
<1> DEFINE Stay == (intact' => intact) /\ AdminsStay
<1>1. CASE UNCHANGED <<role, revoked, intact>>
  BY <1>1
<1>2. ASSUME NEW u \in Users, enrolDevice(u) PROVE AdminsStay
  BY <1>2 DEF enrolDevice, Active, Typed, TypeOK
<1>3. ASSUME NEW t \in Reqs, redeemInviteWrite(t) PROVE Stay
  <2> DEFINE w == req[t].who
             g == invite[req[t].inv].role
  <2>1. /\ role' = [role EXCEPT ![w] = g] /\ revoked' = [revoked EXCEPT ![w] = FALSE]
        /\ intact' = (intact /\ (IF g = "admin" THEN {} ELSE {w}) \cap ActiveAdmins = {})
        /\ w \in Users
    BY <1>3 DEF redeemInviteWrite, Unseats, Typed, ReqOK
  <2> HIDE DEF w, g
  <2>2. CASE g = "admin"
    BY <2>1, <2>2 DEF Typed, TypeOK
  <2>3. CASE g # "admin"
    <3>1. intact' => intact /\ w \notin ActiveAdmins
      BY <2>1, <2>3
    <3>2. intact' => ~isActiveAdmin(w)
      BY <2>1, <3>1 DEF ActiveAdmins
    <3>3. \A v \in Users \ {w} : role'[v] = role[v] /\ revoked'[v] = revoked[v]
      BY <2>1 DEF Typed, TypeOK
    <3> QED
      BY <3>1, <3>2, <3>3
  <2> QED
    BY <2>2, <2>3
<1>4. ASSUME NEW t \in Reqs, leaveDeviceWrite(t) PROVE Stay
  BY <1>4 DEF leaveDeviceWrite, RevokeAll, Active, Typed, TypeOK
<1>5. ASSUME UNCHANGED vars PROVE Stay
  BY <1>1, <1>5 DEF vars
<1>6. ASSUME NEW u \in Users, mintEnrolToken(u) \/ TokenExpires(u) PROVE Stay
  BY <1>1, <1>6 DEF mintEnrolToken, TokenExpires
<1>7. ASSUME NEW i \in Invites, InviteExpires(i) PROVE Stay
  BY <1>1, <1>7 DEF InviteExpires
<1>8. ASSUME NEW t \in Reqs, NEW u \in Users,
             \/ \E r \in InviteRoles, i \in Invites : createInviteStatus(t, u, r, i)
             \/ \E i \in Invites : redeemInviteSelect(t, u, i)
             \/ \E v \in Users : revokeBindingLock(t, u, v)
             \/ leaveDeviceLock(t, u)
             \/ removeDeviceLock(t, u)
             \/ disableDeviceRead(t, u)
      PROVE  Stay
  BY <1>1, <1>8, CallReads
<1>9. ASSUME NEW t \in Reqs, \/ createInviteAdmin(t) \/ createInviteInsert(t)
                             \/ createInviteFails(t) \/ redeemInviteLost(t)
                             \/ revokeBindingCheck(t) \/ revokeBindingCount(t)
                             \/ removeDeviceCheck(t) \/ disableDeviceWrite(t)
      PROVE  Stay
  <2>1. UNCHANGED <<role, revoked, intact>>
    BY <1>9 DEF createInviteAdmin, createInviteInsert, createInviteFails, redeemInviteLost,
                revokeBindingCheck, revokeBindingCount, removeDeviceCheck, disableDeviceWrite
  <2> QED
    BY <1>1, <2>1
<1>10. ASSUME Unseats(Users) PROVE Stay
  BY <1>10 DEF Unseats, ActiveAdmins
<1>11. ASSUME NEW u \in Users, runAccountDeletion(u) PROVE Stay
  <2>1. intact' => intact /\ ~isActiveAdmin(u)
    BY <1>11 DEF runAccountDeletion, Unseats, ActiveAdmins
  <2>2. \A v \in Users \ {u} : role'[v] = role[v] /\ revoked'[v] = revoked[v]
    BY <1>11 DEF runAccountDeletion, Typed, TypeOK
  <2> QED
    BY <2>1, <2>2
<1> HIDE DEF Stay
<1>12. ASSUME NEW t \in Reqs, Serve(t) PROVE Stay \/ revokeBindingWrite(t)
  <2>1. ASSUME removeDeviceWrite(t) PROVE Stay
    BY <1>10, <2>1 DEF removeDeviceWrite
  <2> QED
    BY <1>3, <1>4, <1>9, <1>12, <2>1 DEF Serve
<1>13. ASSUME Calls PROVE Stay \/ \E u \in Users : enrolDevice(u) /\ AdminsStay
  <2>1. ASSUME unenrolDevice PROVE Stay
    BY <1>10, <2>1 DEF unenrolDevice
  <2> QED
    BY <1>2, <1>6, <1>7, <1>8, <1>11, <1>13, <2>1 DEF Calls
<1>14. \/ Stay \/ \E u \in Users : enrolDevice(u) /\ AdminsStay
       \/ \E t \in Reqs : revokeBindingWrite(t)
  BY <1>5, <1>12, <1>13 DEF Next
<1> QED
  BY <1>14 DEF Stay

(* No revoke is under way when an enrolment commits: it waited for the     *)
(* device row.                                                             *)
LEMMA EnrolAlone ==
  ASSUME LockDiscipline, NEW u \in Users, enrolDevice(u)
  PROVE  RevokeSawTruth'
<1>1. lock = None /\ UNCHANGED req
  BY DEF enrolDevice, DeviceFree
<1>2. \A t \in Reqs : req'[t].at \notin {"revoke_count", "revoke_write"}
  BY <1>1, BindingsAssumption DEF LockDiscipline, LockedPoints
<1> QED
  BY <1>2 DEF RevokeSawTruth, SawTruth

(* While a revoke holds the device row no other revoke writes, so what it *)
(* read about the caller and the count is still so when it writes.        *)
LEMMA NextSawTruth ==
  ASSUME Typed, LockDiscipline, RevokeSawTruth, [Next]_vars
  PROVE  RevokeSawTruth'
<1> USE BindingsAssumption
<1>typed. req \in [Reqs -> Request]
  BY DEF Typed, TypeOK
<1>1. ASSUME NEW t \in Reqs, revokeBindingWrite(t) PROVE RevokeSawTruth'
  <2>1. \A x \in Reqs \ {t} : req[x].at \notin LockedPoints
    BY <1>1 DEF LockDiscipline, revokeBindingWrite, LockedPoints
  <2>2. req' = [req EXCEPT ![t] = Idle]
    BY <1>1 DEF revokeBindingWrite, Release, Answer
  <2> QED
    BY <1>typed, <2>1, <2>2 DEF RevokeSawTruth, SawTruth, LockedPoints, Idle
<1>2. ASSUME NEW u \in Users, enrolDevice(u) PROVE RevokeSawTruth'
  BY <1>2, EnrolAlone
<1>3. ASSUME intact', intact' => intact, AdminsStay PROVE RevokeSawTruth'
  <2>1. \A v \in Users : isActiveAdmin(v) => isActiveAdmin(v)'
    BY <1>3 DEF AdminsStay
  <2>2. ASSUME NEW x \in Reqs, req'[x] = req[x] PROVE SawTruth(x)'
    <3>1. req[x].at \in {"revoke_count", "revoke_write"} => req[x].who \in Users
      BY DEF Typed, ReqOK
    <3>2. SawTruth(x)
      BY <1>3 DEF RevokeSawTruth
    <3> QED
      BY <2>1, <2>2, <3>1, <3>2 DEF SawTruth, isActiveAdmin
  <2>3. ASSUME NEW x \in Reqs, req'[x].at \notin {"revoke_count", "revoke_write"}
        PROVE  SawTruth(x)'
    BY <2>3 DEF SawTruth
  <2>4. ASSUME NEW t \in Reqs, revokeBindingCheck(t) PROVE RevokeSawTruth'
    <3>1. \A x \in Reqs \ {t} : req'[x] = req[x]
      BY <1>typed, <2>4 DEF revokeBindingCheck, Release, Answer
    <3>2. CASE isActiveAdmin(req[t].who)
      <4>1. /\ req'[t].at = "revoke_count"
            /\ req'[t].who = req[t].who
            /\ req[t].who \in Users
        BY <1>typed, <2>4, <3>2 DEF revokeBindingCheck, Request, Typed, ReqOK
      <4>2. SawTruth(t)'
        BY <2>1, <3>2, <4>1 DEF SawTruth, isActiveAdmin
      <4> QED
        BY <2>2, <3>1, <4>2 DEF RevokeSawTruth
    <3>3. CASE ~isActiveAdmin(req[t].who)
      <4>1. req'[t].at = "idle"
        BY <1>typed, <2>4, <3>3 DEF revokeBindingCheck, Release, Answer, Idle
      <4> QED
        BY <2>2, <2>3, <3>1, <4>1 DEF RevokeSawTruth
    <3> QED
      BY <3>2, <3>3
  <2>5. ASSUME NEW t \in Reqs, revokeBindingCount(t) PROVE RevokeSawTruth'
    <3>1. /\ req[t].at = "revoke_count"
          /\ req'[t].who = req[t].who
          /\ req'[t].more = (CountAdmins > 1)
          /\ \A x \in Reqs \ {t} : req'[x] = req[x]
          /\ UNCHANGED <<role, revoked>>
      BY <1>typed, <2>5 DEF revokeBindingCount, Request
    <3>2. req'[t].more => \E a, b \in Users : a # b /\ isActiveAdmin(a) /\ isActiveAdmin(b)
      BY <3>1, CountedTwo
    <3>3. isActiveAdmin(req[t].who)
      BY <1>3, <3>1 DEF RevokeSawTruth, SawTruth
    <3>4. SawTruth(t)'
      BY <3>1, <3>2, <3>3 DEF SawTruth, isActiveAdmin
    <3> QED
      BY <2>2, <3>1, <3>4 DEF RevokeSawTruth
  <2>6. ASSUME NEW t \in Reqs, req'[t].at \notin {"revoke_count", "revoke_write"},
               \A x \in Reqs \ {t} : req'[x] = req[x]
        PROVE  RevokeSawTruth'
    BY <2>2, <2>3, <2>6 DEF RevokeSawTruth
  <2>7. ASSUME UNCHANGED req PROVE RevokeSawTruth'
    BY <2>2, <2>7 DEF RevokeSawTruth
  <2>8. CASE UNCHANGED vars
    BY <2>7, <2>8 DEF vars
  <2>9. ASSUME Calls PROVE RevokeSawTruth'
    <3>1. ASSUME NEW t \in Reqs, NEW u \in Users,
                 \/ \E r \in InviteRoles, i \in Invites : createInviteStatus(t, u, r, i)
                 \/ \E i \in Invites : redeemInviteSelect(t, u, i)
                 \/ \E v \in Users : revokeBindingLock(t, u, v)
                 \/ leaveDeviceLock(t, u)
                 \/ removeDeviceLock(t, u)
                 \/ disableDeviceRead(t, u)
          PROVE  RevokeSawTruth'
      <4>1. /\ \A x \in Reqs \ {t} : req'[x] = req[x]
            /\ req'[t].at \notin {"revoke_count", "revoke_write"}
        <5>1. CASE \E r \in InviteRoles, i \in Invites : createInviteStatus(t, u, r, i)
          BY <1>typed, <5>1 DEF createInviteStatus, Idle
        <5>2. CASE \E i \in Invites : redeemInviteSelect(t, u, i)
          BY <1>typed, <5>2 DEF redeemInviteSelect, Idle
        <5>3. CASE \E v \in Users : revokeBindingLock(t, u, v)
          BY <1>typed, <5>3 DEF revokeBindingLock, Idle
        <5>4. CASE leaveDeviceLock(t, u) \/ removeDeviceLock(t, u) \/ disableDeviceRead(t, u)
          BY <1>typed, <5>4 DEF leaveDeviceLock, removeDeviceLock, disableDeviceRead, Idle
        <5> QED
          BY <3>1, <5>1, <5>2, <5>3, <5>4
      <4> QED
        BY <2>6, <4>1
    <3>2. CASE UNCHANGED req
      BY <2>7, <3>2
    <3> QED
      BY <2>9, <3>1, <3>2 DEF Calls, mintEnrolToken, TokenExpires, enrolDevice,
         runAccountDeletion, InviteExpires, unenrolDevice
  <2>10. ASSUME NEW t \in Reqs, Serve(t) PROVE RevokeSawTruth'
    <3>1. CASE req' = [req EXCEPT ![t] = Idle]
      <4>1. req'[t].at = "idle" /\ \A x \in Reqs \ {t} : req'[x] = req[x]
        BY <1>typed, <3>1 DEF Idle
      <4> QED
        BY <2>6, <4>1
    <3>2. CASE createInviteAdmin(t) \/ removeDeviceCheck(t)
      <4>1. /\ req'[t].at \in {"create_insert", "remove_write", "idle"}
            /\ \A x \in Reqs \ {t} : req'[x] = req[x]
        BY <1>typed, <3>2 DEF createInviteAdmin, removeDeviceCheck, Release, Answer, Idle, Request
      <4> QED
        BY <2>6, <4>1
    <3>3. CASE \/ createInviteInsert(t) \/ createInviteFails(t) \/ redeemInviteWrite(t)
               \/ redeemInviteLost(t) \/ leaveDeviceWrite(t) \/ removeDeviceWrite(t)
               \/ disableDeviceWrite(t)
      BY <3>1, <3>3 DEF createInviteInsert, createInviteFails, redeemInviteWrite,
         redeemInviteLost, leaveDeviceWrite, removeDeviceWrite, disableDeviceWrite, Release, Answer
    <3> QED
      BY <1>1, <2>4, <2>5, <2>10, <3>2, <3>3 DEF Serve
  <2> QED
    BY <2>8, <2>9, <2>10 DEF Next
<1>4. CASE ~intact'
  BY <1>4 DEF RevokeSawTruth
<1> QED
  BY <1>1, <1>2, <1>3, <1>4, NextAdminsStay

(* An enrolment puts the device there, a disable finds it there, and no    *)
(* other step changes devices.status.                                      *)
LEMMA NextStatus ==
  ASSUME Typed, [Next]_vars
  PROVE  \/ UNCHANGED status
         \/ \E u \in Users : enrolDevice(u)
         \/ status # "absent" /\ status' # "absent" /\ UNCHANGED <<role, revoked, intact>>
<1>1. UNCHANGED vars => UNCHANGED status
  BY DEF vars
<1>2. ASSUME Calls PROVE UNCHANGED status \/ \E u \in Users : enrolDevice(u)
  <2>1. \A u \in Users : mintEnrolToken(u) \/ TokenExpires(u) \/ runAccountDeletion(u)
                           => UNCHANGED status
    BY DEF mintEnrolToken, TokenExpires, runAccountDeletion
  <2>2. (\E i \in Invites : InviteExpires(i)) \/ unenrolDevice => UNCHANGED status
    BY DEF InviteExpires, unenrolDevice
  <2> QED
    BY <1>2, <2>1, <2>2, CallReads DEF Calls
<1>3. ASSUME NEW t \in Reqs, Serve(t) PROVE UNCHANGED status \/ disableDeviceWrite(t)
  BY <1>3 DEF Serve, createInviteAdmin, createInviteInsert, createInviteFails, redeemInviteWrite,
     redeemInviteLost, revokeBindingCheck, revokeBindingCount, revokeBindingWrite,
     leaveDeviceWrite, removeDeviceCheck, removeDeviceWrite
<1>4. ASSUME NEW t \in Reqs, disableDeviceWrite(t)
      PROVE  status # "absent" /\ status' # "absent" /\ UNCHANGED <<role, revoked, intact>>
  BY <1>4 DEF disableDeviceWrite, Typed, ReqOK
<1> QED
  BY <1>1, <1>2, <1>3, <1>4 DEF Next

(* Nobody is bound before the PC is enrolled. *)
LEMMA NextNoRows ==
  ASSUME Typed, NoRowsYet, [Next]_vars
  PROVE  NoRowsYet'
<1> USE DEF NoRowsYet
<1>1. CASE \E u \in Users : enrolDevice(u)
  BY <1>1 DEF enrolDevice
<1>2. ASSUME status = "absent", UNCHANGED status,
             \A u \in Users : ~enrolDevice(u)
      PROVE  \A u \in Users : role'[u] = None
  <2>1. ASSUME NEW t \in Reqs PROVE ~redeemInviteWrite(t)
    BY <1>2 DEF redeemInviteWrite, Typed, ReqOK
  <2>2. CASE UNCHANGED role
    BY <1>2, <2>2
  <2>3. ASSUME NEW u \in Users, runAccountDeletion(u) PROVE \A v \in Users : role'[v] = None
    BY <1>2, <2>3 DEF runAccountDeletion, Typed, TypeOK
  <2>4. UNCHANGED vars => UNCHANGED role
    BY DEF vars
  <2>5. ASSUME NEW t \in Reqs, Serve(t) PROVE UNCHANGED role
    BY <2>1, <2>5 DEF Serve, createInviteAdmin, createInviteInsert, createInviteFails,
       redeemInviteLost, revokeBindingCheck, revokeBindingCount, revokeBindingWrite,
       leaveDeviceWrite, removeDeviceCheck, removeDeviceWrite, disableDeviceWrite
  <2>6. ASSUME Calls PROVE UNCHANGED role \/ \E u \in Users : runAccountDeletion(u)
    <3>1. \A u \in Users : mintEnrolToken(u) \/ TokenExpires(u) => UNCHANGED role
      BY DEF mintEnrolToken, TokenExpires
    <3>2. (\E i \in Invites : InviteExpires(i)) \/ unenrolDevice => UNCHANGED role
      BY DEF InviteExpires, unenrolDevice
    <3> QED
      BY <1>2, <2>6, <3>1, <3>2, CallReads DEF Calls
  <2> QED
    BY <2>2, <2>3, <2>4, <2>5, <2>6 DEF Next
<1> QED
  BY <1>1, <1>2, NextStatus

(* Every step leaves an admin: a revoke that takes one counted another. *)
LEMMA NextKeepsAdmin ==
  ASSUME Typed, KeepInv, [Next]_vars
  PROVE  RevokesLeaveAdmin'
<1> USE BindingsAssumption
<1> SUFFICES ASSUME intact', status' # "absent" PROVE ActiveAdmins' # {}
  BY DEF RevokesLeaveAdmin
<1>1. ASSUME NEW t \in Reqs, revokeBindingWrite(t) PROVE ActiveAdmins' # {}
  <2> DEFINE v == req[t].target
  <2>1. /\ intact /\ status # "absent" /\ UNCHANGED role
        /\ v \in Users
    BY <1>1 DEF revokeBindingWrite, Typed, ReqOK
  <2>2. PICK c \in Users : isActiveAdmin(c)
    BY <2>1 DEF KeepInv, RevokesLeaveAdmin, ActiveAdmins
  <2>3. CASE UNCHANGED revoked
    BY <2>1, <2>2, <2>3 DEF ActiveAdmins, isActiveAdmin
  <2>4. CASE revoked' = [revoked EXCEPT ![v] = TRUE] /\ role[v] # "admin"
    BY <2>1, <2>2, <2>4 DEF ActiveAdmins, isActiveAdmin, Typed, TypeOK
  <2>5. CASE req[t].more /\ revoked' = [revoked EXCEPT ![v] = TRUE]
    <3>1. PICK a \in Users, b \in Users : a # b /\ isActiveAdmin(a) /\ isActiveAdmin(b)
      BY <1>1, <2>1, <2>5 DEF revokeBindingWrite, KeepInv, RevokeSawTruth, SawTruth
    <3>2. isActiveAdmin(a)' \/ isActiveAdmin(b)'
      BY <2>1, <2>5, <3>1 DEF isActiveAdmin, Typed, TypeOK
    <3> QED
      BY <3>2 DEF ActiveAdmins
  <2> QED
    BY <1>1, <2>3, <2>4, <2>5 DEF revokeBindingWrite
<1>2. ASSUME NEW u \in Users, enrolDevice(u), AdminsStay PROVE ActiveAdmins' # {}
  <2>1. CASE role'[u] = "admin"
    BY <1>2, <2>1 DEF enrolDevice, ActiveAdmins, isActiveAdmin, Typed, TypeOK
  <2>2. CASE role'[u] # "admin"
    <3>1. intact /\ Active(u)
      BY <1>2, <2>2 DEF enrolDevice, Typed, TypeOK
    <3>2. status # "absent"
      BY <3>1 DEF KeepInv, NoRowsYet, Active
    <3> QED
      BY <1>2, <3>1, <3>2 DEF KeepInv, RevokesLeaveAdmin, ActiveAdmins, AdminsStay
  <2> QED
    BY <2>1, <2>2
<1>3. ASSUME intact, AdminsStay, \A u \in Users : ~enrolDevice(u) PROVE ActiveAdmins' # {}
  <2>1. status # "absent"
    BY <1>3, NextStatus
  <2> QED
    BY <1>3, <2>1 DEF KeepInv, RevokesLeaveAdmin, ActiveAdmins, AdminsStay
<1> QED
  BY <1>1, <1>2, <1>3, NextAdminsStay

(* The inductive invariant behind the two theorems below. *)
LEMMA KeepInvariant == Spec => [](Typed /\ LockDiscipline /\ KeepInv)
<1>1. Typed /\ LockDiscipline /\ KeepInv /\ [Next]_vars => KeepInv'
  BY NextNoRows, NextSawTruth, NextKeepsAdmin DEF KeepInv
<1> QED
  BY <1>1, InitTyped, InitLock, InitKeep, NextTyped, NextLock, PTL DEF Spec

(* revokeBinding counts the admins under the device row's lock: as long as *)
(* every admin who went did so by a revoke, no interleaving of revokes,    *)
(* leaves, redemptions, enrolments and disables takes the last one.  What  *)
(* takes one without counting is the removal or the unenrolment of the PC, *)
(* the deletion of the account and a guest invite an admin redeems.        *)
THEOREM AdminKept == Spec => []RevokesLeaveAdmin
<1> QED
  BY KeepInvariant, PTL DEF KeepInv

(* With the same history a revoke that takes effect was asked for by an    *)
(* admin who still is one when it commits (bindings.go revokeBinding reads *)
(* the caller's role under the device row's lock).                         *)
THEOREM RevokerStillAdmin == Spec => RevokerStands
<1> DEFINE Stands == \A t \in Reqs :
             intact /\ req[t].at = "revoke_write" /\ req'[t].at = "idle" /\ revoked' # revoked
               => isActiveAdmin(req[t].who)
<1>1. KeepInv => Stands
  BY DEF KeepInv, RevokeSawTruth, SawTruth
<1>2. Spec => [](Typed /\ LockDiscipline /\ KeepInv)
  BY KeepInvariant
<1>3. Spec => [][Stands]_vars
  BY <1>1, <1>2, PTL DEF Spec
<1> QED
  BY <1>3 DEF RevokerStands
=============================================================================
