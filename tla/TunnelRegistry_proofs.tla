----------------------- MODULE TunnelRegistry_proofs -----------------------
(***************************************************************************)
(* Theorems about TunnelRegistry, for any number of devices and            *)
(* connections and any set of endpoints being called.                      *)
(***************************************************************************)
EXTENDS TunnelRegistry, FiniteSetTheorems, TLAPS

(* A handler past its first SELECT knows its device. *)
DevKnown == \A c \in Conns : at[c] \in Points \ {"dialled"} => dev[c] \in Devices

(* A handler holds a displaced tunnel exactly while it has one to close. *)
OldKnown == \A c \in Conns : at[c] = "displace" => old[c] \in Conns

Typed == TypeOK /\ DevKnown /\ OldKnown

(* reg.count() is a number. *)
LEMMA CountType == count \in Nat
<1>1. IsFiniteSet(LiveDevices)
  BY TunnelAssumption, FS_Subset DEF LiveDevices
<1> QED
  BY <1>1, FS_CardinalityType DEF count

(* The server starts in a typed state. *)
LEMMA InitTyped == Init => Typed
BY TunnelAssumption DEF Init, Typed, TypeOK, DevKnown, OldKnown, Points, BeforePut, AfterPut

(* Every statement of openTunnel and of the other handlers keeps the types. *)
LEMMA NextTyped == Typed /\ [Next]_vars => Typed'
<1> SUFFICES ASSUME Typed, [Next]_vars PROVE Typed'
  OBVIOUS
<1> USE TunnelAssumption
    DEF Typed, TypeOK, DevKnown, OldKnown, Points, BeforePut, AfterPut, Goto, Close, accessVars,
        metricVars
<1>1. CASE UNCHANGED vars
  BY <1>1 DEF vars
<1>2. ASSUME NEW c \in Conns, NEW d \in Devices, readStatus(c, d) PROVE Typed'
  BY <1>2 DEF readStatus
<1>3. ASSUME NEW c \in Conns, readBound(c) PROVE Typed'
  BY <1>3 DEF readBound
<1>4. ASSUME NEW c \in Conns, handshakeFails(c) PROVE Typed'
  BY <1>4 DEF handshakeFails
<1>5. ASSUME NEW c \in Conns, put(c) PROVE Typed'
  BY <1>5 DEF put
<1>6. ASSUME NEW c \in Conns, displace(c) PROVE Typed'
  BY <1>6 DEF displace
<1>7. ASSUME NEW c \in Conns, countLive(c) PROVE Typed'
  BY <1>7, CountType DEF countLive
<1>8. ASSUME NEW c \in Conns, SetLiveTunnels(c) PROVE Typed'
  BY <1>8 DEF SetLiveTunnels
<1>9. ASSUME NEW c \in Conns, watch(c) PROVE Typed'
  BY <1>9 DEF watch
<1>10. ASSUME NEW c \in Conns, drop(c) PROVE Typed'
  BY <1>10 DEF drop
<1>11. ASSUME NEW c \in Conns, countDropped(c) PROVE Typed'
  BY <1>11, CountType DEF countDropped
<1>12. ASSUME NEW c \in Conns, SetLiveDropped(c) PROVE Typed'
  BY <1>12 DEF SetLiveDropped
<1>13. ASSUME NEW c \in Conns, agentGone(c) PROVE Typed'
  BY <1>13 DEF agentGone
<1>14. ASSUME NEW d \in Devices, \/ enrolDevice(d) \/ unenrolDevice(d) \/ disableDevice(d)
                                 \/ removeDeviceCommit(d) \/ removeDeviceClose(d)
       PROVE  Typed'
  BY <1>14 DEF enrolDevice, unenrolDevice, disableDevice, removeDeviceCommit, removeDeviceClose
<1> QED
  BY <1>1, <1>2, <1>3, <1>4, <1>5, <1>6, <1>7, <1>8, <1>9, <1>10, <1>11, <1>12, <1>13, <1>14
  DEF Next, openTunnel

(* The registry, the handlers' local variables and the metrics keep their  *)
(* types: in particular what openTunnel closes after put is a tunnel and   *)
(* never the nil that put returns for a device that had none.              *)
THEOREM TypeCorrect == Spec => []TypeOK
<1>1. Spec => []Typed
  BY InitTyped, NextTyped, PTL DEF Spec
<1> QED
  BY <1>1, PTL DEF Typed

-----------------------------------------------------------------------------

(* Somebody put a newer tunnel over c and has still to close it. *)
Pending(c) == \E x \in Conns : at[x] = "displace" /\ old[x] = c

(* Its handler is still to decide whether c is the live one. *)
Running == AfterPut \ {"dropped", "gauge_drop", "done"}

(* The books on one tunnel: it is live, or waits for one of the two places *)
(* that record an end, or its one end is recorded.                         *)
Booked(c) ==
  /\ at[c] \notin AfterPut => ends[c] = 0
  /\ \A d \in Devices : live[d] = c =>
       dev[c] = d /\ at[c] \in Running /\ ends[c] = 0 /\ ~Pending(c)
  /\ Pending(c) => at[c] \in AfterPut \ {"dropped"} /\ ends[c] = 0
  /\ at[c] = "dropped" => ends[c] = 0
  /\ at[c] \in AfterPut \ {"dropped"} /\ live[dev[c]] # c /\ ~Pending(c) => ends[c] = 1

(* No tunnel is displaced twice. *)
OneDisplacer ==
  \A x, y \in Conns : at[x] = "displace" /\ at[y] = "displace" /\ old[x] = old[y] => x = y

(* A handler that drops its tunnel has closed it. *)
DropsClosed == \A c \in Conns : at[c] = "drop" => c \in closed

Ledger == (\A c \in Conns : Booked(c)) /\ OneDisplacer /\ DropsClosed

(* With no connection yet the books are empty. *)
LEMMA InitLedger == Init => Ledger
BY TunnelAssumption DEF Init, Ledger, Booked, Pending, OneDisplacer, DropsClosed, AfterPut, Running

(* Every step keeps the books. *)
LEMMA NextLedger == Typed /\ Ledger /\ [Next]_vars => Ledger'
<1> SUFFICES ASSUME Typed, Ledger, [Next]_vars PROVE Ledger'
  OBVIOUS
<1> USE TunnelAssumption
    DEF Typed, TypeOK, DevKnown, OldKnown, Points, BeforePut, AfterPut, Running, Goto, Close, accessVars,
        metricVars, Ledger, Booked, Pending, OneDisplacer, DropsClosed
<1>1. CASE UNCHANGED vars
  BY <1>1 DEF vars
<1>2. ASSUME NEW c \in Conns, NEW d \in Devices, readStatus(c, d) PROVE Ledger'
  BY <1>2 DEF readStatus
<1>3. ASSUME NEW c \in Conns, readBound(c) PROVE Ledger'
  BY <1>3 DEF readBound
<1>4. ASSUME NEW c \in Conns, handshakeFails(c) PROVE Ledger'
  BY <1>4 DEF handshakeFails
<1>5. ASSUME NEW c \in Conns, put(c) PROVE Ledger'
  BY <1>5 DEF put
<1>6. ASSUME NEW c \in Conns, displace(c) PROVE Ledger'
  BY <1>6 DEF displace
<1>7. ASSUME NEW c \in Conns, countLive(c) PROVE Ledger'
  BY <1>7 DEF countLive
<1>8. ASSUME NEW c \in Conns, SetLiveTunnels(c) PROVE Ledger'
  BY <1>8 DEF SetLiveTunnels
<1>9. ASSUME NEW c \in Conns, watch(c) PROVE Ledger'
  BY <1>9 DEF watch
<1>10. ASSUME NEW c \in Conns, drop(c) PROVE Ledger'
  BY <1>10 DEF drop
<1>11. ASSUME NEW c \in Conns, countDropped(c) PROVE Ledger'
  BY <1>11, CountType DEF countDropped
<1>12. ASSUME NEW c \in Conns, SetLiveDropped(c) PROVE Ledger'
  BY <1>12 DEF SetLiveDropped
<1>13. ASSUME NEW c \in Conns, agentGone(c) PROVE Ledger'
  BY <1>13 DEF agentGone
<1>14. ASSUME NEW d \in Devices, \/ enrolDevice(d) \/ unenrolDevice(d) \/ disableDevice(d)
                                 \/ removeDeviceCommit(d) \/ removeDeviceClose(d)
       PROVE  Ledger'
  BY <1>14 DEF enrolDevice, unenrolDevice, disableDevice, removeDeviceCommit, removeDeviceClose
<1> QED
  BY <1>1, <1>2, <1>3, <1>4, <1>5, <1>6, <1>7, <1>8, <1>9, <1>10, <1>11, <1>12, <1>13, <1>14
  DEF Next, openTunnel

(* The invariant both theorems below rest on. *)
LEMMA LedgerKept == Spec => [](Typed /\ Ledger)
BY InitTyped, InitLedger, NextTyped, NextLedger, PTL DEF Spec

(* tunnel.go drop: "the replacement stands and only one disconnect is      *)
(* recorded".  Once the handlers rest, every tunnel that was ever put is   *)
(* the live one with no end recorded, or gone with exactly one.            *)
THEOREM EndsReconciled == Spec => []Reconciled
<1>1. Typed /\ Ledger => Reconciled
  BY TunnelAssumption
  DEF Typed, TypeOK, DevKnown, Ledger, Booked, Pending, Running, Reconciled, AtRest, Points,
      BeforePut, AfterPut
<1> QED
  BY <1>1, LedgerKept, PTL

-----------------------------------------------------------------------------
(* The refinement of DeviceLink. *)

(* The registry starts with no link. *)
LEMMA InitLink == Init => Link!LinkInit
BY DEF Init, Link!LinkInit, AfterPut

(* A step that moves handlers about without touching the registry is a     *)
(* stuttering step of the abstract link.                                   *)
LEMMA LinkStutters ==
  ASSUME UNCHANGED <<live, closed, dead>>,
         \A c \in Conns : at'[c] \in AfterPut <=> at[c] \in AfterPut
  PROVE  UNCHANGED Link!linkVars
BY DEF Link!linkVars

(* Every step of openTunnel and its neighbours is a step of DeviceLink. *)
LEMMA NextLink == Typed /\ Ledger /\ [Next]_vars => [Link!LinkNext]_(Link!linkVars)
<1> SUFFICES ASSUME Typed, Ledger, [Next]_vars PROVE [Link!LinkNext]_(Link!linkVars)
  OBVIOUS
<1> USE TunnelAssumption
    DEF Typed, TypeOK, Points, BeforePut, AfterPut, Goto, Close, accessVars, metricVars
<1>1. CASE UNCHANGED vars
  BY <1>1, LinkStutters DEF vars
<1>2. ASSUME NEW c \in Conns, NEW d \in Devices, readStatus(c, d)
      PROVE  UNCHANGED Link!linkVars
  BY <1>2, LinkStutters DEF readStatus
<1>3. ASSUME NEW c \in Conns, readBound(c) \/ handshakeFails(c) PROVE UNCHANGED Link!linkVars
  BY <1>3, LinkStutters DEF readBound, handshakeFails
<1>4. ASSUME NEW c \in Conns, put(c) PROVE Link!LinkNext
  <2>1. dev[c] \in Devices
    BY <1>4 DEF put, DevKnown
  <2>2. Link!LinkUp(dev[c], c)
    BY <1>4, <2>1 DEF put, Link!LinkUp
  <2> QED
    BY <2>1, <2>2 DEF Link!LinkNext
<1>5. ASSUME NEW c \in Conns, displace(c) PROVE Link!LinkNext
  <2>1. old[c] \in Conns
    BY <1>5 DEF displace, OldKnown
  <2>2. Link!Lose(old[c])
    BY <1>5, <2>1 DEF displace, Link!Lose
  <2> QED
    BY <2>1, <2>2 DEF Link!LinkNext
<1>6. ASSUME NEW c \in Conns,
             countLive(c) \/ SetLiveTunnels(c) \/ countDropped(c) \/ SetLiveDropped(c)
      PROVE  UNCHANGED Link!linkVars
  BY <1>6, LinkStutters DEF countLive, SetLiveTunnels, countDropped, SetLiveDropped
<1>7. ASSUME NEW c \in Conns, watch(c) PROVE UNCHANGED Link!linkVars
  BY <1>7 DEF watch, Link!linkVars
<1>8. ASSUME NEW c \in Conns, drop(c) PROVE Link!LinkNext \/ UNCHANGED Link!linkVars
  <2>1. CASE live[dev[c]] = c
    <3>1. dev[c] \in Devices /\ c \in closed
      BY <1>8 DEF drop, DevKnown, Ledger, DropsClosed
    <3>2. Link!LinkDown(dev[c])
      BY <1>8, <2>1, <3>1 DEF drop, Link!LinkDown
    <3> QED
      BY <3>1, <3>2 DEF Link!LinkNext
  <2>2. CASE live[dev[c]] # c
    BY <1>8, <2>2, LinkStutters DEF drop
  <2> QED
    BY <2>1, <2>2
<1>9. ASSUME NEW c \in Conns, agentGone(c) PROVE Link!LinkNext
  <2>1. Link!Lose(c)
    BY <1>9 DEF agentGone, Link!Lose
  <2> QED
    BY <2>1 DEF Link!LinkNext
<1>10. ASSUME NEW d \in Devices, \/ enrolDevice(d) \/ unenrolDevice(d) \/ disableDevice(d)
                                 \/ removeDeviceCommit(d)
       PROVE  UNCHANGED Link!linkVars
  BY <1>10, LinkStutters DEF enrolDevice, unenrolDevice, disableDevice, removeDeviceCommit
<1>11. ASSUME NEW d \in Devices, removeDeviceClose(d)
       PROVE  Link!LinkNext \/ UNCHANGED Link!linkVars
  <2>1. CASE live[d] = None
    BY <1>11, <2>1, LinkStutters DEF removeDeviceClose
  <2>2. CASE live[d] # None
    <3>1. live[d] \in Conns
      BY <2>2
    <3>2. Link!Lose(live[d])
      BY <1>11, <3>1 DEF removeDeviceClose, Link!Lose
    <3> QED
      BY <3>1, <3>2 DEF Link!LinkNext
  <2> QED
    BY <2>1, <2>2
<1> QED
  BY <1>1, <1>2, <1>3, <1>4, <1>5, <1>6, <1>7, <1>8, <1>9, <1>10, <1>11 DEF Next, openTunnel

(* tunnel.go implements DeviceLink: a device has at most one link, a new   *)
(* connection replaces it, and only a link whose own connection was lost   *)
(* or closed goes down, so a handler that ends late never takes a          *)
(* replacement with it.                                                    *)
THEOREM RegistryIsLink == Spec => Link!LinkSpec
<1>1. Spec => [][Link!LinkNext]_(Link!linkVars)
  BY LedgerKept, NextLink, PTL DEF Spec
<1>2. Spec => Link!LinkInit
  BY InitLink DEF Spec
<1> QED
  BY <1>1, <1>2, PTL DEF Link!LinkSpec
=============================================================================
