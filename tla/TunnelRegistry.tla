--------------------------- MODULE TunnelRegistry ---------------------------
(***************************************************************************)
(* The server's end of the tunnels: the map from a device to its live      *)
(* connection, and the openTunnel handlers that put connections into it,   *)
(* watch them and take them out (hosted/control-plane/tunnel.go), with the *)
(* requests that change whether a device may hold one (enrol.go,           *)
(* bindings.go).  reg.mu makes put, drop, get and count atomic; everything *)
(* between them interleaves.                                               *)
(***************************************************************************)
EXTENDS Naturals, FiniteSets

CONSTANTS
  Devices,
  Conns,   \* connections agents dial; each is one run of openTunnel
  None,
  Ops      \* the endpoints the clients call

ASSUME TunnelAssumption ==
  /\ None \notin Devices \cup Conns
  /\ IsFiniteSet(Devices)
  /\ Ops \subseteq {"enrol", "unenrol", "remove", "disable"}

VARIABLES
  bound,     \* devices with a binding whose revoked_at is null
  disabled,  \* devices whose status is disabled
  removing,  \* devices whose removal committed and whose tunnel is to be closed
  live,      \* reg.live
  at,        \* where the handler of each connection is
  dev,       \* deviceID of each connection
  old,       \* the tunnel put returned to this handler
  closed,    \* tunnels whose close() ran
  dead,      \* tunnels not closed whose agent no longer answers or has hung up
  seen,      \* what count() returned to a handler about to set the gauge
  gauge,     \* the tunnels_live metric
  ends       \* how many disconnects were recorded for each tunnel

vars == <<bound, disabled, removing, live, at, dev, old, closed, dead, seen, gauge, ends>>

-----------------------------------------------------------------------------

(* Before put: dialled, status read, bindings read. *)
BeforePut == {"dialled", "status_read", "admitted"}

(* From put to the handler's return. *)
AfterPut == {"displace", "count", "gauge", "watch", "drop", "dropped", "gauge_drop", "done"}

Points == BeforePut \cup AfterPut \cup {"refused"}

LiveDevices == {d \in Devices : live[d] # None}

TypeOK ==
  /\ bound \subseteq Devices
  /\ disabled \subseteq Devices
  /\ removing \subseteq Devices
  /\ live \in [Devices -> Conns \cup {None}]
  /\ at \in [Conns -> Points]
  /\ dev \in [Conns -> Devices \cup {None}]
  /\ old \in [Conns -> Conns \cup {None}]
  /\ closed \subseteq Conns
  /\ dead \subseteq Conns
  /\ seen \in [Conns -> Nat]
  /\ gauge \in Nat
  /\ ends \in [Conns -> Nat]

Init ==
  /\ bound = Devices
  /\ disabled = {}
  /\ removing = {}
  /\ live = [d \in Devices |-> None]
  /\ at = [c \in Conns |-> "dialled"]
  /\ dev = [c \in Conns |-> None]
  /\ old = [c \in Conns |-> None]
  /\ closed = {}
  /\ dead = {}
  /\ seen = [c \in Conns |-> 0]
  /\ gauge = 0
  /\ ends = [c \in Conns |-> 0]

Goto(c, p) == at' = [at EXCEPT ![c] = p]

accessVars == <<bound, disabled, removing>>
metricVars == <<seen, gauge, ends>>

(* close() on each tunnel of S; the ones that were closed stay so. *)
Close(S) ==
  /\ closed' = closed \cup S
  /\ dead' = dead \ S

(* len(reg.live) *)
count == Cardinality(LiveDevices)

-----------------------------------------------------------------------------
(* openTunnel, up to the hijack *)

(* The signed request of device d's agent: SELECT its status. *)
readStatus(c, d) ==
  /\ at[c] = "dialled"
  /\ dev' = [dev EXCEPT ![c] = d]
  /\ Goto(c, IF d \in disabled THEN "refused" ELSE "status_read")
  /\ UNCHANGED <<accessVars, live, old, closed, dead, metricVars>>

(* SELECT EXISTS an active binding; without one the answer is 410 Gone. *)
readBound(c) ==
  /\ at[c] = "status_read"
  /\ Goto(c, IF dev[c] \in bound THEN "admitted" ELSE "refused")
  /\ UNCHANGED <<accessVars, live, dev, old, closed, dead, metricVars>>

(* A query, the hijack, the 101 answer or the HTTP/2 client fails: no      *)
(* tunnel.                                                                 *)
handshakeFails(c) ==
  /\ at[c] \in {"status_read", "admitted"}
  /\ Goto(c, "refused")
  /\ UNCHANGED <<accessVars, live, dev, old, closed, dead, metricVars>>

-----------------------------------------------------------------------------
(* The registry *)

putNoNilCheck(c) ==
  /\ at[c] = "admitted"
  /\ live' = [live EXCEPT ![dev[c]] = c]
  /\ old' = [old EXCEPT ![c] = live[dev[c]]]
  /\ Goto(c, "displace")
  /\ UNCHANGED <<accessVars, dev, closed, dead, metricVars>>

put(c) ==
  /\ at[c] = "admitted"
  /\ live' = [live EXCEPT ![dev[c]] = c]
  /\ old' = [old EXCEPT ![c] = live[dev[c]]]
  /\ Goto(c, IF live[dev[c]] # None THEN "displace" ELSE "count")
  /\ UNCHANGED <<accessVars, dev, closed, dead, metricVars>>

displaceNoClose(c) ==
  /\ at[c] = "displace"
  /\ ends' = [ends EXCEPT ![old[c]] = @ + 1]
  /\ old' = [old EXCEPT ![c] = None]
  /\ Goto(c, "count")
  /\ UNCHANGED <<accessVars, live, dev, closed, dead, seen, gauge>>

(* The tunnel put displaced is closed and its end recorded here. *)
displace(c) ==
  /\ at[c] = "displace"
  /\ Close({old[c]})
  /\ ends' = [ends EXCEPT ![old[c]] = @ + 1]
  /\ old' = [old EXCEPT ![c] = None]
  /\ Goto(c, "count")
  /\ UNCHANGED <<accessVars, live, dev, seen, gauge>>

(* m.SetLiveTunnels(reg.count()): the count is taken under the mutex, the  *)
(* gauge is set after it.                                                  *)
countLive(c) ==
  /\ at[c] = "count"
  /\ seen' = [seen EXCEPT ![c] = count]
  /\ Goto(c, "gauge")
  /\ UNCHANGED <<accessVars, live, dev, old, closed, dead, gauge, ends>>

(* The gauge is set and the connected row written; then watch. *)
SetLiveTunnels(c) ==
  /\ at[c] = "gauge"
  /\ gauge' = seen[c]
  /\ seen' = [seen EXCEPT ![c] = 0]
  /\ Goto(c, "watch")
  /\ UNCHANGED <<accessVars, live, dev, old, closed, dead, ends>>

(* watch returns when somebody closed the tunnel or a ping is not          *)
(* answered, and the handler closes it.                                    *)
watch(c) ==
  /\ at[c] = "watch"
  /\ c \in closed \cup dead
  /\ Close({c})
  /\ Goto(c, "drop")
  /\ UNCHANGED <<accessVars, live, dev, old, metricVars>>

dropAny(c) ==
  /\ at[c] = "drop"
  /\ live' = [live EXCEPT ![dev[c]] = None]
  /\ Goto(c, "dropped")
  /\ UNCHANGED <<accessVars, dev, old, closed, dead, metricVars>>

(* drop takes the tunnel out only while it is still the live one. *)
drop(c) ==
  /\ at[c] = "drop"
  /\ IF live[dev[c]] = c
       THEN /\ live' = [live EXCEPT ![dev[c]] = None]
            /\ Goto(c, "dropped")
       ELSE /\ UNCHANGED live
            /\ Goto(c, "done")
  /\ UNCHANGED <<accessVars, dev, old, closed, dead, metricVars>>

(* The end is recorded, and the count for the gauge taken. *)
countDropped(c) ==
  /\ at[c] = "dropped"
  /\ ends' = [ends EXCEPT ![c] = @ + 1]
  /\ seen' = [seen EXCEPT ![c] = count]
  /\ Goto(c, "gauge_drop")
  /\ UNCHANGED <<accessVars, live, dev, old, closed, dead, gauge>>

SetLiveDropped(c) ==
  /\ at[c] = "gauge_drop"
  /\ gauge' = seen[c]
  /\ seen' = [seen EXCEPT ![c] = 0]
  /\ Goto(c, "done")
  /\ UNCHANGED <<accessVars, live, dev, old, closed, dead, ends>>

-----------------------------------------------------------------------------
(* The other requests and the agents *)

enrolDevice(d) ==
  /\ "enrol" \in Ops
  /\ d \notin disabled
  /\ bound' = bound \cup {d}
  /\ UNCHANGED <<disabled, removing, live, at, dev, old, closed, dead, metricVars>>

(* The PC signs itself out.  Its tunnel is left as it is, as it is when    *)
(* the last account bound to it is deleted (delete.go).                    *)
unenrolDevice(d) ==
  /\ "unenrol" \in Ops
  /\ d \in bound
  /\ bound' = bound \ {d}
  /\ UNCHANGED <<disabled, removing, live, at, dev, old, closed, dead, metricVars>>

disableDevice(d) ==
  /\ "disable" \in Ops
  /\ d \in bound
  /\ disabled' = disabled \cup {d}
  /\ UNCHANGED <<bound, removing, live, at, dev, old, closed, dead, metricVars>>

(* An admin removes the PC: the transaction commits ...                    *)
removeDeviceCommit(d) ==
  /\ "remove" \in Ops
  /\ d \in bound
  /\ bound' = bound \ {d}
  /\ removing' = removing \cup {d}
  /\ UNCHANGED <<disabled, live, at, dev, old, closed, dead, metricVars>>

(* ... and then the tunnel get returns, if there is one, is closed.        *)
removeDeviceClose(d) ==
  /\ d \in removing
  /\ removing' = removing \ {d}
  /\ Close({live[d]} \ {None})
  /\ UNCHANGED <<bound, disabled, live, at, dev, old, metricVars>>

(* External: the PC sleeps, loses its network, or the agent hangs up.  A   *)
(* connection that is closed has nothing left to lose.                     *)
agentGone(c) ==
  /\ c \notin closed \cup dead
  /\ at[c] \in AfterPut
  /\ dead' = dead \cup {c}
  /\ UNCHANGED <<accessVars, live, at, dev, old, closed, metricVars>>

-----------------------------------------------------------------------------

openTunnel(c) ==
  \/ readBound(c)
  \/ put(c)
  \/ displace(c)
  \/ countLive(c)
  \/ SetLiveTunnels(c)
  \/ watch(c)
  \/ drop(c)
  \/ countDropped(c)
  \/ SetLiveDropped(c)

Next ==
  \/ \E c \in Conns : \/ \E d \in Devices : readStatus(c, d)
                      \/ handshakeFails(c)
                      \/ openTunnel(c)
                      \/ agentGone(c)
  \/ \E d \in Devices : \/ enrolDevice(d)
                        \/ unenrolDevice(d)
                        \/ disableDevice(d)
                        \/ removeDeviceCommit(d)
                        \/ removeDeviceClose(d)

Spec == Init /\ [][Next]_vars

(* A handler's goroutine keeps running: locks are held for a map access,   *)
(* pings and writes have deadlines.  Agents and people owe nothing.        *)
Fairness ==
  /\ \A c \in Conns : WF_vars(openTunnel(c))
  /\ \A d \in Devices : WF_vars(removeDeviceClose(d))

FairSpec == Spec /\ Fairness

-----------------------------------------------------------------------------
(* Properties. *)

(* No handler is between two registry operations. *)
AtRest == \A c \in Conns : at[c] \in BeforePut \cup {"refused", "watch", "done"}

(* The comment on drop: "the replacement stands and only one disconnect is *)
(* recorded".  Whatever the order in which a tunnel is replaced, closed,   *)
(* timed out and removed, once the handlers rest every tunnel that was     *)
(* registered is either the live one with no end recorded, or gone with    *)
(* exactly one.                                                            *)
Reconciled ==
  AtRest => \A c \in Conns :
              at[c] \in AfterPut =>
                ends[c] = (IF live[dev[c]] = c THEN 0 ELSE 1)

(* The comment on tunnelRegistry: one device has at most one connection, a *)
(* second one replaces the first, and a restarted agent is never shadowed  *)
(* by the dead session it left behind: tunnel.go implements DeviceLink.    *)
Link == INSTANCE DeviceLink WITH
          link <- live,
          spent <- {c \in Conns : at[c] \in AfterPut},
          lost <- closed \cup dead

ImplementsLink == Link!FairLinkSpec

(* The handlers end: a connection that was replaced, closed or lost is    *)
(* let go of, and the goroutine that held it returns.                      *)
HandlersReturn ==
  \A c \in Conns :
    at[c] \in AfterPut /\ (live[dev[c]] # c \/ c \in closed \cup dead) ~> at[c] = "done"

(* removeDevice's comment (bindings.go): it ends with "every binding       *)
(* revoked and the tunnel closed", as the PC's own sign out does: a device *)
(* nobody is bound to goes offline, unless it is enrolled again.           *)
UnboundGoesOffline ==
  \A d \in Devices : d \notin bound ~> (live[d] = None \/ d \in bound)
=============================================================================
