------------------------------ MODULE AppSync ------------------------------
(***************************************************************************)
(* The server's copy of what a PC shares.  Every change of the list, every *)
(* start and every new tunnel pushes the whole list from a goroutine of    *)
(* its own (device/agent/enrol.go); the server replaces its rows in a      *)
(* transaction (hosted/control-plane/apps.go) whose two statements take    *)
(* the rows one by one and wait for rows another transaction holds.        *)
(***************************************************************************)
EXTENDS Naturals, FiniteSets

CONSTANTS
  Apps,    \* application names
  Pushes   \* bound: pushes in progress at one time

VARIABLES
  apps,    \* agent.st.Apps
  rowsOf,  \* device_apps of the PC, as committed
  active,  \* devices.status is active
  push     \* the pushes

syncVars == <<apps, rowsOf, active, push>>

(* targets is what DELETE saw, deleted and upserted what the transaction   *)
(* has done; clean says that no other push was on its way meanwhile.       *)
Push == [at : {"idle", "spawned", "sent", "delete", "insert", "commit"},
         names : SUBSET Apps, targets : SUBSET Apps, deleted : SUBSET Apps,
         upserted : SUBSET Apps, clean : BOOLEAN]

NoPush == [at |-> "idle", names |-> {}, targets |-> {}, deleted |-> {}, upserted |-> {},
           clean |-> FALSE]

SyncTypeOK ==
  /\ apps \subseteq Apps
  /\ rowsOf \subseteq Apps
  /\ active \in BOOLEAN
  /\ push \in [Pushes -> Push]
  /\ \A r \in Pushes : push[r].deleted \cap push[r].names = {}

SyncInit ==
  /\ apps = {}
  /\ rowsOf = {}
  /\ active = TRUE
  /\ push = [r \in Pushes |-> NoPush]

-----------------------------------------------------------------------------
(* The agent *)

OnItsWay(r) == push[r].at \notin {"idle", "spawned"}

(* setApps, for the server: the list changes and a push is started. *)
setAppsPush(list, r) ==
  /\ push[r].at = "idle"
  /\ list # apps
  /\ apps' = list
  /\ push' = [push EXCEPT ![r].at = "spawned"]
  /\ UNCHANGED <<rowsOf, active>>

(* A start and a new tunnel push the list as it is. *)
pushAgain(r) ==
  /\ push[r].at = "idle"
  /\ push' = [push EXCEPT ![r].at = "spawned"]
  /\ UNCHANGED <<apps, rowsOf, active>>

(* pushApps takes its snapshot when it runs, and sends that. *)
pushApps(r) ==
  /\ push[r].at = "spawned"
  /\ push' = [q \in Pushes |->
       IF q = r THEN [NoPush EXCEPT !.at = "sent", !.names = apps,
                                    !.clean = ~\E o \in Pushes : OnItsWay(o)]
                ELSE [push[q] EXCEPT !.clean = FALSE]]
  /\ UNCHANGED <<apps, rowsOf, active>>

-----------------------------------------------------------------------------
(* syncApps on the server *)

(* Another transaction that is not over has changed the row. *)
Held(r, n) == \E o \in Pushes \ {r} : n \in push[o].deleted \cup push[o].upserted

Tx(r, new) == push' = [push EXCEPT ![r] = new] /\ UNCHANGED <<apps, rowsOf, active>>

syncNoDelete(r) ==
  /\ push[r].at = "sent"
  /\ IF active THEN Tx(r, [push[r] EXCEPT !.at = "delete"]) ELSE Tx(r, NoPush)

(* The device is read and the DELETE begins, on the rows committed by now. *)
syncBegin(r) ==
  /\ push[r].at = "sent"
  /\ IF active THEN Tx(r, [push[r] EXCEPT !.at = "delete", !.targets = rowsOf \ push[r].names])
               ELSE Tx(r, NoPush)

(* A row another transaction deleted meanwhile is passed over. *)
syncDelete(r) ==
  /\ push[r].at = "delete"
  /\ IF push[r].targets = {}
       THEN Tx(r, [push[r] EXCEPT !.at = "insert", !.targets = push[r].names])
       ELSE \E n \in push[r].targets :
              /\ ~Held(r, n)
              /\ Tx(r, [push[r] EXCEPT !.targets = @ \ {n},
                                       !.deleted = IF n \in rowsOf THEN @ \cup {n} ELSE @])

syncInsert(r) ==
  /\ push[r].at = "insert"
  /\ IF push[r].targets = {}
       THEN Tx(r, [push[r] EXCEPT !.at = "commit"])
       ELSE \E n \in push[r].targets :
              /\ ~Held(r, n)
              /\ Tx(r, [push[r] EXCEPT !.targets = @ \ {n}, !.upserted = @ \cup {n}])

syncCommit(r) ==
  /\ push[r].at = "commit"
  /\ rowsOf' = (rowsOf \ push[r].deleted) \cup push[r].upserted
  /\ push' = [push EXCEPT ![r] = NoPush]
  /\ UNCHANGED <<apps, active>>

(* The request is lost, the agent gives up after enrolTimeout, or the      *)
(* database ends one of two transactions that wait for each other.         *)
syncRollback(r) ==
  /\ push[r].at \in {"sent", "delete", "insert", "commit"}
  /\ Tx(r, NoPush)

disableDeviceApps ==
  /\ active' = ~active
  /\ UNCHANGED <<apps, rowsOf, push>>

syncApps(r) == syncBegin(r) \/ syncDelete(r) \/ syncInsert(r) \/ syncCommit(r) \/ syncRollback(r)

SyncNext ==
  \/ \E r \in Pushes, list \in SUBSET Apps : setAppsPush(list, r)
  \/ \E r \in Pushes : pushAgain(r) \/ pushApps(r) \/ syncApps(r)
  \/ disableDeviceApps

SyncSpec == SyncInit /\ [][SyncNext]_syncVars

-----------------------------------------------------------------------------
(* Properties *)

(* apps.go:47: a push that no other crossed on its way is about to leave   *)
(* exactly the list it sent, whatever mixture crossing pushes left before. *)
PushReplaces ==
  \A r \in Pushes :
    push[r].clean /\ push[r].at = "commit" =>
      (rowsOf \ push[r].deleted) \cup push[r].upserted = push[r].names
=============================================================================
