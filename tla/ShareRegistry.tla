--------------------------- MODULE ShareRegistry ---------------------------
(***************************************************************************)
(* What a PC shares, in the four places that hold it: agent.json, the list *)
(* in memory, the gateway's routes and the running applications            *)
(* (device/agent/enrol.go, state.go, settings.go, share.go, supervisor.go, *)
(* ports.go, gateway.go, serve.go).                                        *)
(*                                                                         *)
(* The settings page, a share that has to change its port, a sign in or    *)
(* sign out that saves the whole file, the start of the agent and the      *)
(* command line all work on a copy they took earlier.  A list is a         *)
(* function from share names to ports; the folder goes with the name.      *)
(***************************************************************************)
EXTENDS Naturals, FiniteSets

CONSTANTS
  Shares,   \* names a folder may be shared under
  Ports,
  MaxApps,  \* maxApps
  NoPort,   \* the name is not shared
  Torn,     \* a file that was cut to nothing and not written yet
  Callers,  \* goroutines of settings requests, sign ins and sign outs
  Mover,    \* the goroutine of moveApp
  Boot,     \* serve, while the agent starts
  Cli,      \* `agent share` on a PC whose agent does not answer
  NoOne,
  WritesFail, \* whether a write of agent.json may fail
  MaxEvents   \* bound: things people, other programs and the PC itself do

ASSUME RegistryAssumption ==
  /\ NoPort \notin Ports
  /\ MaxApps \in Nat
  /\ MaxEvents \in Nat
  /\ WritesFail \in BOOLEAN
  /\ NoOne \notin Callers \cup {Mover, Boot, Cli}
  /\ {Mover, Boot, Cli} \cap Callers = {}
  /\ Mover # Boot /\ Mover # Cli /\ Boot # Cli

VARIABLES
  boot,      \* how far serve has come
  list,      \* agent.st.Apps
  disk,      \* agent.json
  routes,    \* the gateway's routes
  children,  \* the supervisor's loops, one record each
  moved,     \* calls of moveApp that wait for their goroutine
  op,        \* what each goroutine is doing
  mu,        \* agent.mu while the file is written
  sup,       \* supervisor.mu
  taken,     \* ports other programs listen on
  excused,   \* changes overlapped, or a write failed, and nothing repaired it yet
  events     \* how much has happened to the PC from outside

registryVars == <<boot, list, disk, routes, children, moved, op, mu, sup, taken, excused, events>>

Threads == Callers \cup {Mover, Boot, Cli}
Lists == [Shares -> Ports \cup {NoPort}]
Empty == [n \in Shares |-> NoPort]
Names(apps) == {n \in Shares : apps[n] # NoPort}

Valid(apps) == Cardinality(Names(apps)) <= MaxApps

NoCall == [at |-> "idle", apps |-> Empty, alone |-> FALSE]

(* spec is the entry the loop was started for, port the one it uses now.   *)
Child == [name : Shares, spec : Ports, port : Ports,
          at : {"probe", "start", "run", "backoff"}, cancelled : BOOLEAN]

RegistryTypeOK ==
  /\ boot \in {"down", "loaded", "hooked", "up"}
  /\ list \in Lists /\ Valid(list)
  /\ disk \in Lists \cup {Torn}
  /\ routes \in Lists
  /\ \A c \in children : c \in Child
  /\ \A c \in moved : c \in [name : Shares, port : Ports]
  /\ \A t \in Threads :
       /\ op[t].at \in {"idle", "set", "save", "onApps", "stopping", "rebuild", "store",
                        "copied", "writing", "hook", "checkbox"}
       /\ op[t].apps \in Lists
       /\ op[t].alone \in BOOLEAN
  /\ mu \in Callers \cup {Mover, NoOne}
  /\ sup \in Threads \cup {NoOne}
  /\ taken \subseteq Ports
  /\ excused \in {"no", "overlap", "failed"}
  /\ events \in 0..MaxEvents

RegistryInit ==
  /\ boot = "down"
  /\ list = Empty
  /\ disk \in {apps \in Lists : Valid(apps)}
  /\ routes = Empty
  /\ children = {}
  /\ moved = {}
  /\ op = [t \in Threads |-> NoCall]
  /\ mu = NoOne
  /\ sup = NoOne
  /\ taken = {}
  /\ excused = "no"
  /\ events = 0

(* One more thing happens from outside. *)
Event == events < MaxEvents /\ events' = events + 1

-----------------------------------------------------------------------------
(* The ports of the PC *)

InUse(p) == p \in taken \/ \E c \in children : c.at = "run" /\ c.port = p

freePort == {p \in Ports : ~InUse(p)}

(* Other programs come and go. *)
PortTaken(p) ==
  /\ Event
  /\ ~InUse(p)
  /\ taken' = taken \cup {p}
  /\ UNCHANGED <<boot, list, disk, routes, children, moved, op, mu, sup, excused>>

PortGiven(p) ==
  /\ Event
  /\ p \in taken
  /\ taken' = taken \ {p}
  /\ UNCHANGED <<boot, list, disk, routes, children, moved, op, mu, sup, excused>>

-----------------------------------------------------------------------------
(* A goroutine begins with a copy of a list and ends.  The record of what  *)
(* overlapped what is the model's own: the agreement that setApps promises *)
(* is stated for changes that do not.                                      *)

Begin(t, at, apps) ==
  LET others == {u \in Threads \ {t} : op[u].at # "idle"}
  IN /\ op[t].at = "idle"
     /\ op' = [u \in Threads |->
                 IF u = t THEN [at |-> at, apps |-> apps, alone |-> others = {}]
                          ELSE [op[u] EXCEPT !.alone = FALSE]]
     /\ excused' = IF others # {} /\ excused = "no" THEN "overlap" ELSE excused

Go(t, at) == op' = [op EXCEPT ![t].at = at]

(* A whole change nothing else overlapped brings the four together again.  *)
End(t) ==
  /\ op' = [op EXCEPT ![t] = NoCall]
  /\ excused' = IF op[t].alone /\ excused = "overlap" THEN "no" ELSE excused

EndRewrite(t) ==
  /\ op' = [op EXCEPT ![t] = NoCall]
  /\ UNCHANGED excused

-----------------------------------------------------------------------------
(* The settings page and `agent share` on a running agent *)

(* snapshot copies the list under agent.mu. *)
snapshot == mu = NoOne

(* The page answers once the agent is loaded. *)
settingsReady == boot # "down"

(* A name that is given must be new; one made from the folder's gets a     *)
(* number until it is.                                                     *)
shareName(apps) == Shares \ Names(apps)

newShare(apps, n, p) == n \in shareName(apps) /\ p \in freePort

addShare(t, n, p) ==
  /\ Event
  /\ snapshot
  /\ settingsReady
  /\ newShare(list, n, p)
  /\ Begin(t, "set", [list EXCEPT ![n] = p])
  /\ UNCHANGED <<boot, list, disk, routes, children, moved, mu, sup, taken>>

removeShare(t, n) ==
  /\ Event
  /\ snapshot
  /\ settingsReady
  /\ n \in Names(list)
  /\ Begin(t, "set", [list EXCEPT ![n] = NoPort])
  /\ UNCHANGED <<boot, list, disk, routes, children, moved, mu, sup, taken>>

(* moveApp: the copy keeps whatever else the list said when it was taken.  *)
moveApp(m) ==
  /\ snapshot
  /\ m \in moved
  /\ Begin(Mover, "set",
           IF m.name \in Names(list) THEN [list EXCEPT ![m.name] = m.port] ELSE list)
  /\ moved' = moved \ {m}
  /\ UNCHANGED <<boot, list, disk, routes, children, mu, sup, taken, events>>

-----------------------------------------------------------------------------
(* setApps *)

setAppsRefused(t) ==
  /\ op[t].at = "set"
  /\ mu = NoOne
  /\ ~Valid(op[t].apps)
  /\ EndRewrite(t)
  /\ UNCHANGED <<boot, list, disk, routes, children, moved, mu, sup, taken, events>>

setAppsLock(t) ==
  /\ op[t].at = "set"
  /\ mu = NoOne
  /\ Valid(op[t].apps)
  /\ mu' = t
  /\ disk' = Torn
  /\ Go(t, "save")
  /\ UNCHANGED <<boot, list, routes, children, moved, sup, taken, excused, events>>

setAppsSaved(t) ==
  /\ op[t].at = "save"
  /\ disk' = op[t].apps
  /\ list' = op[t].apps
  /\ mu' = NoOne
  /\ Go(t, "onApps")
  /\ UNCHANGED <<boot, routes, children, moved, sup, taken, excused, events>>

(* onApps is nil until serve has set it. *)
setAppsNoHook(t) ==
  /\ op[t].at = "onApps"
  /\ boot = "loaded"
  /\ EndRewrite(t)
  /\ UNCHANGED <<boot, list, disk, routes, children, moved, mu, sup, taken, events>>

(* The checkbox for error reports writes the whole file under the lock.    *)
checkboxLock(t) ==
  /\ Event
  /\ snapshot
  /\ settingsReady
  /\ Begin(t, "checkbox", list)
  /\ mu' = t
  /\ disk' = Torn
  /\ UNCHANGED <<boot, list, routes, children, moved, sup, taken>>

checkboxSaved(t) ==
  /\ op[t].at = "checkbox"
  /\ disk' = op[t].apps
  /\ mu' = NoOne
  /\ EndRewrite(t)
  /\ UNCHANGED <<boot, list, routes, children, moved, sup, taken, events>>

(* The write fails after the file was cut, or the file cannot be opened.   *)
notSaved(t) ==
  /\ Event
  /\ WritesFail
  /\ \/ op[t].at \in {"save", "checkbox"}
     \/ op[t].at = "set" /\ mu = NoOne /\ Valid(op[t].apps)
  /\ mu' = NoOne
  /\ op' = [op EXCEPT ![t] = NoCall]
  /\ excused' = "failed"
  /\ UNCHANGED <<boot, list, disk, routes, children, moved, sup, taken>>

(* supervisor.set: what is no longer wanted as it runs is told to stop.    *)
Wanted(c, apps) == c.name \in Names(apps) /\ apps[c.name] = c.spec

setStop(t) ==
  /\ op[t].at = "onApps"
  /\ boot # "loaded"
  /\ sup = NoOne
  /\ sup' = t
  /\ children' = {IF Wanted(c, op[t].apps) THEN c ELSE [c EXCEPT !.cancelled = TRUE] : c \in children}
  /\ Go(t, "stopping")
  /\ UNCHANGED <<boot, list, disk, routes, moved, mu, taken, excused, events>>

Started(apps) ==
  {[name |-> n, spec |-> apps[n], port |-> apps[n], at |-> "probe", cancelled |-> FALSE] :
     n \in Names(apps) \ {c.name : c \in {d \in children : ~d.cancelled}}}

setStartNoWait(t) ==
  /\ op[t].at = "stopping"
  /\ children' = children \cup Started(op[t].apps)
  /\ sup' = NoOne
  /\ IF t = Boot THEN boot' = "up" /\ End(t) ELSE Go(t, "rebuild") /\ UNCHANGED <<boot, excused>>
  /\ UNCHANGED <<list, disk, routes, moved, mu, taken, events>>

(* Only when every loop that was told to stop has ended are the new ones started. *)
setStart(t) ==
  /\ op[t].at = "stopping"
  /\ \A c \in children : ~c.cancelled
  /\ children' = children \cup Started(op[t].apps)
  /\ sup' = NoOne
  /\ IF t = Boot THEN boot' = "up" /\ End(t) ELSE Go(t, "rebuild") /\ UNCHANGED <<boot, excused>>
  /\ UNCHANGED <<list, disk, routes, moved, mu, taken, events>>

(* gateway.rebuild reads the registry as it is by now, then stores. *)
buildGateway(t) ==
  /\ snapshot
  /\ op[t].at = "rebuild"
  /\ op' = [op EXCEPT ![t].at = "store", ![t].apps = list]
  /\ UNCHANGED <<boot, list, disk, routes, children, moved, mu, sup, taken, excused, events>>

rebuildForgotten(t) ==
  /\ op[t].at = "store"
  /\ End(t)
  /\ UNCHANGED <<boot, list, disk, routes, children, moved, mu, sup, taken, events>>

rebuild(t) ==
  /\ op[t].at = "store"
  /\ routes' = op[t].apps
  /\ End(t)
  /\ UNCHANGED <<boot, list, disk, children, moved, mu, sup, taken, events>>

-----------------------------------------------------------------------------
(* superviseApp *)

Replace(c, d) == children' = (children \ {c}) \cup {d}

(* withFreePort, which asks before the loop looks at its context. *)
withFreePortTold(c) ==
  /\ c.at = "probe"
  /\ IF InUse(c.port) /\ freePort # {}
       THEN \E p \in freePort :
              /\ Replace(c, [c EXCEPT !.port = p, !.at = "told"])
              /\ moved' = moved \cup {[name |-> c.name, port |-> p]}
       ELSE Replace(c, [c EXCEPT !.at = "start"]) /\ UNCHANGED moved
  /\ UNCHANGED <<boot, list, disk, routes, op, mu, sup, taken, excused, events>>

withFreePort(c) ==
  /\ c.at = "probe"
  /\ IF InUse(c.port) /\ freePort # {}
       THEN \E p \in freePort :
              /\ Replace(c, [c EXCEPT !.port = p, !.at = "start"])
              /\ moved' = moved \cup {[name |-> c.name, port |-> p]}
       ELSE Replace(c, [c EXCEPT !.at = "start"]) /\ UNCHANGED moved
  /\ UNCHANGED <<boot, list, disk, routes, op, mu, sup, taken, excused, events>>

(* A program whose port is taken exits; one that is told to stop does not start. *)
runApp(c) ==
  /\ c.at = "start"
  /\ IF c.cancelled THEN children' = children \ {c}
                    ELSE Replace(c, [c EXCEPT !.at = IF InUse(c.port) THEN "backoff" ELSE "run"])
  /\ UNCHANGED <<boot, list, disk, routes, moved, op, mu, sup, taken, excused, events>>

appExits(c) ==
  /\ Event
  /\ c.at = "run"
  /\ ~c.cancelled
  /\ Replace(c, [c EXCEPT !.at = "backoff"])
  /\ UNCHANGED <<boot, list, disk, routes, moved, op, mu, sup, taken, excused>>

appStopped(c) ==
  /\ c.at \in {"run", "backoff"}
  /\ c.cancelled
  /\ children' = children \ {c}
  /\ UNCHANGED <<boot, list, disk, routes, moved, op, mu, sup, taken, excused, events>>

appRestarts(c) ==
  /\ c.at = "backoff"
  /\ ~c.cancelled
  /\ Replace(c, [c EXCEPT !.at = "probe"])
  /\ UNCHANGED <<boot, list, disk, routes, moved, op, mu, sup, taken, excused, events>>

superviseApp(c) == withFreePort(c) \/ runApp(c) \/ appStopped(c) \/ appRestarts(c)

-----------------------------------------------------------------------------
(* Writes of the whole file from a copy, without the lock: the end of a    *)
(* sign in or a sign out, and `agent share` while no agent answers.        *)

accountSnapshot(t) ==
  /\ Event
  /\ snapshot
  /\ settingsReady
  /\ Begin(t, "copied", list)
  /\ UNCHANGED <<boot, list, disk, routes, children, moved, mu, sup, taken>>

shareOffline(apps) ==
  /\ Event
  /\ boot = "down"
  /\ disk # Torn
  /\ \/ \E n \in Shares, p \in Ports : newShare(disk, n, p) /\ apps = [disk EXCEPT ![n] = p]
     \/ \E n \in Names(disk) : apps = [disk EXCEPT ![n] = NoPort]
  /\ Valid(apps)
  /\ Begin(Cli, "copied", apps)
  /\ UNCHANGED <<boot, list, disk, routes, children, moved, mu, sup, taken>>

saveStateCut(t) ==
  /\ op[t].at = "copied"
  /\ disk' = Torn
  /\ Go(t, "writing")
  /\ UNCHANGED <<boot, list, routes, children, moved, mu, sup, taken, excused, events>>

saveStateWrite(t) ==
  /\ op[t].at = "writing"
  /\ disk' = op[t].apps
  /\ EndRewrite(t)
  /\ UNCHANGED <<boot, list, routes, children, moved, mu, sup, taken, events>>

-----------------------------------------------------------------------------
(* The agent starts and stops *)

(* loadState refuses a torn file.  The settings page works from here on.   *)
loadAgent ==
  /\ boot = "down"
  /\ disk # Torn
  /\ Begin(Boot, "copied", disk)
  /\ boot' = "loaded"
  /\ list' = disk
  /\ UNCHANGED <<disk, routes, children, moved, mu, sup, taken, events>>

serveSnapshot ==
  /\ snapshot
  /\ op[Boot].at = "copied"
  /\ op' = [op EXCEPT ![Boot].at = "hook", ![Boot].apps = list]
  /\ UNCHANGED <<boot, list, disk, routes, children, moved, mu, sup, taken, excused, events>>

(* newGateway, then onApps is set, then the applications of the copy are   *)
(* started.                                                                *)
serveHook ==
  /\ snapshot
  /\ op[Boot].at = "hook"
  /\ boot' = "hooked"
  /\ routes' = list
  /\ Go(Boot, "onApps")
  /\ UNCHANGED <<list, disk, children, moved, mu, sup, taken, excused, events>>

(* The context ends: the applications are stopped with the agent.  A write *)
(* in progress is cut short, as it is when the power goes.                 *)
Stop(ports) ==
  /\ Event
  /\ boot # "down"
  /\ boot' = "down"
  /\ list' = Empty
  /\ routes' = Empty
  /\ children' = {}
  /\ moved' = {}
  /\ op' = [t \in Threads |-> IF t = Cli THEN [op[t] EXCEPT !.alone = FALSE] ELSE NoCall]
  /\ mu' = NoOne
  /\ sup' = NoOne
  /\ taken' = ports
  /\ excused' = "no"
  /\ UNCHANGED disk

AgentStops == Stop(taken)

(* Killed, the agent leaves its applications behind, on their ports.       *)
AgentKilled == Stop(taken \cup {c.port : c \in {d \in children : d.at = "run"}})

-----------------------------------------------------------------------------

setApps(t) == \/ setAppsRefused(t) \/ setAppsLock(t) \/ setAppsSaved(t)
              \/ setAppsNoHook(t) \/ checkboxSaved(t) \/ setStop(t) \/ setStart(t) \/ buildGateway(t) \/ rebuild(t)

saveState(t) == saveStateCut(t) \/ saveStateWrite(t)

RegistryNext ==
  \/ \E t \in Callers, n \in Shares, p \in Ports : addShare(t, n, p)
  \/ \E t \in Callers, n \in Shares : removeShare(t, n)
  \/ \E t \in Callers : accountSnapshot(t) \/ checkboxLock(t)
  \/ \E m \in moved : moveApp(m)
  \/ \E t \in Threads \ {Cli} : setApps(t) \/ notSaved(t)
  \/ \E t \in Callers \cup {Cli} : saveState(t)
  \/ \E apps \in Lists : shareOffline(apps)
  \/ \E c \in children : superviseApp(c) \/ appExits(c)
  \/ loadAgent \/ serveSnapshot \/ serveHook
  \/ AgentStops
  \/ AgentKilled
  \/ \E p \in Ports : PortTaken(p) \/ PortGiven(p)

RegistrySpec == RegistryInit /\ [][RegistryNext]_registryVars

(* The agent's goroutines do not all stop while one of them can go on, and *)
(* a program that is told to stop is killed after appStopGrace.  Less than *)
(* the scheduler gives, and enough while events are bounded.               *)
RegistryProgress ==
  \/ \E m \in moved : moveApp(m)
  \/ \E t \in Threads \ {Cli} : setApps(t)
  \/ \E t \in Callers \cup {Cli} : saveState(t)
  \/ serveSnapshot \/ serveHook
  \/ \E c \in children : c.cancelled /\ superviseApp(c)

FairRegistrySpec == RegistrySpec /\ WF_registryVars(RegistryProgress)

-----------------------------------------------------------------------------
(* Properties *)

(* supervisor.go:95: no two copies of an application serve one folder.     *)
OneCopy ==
  \A c, d \in children : c.name = d.name /\ c.at = "run" /\ d.at = "run" => c = d

AtRest == boot = "up" /\ moved = {} /\ \A t \in Threads : op[t].at = "idle"

(* enrol.go:69: once a change that nothing overlapped is done, the file,   *)
(* the list, the routes and the ports the applications listen on agree, no *)
(* matter what earlier overlapping changes left behind.                    *)
RegistryAgrees ==
  AtRest /\ excused = "no" =>
    /\ disk = list
    /\ routes = list
    /\ {<<c.name, c.port>> : c \in children} = {<<n, list[n]>> : n \in Names(list)}

(* Every request, move and start comes to its end: nothing waits for ever  *)
(* on agent.mu, on supervisor.mu or on a loop that waits for it in turn.   *)
ChangesFinish ==
  (\E t \in Threads : op[t].at # "idle") ~> (\A t \in Threads : op[t].at = "idle")

(* enrol.go:103: moveApp "leaves the rest of the list as it is": what it   *)
(* sets differs from the list in one application.                          *)
MoveLeavesTheRest ==
  [][op[Mover].at = "save" /\ boot' # "down"
       => Cardinality({n \in Shares : list'[n] # list[n]}) <= 1]_registryVars
=============================================================================
