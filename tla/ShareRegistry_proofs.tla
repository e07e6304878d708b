------------------------- MODULE ShareRegistry_proofs -------------------------
(***************************************************************************)
(* Theorems about what the agent shares (ShareRegistry), for any shares,   *)
(* ports and callers and any number of changes.                            *)
(***************************************************************************)
EXTENDS ShareRegistry, FiniteSetTheorems, TLAPS

-----------------------------------------------------------------------------
(* ShareRegistry *)

Stages == {"idle", "set", "save", "onApps", "stopping", "rebuild", "store",
           "copied", "writing", "hook", "checkbox"}
Op == [at : Stages, apps : Lists, alone : BOOLEAN]

(* The types, with what keeps the list within maxApps: every copy that may *)
(* be written to the file or become the list was checked.                  *)
TypesOK ==
  /\ boot \in {"down", "loaded", "hooked", "up"}
  /\ list \in Lists /\ Valid(list)
  /\ disk \in Lists \cup {Torn} /\ (disk # Torn => Valid(disk))
  /\ routes \in Lists
  /\ children \subseteq Child
  /\ moved \subseteq [name : Shares, port : Ports]
  /\ op \in [Threads -> Op]
  /\ \A t \in Threads :
       (op[t].at \in {"save", "checkbox", "copied", "writing"} \/ (t = Mover /\ op[t].at = "set"))
         => Valid(op[t].apps)
  /\ mu \in Callers \cup {Mover, NoOne}
  /\ sup \in Threads \cup {NoOne}
  /\ taken \subseteq Ports
  /\ excused \in {"no", "overlap", "failed"}
  /\ events \in 0..MaxEvents

(* Which goroutine may be where, and how far the start has come.           *)
PlacesOK ==
  /\ \A t \in Callers : op[t].at # "hook"
  /\ op[Mover].at \notin {"copied", "writing", "hook", "checkbox"}
  /\ op[Cli].at \in {"idle", "copied", "writing"}
  /\ boot = "loaded" => op[Boot].at \in {"copied", "hook"}
  /\ boot = "hooked" => op[Boot].at \in {"onApps", "stopping"}
  /\ boot \in {"down", "up"} => op[Boot].at = "idle"
  /\ boot = "down" => \A t \in Threads \ {Cli} : op[t].at = "idle"
  /\ boot \in {"down", "loaded"} =>
       /\ children = {} /\ moved = {} /\ op[Mover].at = "idle"
       /\ \A t \in Threads : op[t].at \notin {"stopping", "rebuild", "store"}

(* A loop that is told to stop is one somebody waits for. *)
StopsOK ==
  /\ (\E c \in children : c.cancelled) => sup # NoOne
  /\ sup # NoOne => op[sup].at = "stopping"

(* An application has one loop. *)
OneLoop == \A c, d \in children : c.name = d.name => c = d

(* What "alone" and "overlapped" mean. *)
OverlapsOK ==
  /\ \A t, u \in Threads : op[t].alone /\ u # t => op[u].at = "idle"
  /\ excused = "no" => \A t, u \in Threads : op[t].at # "idle" /\ op[u].at # "idle" => t = u
  /\ boot # "down" /\ op[Cli].at # "idle" => excused # "no" /\ ~op[Cli].alone

(* A loop that listens on another port than its entry says: the move is    *)
(* still to come, or is on its way to stop that very loop.                 *)
DriftOK ==
  excused # "failed" =>
    \A c \in children : ~c.cancelled /\ c.port # c.spec =>
      \/ \E m \in moved : m.name = c.name /\ m.port # c.spec
      \/ op[Mover].at \in {"set", "save", "onApps"} /\ ~Wanted(c, op[Mover].apps)

(* The loops are those of a list; routes and loops are those of the list.  *)
Specs(apps) ==
  /\ \A c \in children : ~c.cancelled /\ Wanted(c, apps)
  /\ \A n \in Names(apps) : \E c \in children : c.name = n

Settled == routes = list /\ Specs(list)

(* What a change that nothing overlaps has brought together by each of its *)
(* steps, and what it keeps together.                                      *)
StageOK(t) ==
  /\ op[t].at = "set" /\ excused = "no" => disk = list /\ Settled
  /\ op[t].at \in {"checkbox", "copied", "writing"} /\ t \in Callers /\ excused = "no"
       => op[t].apps = list /\ Settled
  /\ op[t].at = "copied" /\ t = Boot => disk = list
  /\ op[t].at \in {"hook", "onApps", "stopping", "store"} => disk = list /\ op[t].apps = list
  /\ op[t].at \in {"onApps", "stopping"} /\ t = Boot => routes = list
  /\ op[t].at = "stopping" => \A c \in children : ~c.cancelled => Wanted(c, list)
  /\ op[t].at = "rebuild" => disk = list
  /\ op[t].at \in {"rebuild", "store"} => Specs(list)

Solo(t) == op[t].at # "idle" /\ (op[t].alone \/ excused = "no")

StagesOK == \A t \in Threads : Solo(t) => StageOK(t)

RestOK ==
  boot = "up" /\ excused = "no" /\ (\A t \in Threads : op[t].at = "idle") => disk = list /\ Settled

RegistryInv ==
  TypesOK /\ PlacesOK /\ StopsOK /\ OneLoop /\ OverlapsOK /\ DriftOK /\ StagesOK /\ RestOK

(* How the three ways to move a goroutine on change op. *)
LEMMA GoOp ==
  ASSUME op \in [Threads -> Op], NEW t \in Threads, NEW at \in Stages, Go(t, at)
  PROVE  /\ op' \in [Threads -> Op]
         /\ op'[t].at = at /\ op'[t].apps = op[t].apps /\ op'[t].alone = op[t].alone
         /\ \A u \in Threads : u # t => op'[u] = op[u]
  BY DEF Go, Op

LEMMA IdleOp == NoCall \in Op /\ NoCall.at = "idle" /\ NoCall.alone = FALSE /\ NoCall.apps = Empty
<1>1. Empty \in Lists
  BY DEF Empty, Lists
<1> QED
  BY <1>1 DEF NoCall, Op, Stages

LEMMA EndOp ==
  ASSUME op \in [Threads -> Op], NEW t \in Threads, op' = [op EXCEPT ![t] = NoCall]
  PROVE  /\ op' \in [Threads -> Op]
         /\ op'[t].at = "idle" /\ op'[t].alone = FALSE
         /\ \A u \in Threads : u # t => op'[u] = op[u]
  BY IdleOp

LEMMA BeginOp ==
  ASSUME op \in [Threads -> Op], NEW t \in Threads, NEW at \in Stages, NEW apps \in Lists,
         Begin(t, at, apps), excused \in {"no", "overlap", "failed"}
  PROVE  /\ op' \in [Threads -> Op] /\ op[t].at = "idle"
         /\ op'[t].at = at /\ op'[t].apps = apps
         /\ op'[t].alone => \A u \in Threads : u # t => op[u].at = "idle"
         /\ \A u \in Threads : u # t =>
              op'[u].at = op[u].at /\ op'[u].apps = op[u].apps /\ op'[u].alone = FALSE
         /\ excused' \in {"no", "overlap", "failed"} /\ (excused' = "failed" <=> excused = "failed")
         /\ excused' = "no" => excused = "no" /\ \A u \in Threads : u # t => op[u].at = "idle"
<1> DEFINE others == {u \in Threads \ {t} : op[u].at # "idle"}
           new == [at |-> at, apps |-> apps, alone |-> others = {}]
<1>1. /\ op[t].at = "idle"
      /\ op' = [u \in Threads |-> IF u = t THEN new ELSE [op[u] EXCEPT !.alone = FALSE]]
      /\ excused' = IF others # {} /\ excused = "no" THEN "overlap" ELSE excused
  BY DEF Begin
<1>2. others = {} <=> \A u \in Threads : u # t => op[u].at = "idle"
  OBVIOUS
<1>3. new \in Op /\ new.at = at /\ new.apps = apps /\ (new.alone <=> others = {})
  <2> DEFINE b == others = {}
  <2>1. b \in BOOLEAN
    OBVIOUS
  <2> HIDE DEF b
  <2>2. LET x == [at |-> at, apps |-> apps, alone |-> b]
        IN  x \in Op /\ x.at = at /\ x.apps = apps /\ x.alone = b
    BY <2>1 DEF Op
  <2> QED
    BY <2>2 DEF b
<1> HIDE DEF new, others
<1>4. \A u \in Threads :
        LET x == [op[u] EXCEPT !.alone = FALSE]
        IN  x \in Op /\ x.at = op[u].at /\ x.apps = op[u].apps /\ x.alone = FALSE
  BY DEF Op
<1>5. op' \in [Threads -> Op]
  BY <1>1, <1>3, <1>4
<1>6. op'[t] = new /\ \A u \in Threads : u # t => op'[u] = [op[u] EXCEPT !.alone = FALSE]
  BY <1>1
<1> QED
  BY <1>1, <1>2, <1>3, <1>4, <1>5, <1>6

(* What the list has to satisfy. *)
LEMMA EmptyValid == Empty \in Lists /\ Valid(Empty) /\ Names(Empty) = {}
<1>1. Empty \in Lists /\ Names(Empty) = {}
  BY DEF Empty, Lists, Names
<1>2. Cardinality({}) = 0
  BY FS_EmptySet
<1> QED
  BY <1>1, <1>2, RegistryAssumption DEF Valid

LEMMA MovedList ==
  ASSUME NEW apps \in Lists, NEW n \in Names(apps), NEW p \in Ports
  PROVE  [apps EXCEPT ![n] = p] \in Lists /\ Names([apps EXCEPT ![n] = p]) = Names(apps)
  BY RegistryAssumption DEF Lists, Names

(* A goroutine that is on its way goes on or ends: no other one is solo.   *)
LEMMA StepOverlaps ==
  ASSUME OverlapsOK, op \in [Threads -> Op], op' \in [Threads -> Op],
         NEW t \in Threads, op[t].at # "idle",
         \A u \in Threads : u # t => op'[u] = op[u],
         op'[t].alone => op[t].alone,
         excused' = "no" => excused = "no" \/ op[t].alone,
         boot' = "down" <=> boot = "down"
  PROVE  OverlapsOK' /\ \A u \in Threads : Solo(u)' => u = t
<1>1. \A u \in Threads : u # t => ~op[u].alone
  BY DEF OverlapsOK
<1>2. op[t].alone => \A u \in Threads : u # t => op[u].at = "idle"
  BY DEF OverlapsOK
<1>3. excused = "no" => \A u \in Threads : u # t => op[u].at = "idle"
  BY DEF OverlapsOK
<1>4. \A x, y \in Threads : op'[x].alone /\ y # x => op'[y].at = "idle"
  BY <1>1, <1>2
<1>5. excused' = "no" => \A x, y \in Threads : op'[x].at # "idle" /\ op'[y].at # "idle" => x = y
  BY <1>2, <1>3
<1>6. boot' # "down" /\ op'[Cli].at # "idle" => excused' # "no" /\ ~op'[Cli].alone
  <2>1. Cli \in Threads
    BY DEF Threads
  <2>2. CASE t = Cli
    BY <2>2 DEF OverlapsOK
  <2>3. CASE t # Cli
    BY <1>1, <1>2, <2>1, <2>3 DEF OverlapsOK
  <2> QED
    BY <2>2, <2>3
<1>7. \A u \in Threads : Solo(u)' => u = t
  BY <1>1, <1>2, <1>3 DEF Solo
<1> QED
  BY <1>4, <1>5, <1>6, <1>7 DEF OverlapsOK

(* One that begins is the only one that may be solo. *)
LEMMA BeginOverlaps ==
  ASSUME OverlapsOK, op \in [Threads -> Op], excused \in {"no", "overlap", "failed"},
         NEW t \in Threads, NEW at \in Stages, NEW apps \in Lists, Begin(t, at, apps),
         boot' = "down" \/ (boot # "down" /\ t # Cli) \/ t = Boot
  PROVE  OverlapsOK' /\ \A u \in Threads : Solo(u)' => u = t
<1>1. /\ op'[t].alone => \A u \in Threads : u # t => op[u].at = "idle"
      /\ \A u \in Threads : u # t =>
           op'[u].at = op[u].at /\ op'[u].apps = op[u].apps /\ op'[u].alone = FALSE
      /\ excused' = "no" => excused = "no" /\ \A u \in Threads : u # t => op[u].at = "idle"
  BY BeginOp
<1>2. \A x, y \in Threads : op'[x].alone /\ y # x => op'[y].at = "idle"
  BY <1>1
<1>3. excused' = "no" => \A x, y \in Threads : op'[x].at # "idle" /\ op'[y].at # "idle" => x = y
  BY <1>1
<1>4. boot' # "down" /\ op'[Cli].at # "idle" => excused' # "no" /\ ~op'[Cli].alone
  <2>1. Cli \in Threads /\ Boot # Cli
    BY RegistryAssumption DEF Threads
  <2> QED
    BY <1>1, <2>1
<1>5. \A u \in Threads : Solo(u)' => u = t
  BY <1>1 DEF Solo
<1> QED
  BY <1>2, <1>3, <1>4, <1>5 DEF OverlapsOK

(* superviseApp: a loop goes on with the entry it was started for, and     *)
(* says where it listens; one that was told to stop may end.               *)
LEMMA LoopKeeps ==
  ASSUME RegistryInv, NEW c \in children, NEW d \in Child,
         d.name = c.name, d.spec = c.spec, d.cancelled = c.cancelled,
         \/ children' = (children \ {c}) \cup {d}
         \/ c.cancelled /\ children' = children \ {c},
         \/ d.port = c.port /\ moved' = moved
         \/ moved' = moved \cup {[name |-> c.name, port |-> d.port]},
         events' \in 0..MaxEvents,
         UNCHANGED <<boot, list, disk, routes, op, mu, sup, taken, excused>>
  PROVE  RegistryInv'
<1> USE DEF RegistryInv
<1>0. /\ children \subseteq Child /\ c \in Child
      /\ \A x \in children' : x = d \/ x \in children
  BY DEF TypesOK
<1>1. TypesOK'
  <2>1. [name |-> c.name, port |-> d.port] \in [name : Shares, port : Ports]
    BY <1>0 DEF Child
  <2>2. moved' \subseteq [name : Shares, port : Ports] /\ children' \subseteq Child
    BY <1>0, <2>1 DEF TypesOK
  <2> QED
    BY <2>2 DEF TypesOK
<1>2. boot \notin {"down", "loaded"}
  BY DEF PlacesOK
<1>3. PlacesOK'
  BY <1>2 DEF PlacesOK
<1>4. StopsOK'
  BY <1>0 DEF StopsOK
<1>5. OneLoop'
  BY <1>0 DEF OneLoop
<1>6. OverlapsOK'
  BY DEF OverlapsOK
<1>7. DriftOK'
  <2> SUFFICES ASSUME excused # "failed", NEW x \in children', ~x.cancelled, x.port # x.spec
               PROVE  \/ \E m \in moved' : m.name = x.name /\ m.port # x.spec
                      \/ op[Mover].at \in {"set", "save", "onApps"} /\ ~Wanted(x, op[Mover].apps)
    BY DEF DriftOK, Wanted
  <2>1. moved \subseteq moved'
    OBVIOUS
  <2>2. CASE x \in children
    BY <2>1, <2>2 DEF DriftOK
  <2>3. CASE x = d
    <3>1. CASE moved' = moved \cup {[name |-> c.name, port |-> d.port]}
      <4> DEFINE m == [name |-> c.name, port |-> d.port]
      <4>1. m \in moved' /\ m.name = x.name /\ m.port # x.spec
        BY <2>3, <3>1
      <4> HIDE DEF m
      <4> QED
        BY <4>1
    <3>2. CASE d.port = c.port /\ moved' = moved
      BY <2>3, <3>2 DEF DriftOK, Wanted
    <3> QED
      BY <3>1, <3>2
  <2> QED
    BY <1>0, <2>2, <2>3
<1>8. \A apps \in Lists : Specs(apps) =>
        /\ \A x \in children' : ~x.cancelled /\ Wanted(x, apps)
        /\ \A n \in Names(apps) : \E x \in children' : x.name = n
  BY <1>0 DEF Specs, Wanted
<1>9. (\A x \in children : ~x.cancelled => Wanted(x, list)) =>
        \A x \in children' : ~x.cancelled => Wanted(x, list)
  BY <1>0 DEF Wanted
<1>10. list \in Lists /\ (Specs(list) => Specs(list)') /\ (Settled => Settled')
  BY <1>8 DEF TypesOK, Specs, Wanted, Settled
<1>11. StagesOK'
  <2> SUFFICES ASSUME NEW t \in Threads, Solo(t)' PROVE StageOK(t)'
    BY DEF StagesOK
  <2>1. StageOK(t)
    BY DEF StagesOK, Solo
  <2>2. op[t].at = "stopping" => \A x \in children' : ~x.cancelled => Wanted(x, list)
    BY <1>9, <2>1 DEF StageOK
  <2>3. (\A x \in children' : ~x.cancelled => Wanted(x, list)) =>
          (\A x \in children : ~x.cancelled => Wanted(x, list))'
    BY DEF Wanted
  <2> QED
    BY <1>10, <2>1, <2>2, <2>3 DEF StageOK
<1>12. RestOK'
  BY <1>10 DEF RestOK
<1> QED
  BY <1>1, <1>3, <1>4, <1>5, <1>6, <1>7, <1>11, <1>12

LEMMA SuperviseKeeps ==
  ASSUME RegistryInv, NEW c \in children, superviseApp(c) \/ appExits(c)
  PROVE  RegistryInv'
<1>0. c \in Child /\ events \in 0..MaxEvents /\ MaxEvents \in Nat
  BY RegistryAssumption DEF RegistryInv, TypesOK
<1>1. ASSUME NEW at \in {"probe", "start", "run", "backoff"}, NEW p \in Ports
      PROVE  LET d == [c EXCEPT !.port = p, !.at = at]
             IN  /\ d \in Child /\ d.port = p
                 /\ d.name = c.name /\ d.spec = c.spec /\ d.cancelled = c.cancelled
  BY <1>0 DEF Child
<1>2. ASSUME NEW at \in {"probe", "start", "run", "backoff"}
      PROVE  LET d == [c EXCEPT !.at = at]
             IN  /\ d \in Child /\ d.port = c.port
                 /\ d.name = c.name /\ d.spec = c.spec /\ d.cancelled = c.cancelled
  BY <1>0 DEF Child
<1>3. CASE withFreePort(c)
  <2>1. UNCHANGED <<boot, list, disk, routes, op, mu, sup, taken, excused, events>>
    BY <1>3 DEF withFreePort
  <2>2. CASE InUse(c.port) /\ freePort # {}
    <3>1. PICK p \in freePort : /\ Replace(c, [c EXCEPT !.port = p, !.at = "start"])
                                /\ moved' = moved \cup {[name |-> c.name, port |-> p]}
      BY <1>3, <2>2 DEF withFreePort
    <3>2. p \in Ports
      BY DEF freePort
    <3>3. PICK d \in Child : d = [c EXCEPT !.port = p, !.at = "start"]
      BY <1>1, <3>2
    <3>4. d.port = p /\ d.name = c.name /\ d.spec = c.spec /\ d.cancelled = c.cancelled
      BY <1>1, <3>2, <3>3
    <3> QED
      BY <1>0, <2>1, <3>1, <3>3, <3>4, LoopKeeps DEF Replace
  <2>3. CASE ~(InUse(c.port) /\ freePort # {})
    <3>1. Replace(c, [c EXCEPT !.at = "start"]) /\ moved' = moved
      BY <1>3, <2>3 DEF withFreePort
    <3> QED
      BY <1>0, <1>2, <2>1, <3>1, LoopKeeps DEF Replace
  <2> QED
    BY <2>2, <2>3
<1>4. CASE runApp(c)
  <2>1. UNCHANGED <<boot, list, disk, routes, op, mu, sup, taken, excused, events, moved>>
    BY <1>4 DEF runApp
  <2>2. CASE c.cancelled
    BY <1>0, <1>4, <2>1, <2>2, LoopKeeps DEF runApp
  <2>3. CASE ~c.cancelled
    <3>1. PICK at \in {"backoff", "run"} : Replace(c, [c EXCEPT !.at = at])
      BY <1>4, <2>3 DEF runApp
    <3> QED
      BY <1>0, <1>2, <2>1, <3>1, LoopKeeps DEF Replace
  <2> QED
    BY <2>2, <2>3
<1>5. CASE appStopped(c)
  BY <1>0, <1>5, LoopKeeps DEF appStopped
<1>6. CASE appRestarts(c)
  BY <1>0, <1>2, <1>6, LoopKeeps DEF appRestarts, Replace
<1>7. CASE appExits(c)
  <2>1. events' \in 0..MaxEvents
    BY <1>0, <1>7 DEF appExits, Event
  <2> QED
    BY <1>0, <1>2, <1>7, <2>1, LoopKeeps DEF appExits, Replace
<1> QED
  BY <1>3, <1>4, <1>5, <1>6, <1>7 DEF superviseApp

(* Other programs, and nothing at all: only taken and events change. *)
LEMMA PortsKeep ==
  ASSUME RegistryInv, taken' \subseteq Ports, events' \in 0..MaxEvents,
         UNCHANGED <<boot, list, disk, routes, children, moved, op, mu, sup, excused>>
  PROVE  RegistryInv'
<1> USE DEF RegistryInv
<1>1. TypesOK' /\ PlacesOK' /\ StopsOK' /\ OneLoop' /\ OverlapsOK' /\ DriftOK'
  BY DEF TypesOK, PlacesOK, StopsOK, OneLoop, OverlapsOK, DriftOK
<1>2. Settled' = Settled /\ \A t \in Threads : Solo(t)' = Solo(t) /\ StageOK(t)' = StageOK(t)
  BY DEF Settled, Solo, StageOK, Specs
<1> QED
  BY <1>1, <1>2 DEF StagesOK, RestOK

(* A settings request, a sign in or a sign out takes its copy of the list. *)
LEMMA CallerKeeps ==
  ASSUME RegistryInv, NEW t \in Callers, NEW at \in {"set", "copied", "checkbox"},
         NEW apps \in Lists, Begin(t, at, apps), at # "set" => apps = list,
         boot # "down", events' \in 0..MaxEvents, mu' \in {mu, t},
         disk' = disk \/ (at = "checkbox" /\ disk' = Torn),
         UNCHANGED <<boot, list, routes, children, moved, sup, taken>>
  PROVE  RegistryInv'
<1> USE DEF RegistryInv
<1>0. t \in Threads /\ t # Mover /\ t # Boot /\ t # Cli /\ at \in Stages
      /\ {Mover, Boot, Cli} \cup Callers \subseteq Threads
  BY RegistryAssumption DEF Threads, Stages
<1>t. op \in [Threads -> Op] /\ excused \in {"no", "overlap", "failed"}
  BY DEF TypesOK
<1>1. /\ op' \in [Threads -> Op] /\ op[t].at = "idle"
      /\ op'[t].at = at /\ op'[t].apps = apps
      /\ \A u \in Threads : u # t =>
           op'[u].at = op[u].at /\ op'[u].apps = op[u].apps /\ op'[u].alone = FALSE
      /\ excused' \in {"no", "overlap", "failed"} /\ (excused' = "failed" <=> excused = "failed")
      /\ excused' = "no" => excused = "no" /\ \A u \in Threads : u # t => op[u].at = "idle"
  BY <1>0, <1>t, BeginOp
<1>2. OverlapsOK' /\ \A u \in Threads : Solo(u)' => u = t
  BY <1>0, <1>t, BeginOverlaps
<1>3. TypesOK'
  <2>1. disk' \in Lists \cup {Torn} /\ (disk' # Torn => Valid(disk'))
    BY DEF TypesOK
  <2>2. \A u \in Threads :
          (op'[u].at \in {"save", "checkbox", "copied", "writing"} \/ (u = Mover /\ op'[u].at = "set"))
            => Valid(op'[u].apps)
    BY <1>0, <1>1 DEF TypesOK
  <2> QED
    BY <1>1, <2>1, <2>2 DEF TypesOK
<1>4. PlacesOK'
  BY <1>0, <1>1 DEF PlacesOK
<1>5. StopsOK' /\ OneLoop'
  BY <1>0, <1>1 DEF StopsOK, OneLoop, TypesOK
<1>6. DriftOK'
  BY <1>0, <1>1 DEF DriftOK
<1>7. ASSUME excused' = "no" PROVE boot = "up" /\ disk = list /\ Settled'
  <2>1. boot = "up" /\ \A u \in Threads : op[u].at = "idle"
    BY <1>0, <1>1, <1>7 DEF PlacesOK, TypesOK
  <2>2. disk = list /\ Settled
    BY <1>1, <1>7, <2>1 DEF RestOK
  <2> QED
    BY <2>1, <2>2 DEF Settled, Specs
<1>8. StageOK(t)'
  BY <1>0, <1>1, <1>7 DEF StageOK
<1>9. StagesOK' /\ RestOK'
  BY <1>0, <1>1, <1>2, <1>8 DEF StagesOK, RestOK
<1> QED
  BY <1>2, <1>3, <1>4, <1>5, <1>6, <1>9

LEMMA ThreadFacts ==
  /\ Callers \subseteq Threads /\ Mover \in Threads /\ Boot \in Threads /\ Cli \in Threads
  /\ Mover \notin Callers /\ Boot \notin Callers /\ Cli \notin Callers
  /\ Mover # Boot /\ Mover # Cli /\ Boot # Cli
  /\ NoOne \notin Threads
  BY RegistryAssumption DEF Threads

(* moveApp takes its copy: the move that was to come is on its way. *)
LEMMA MoveKeeps ==
  ASSUME RegistryInv, NEW m \in moved, moveApp(m)
  PROVE  RegistryInv'
<1> USE DEF RegistryInv
<1> DEFINE apps == IF m.name \in Names(list) THEN [list EXCEPT ![m.name] = m.port] ELSE list
<1>0. /\ Begin(Mover, "set", apps) /\ moved' = moved \ {m}
      /\ UNCHANGED <<boot, list, disk, routes, children, mu, sup, taken, events>>
  BY DEF moveApp
<1>1. /\ apps \in Lists /\ Names(apps) = Names(list)
      /\ m.name \in Names(list) => apps[m.name] = m.port
  <2>1. m.name \in Shares /\ m.port \in Ports /\ list \in Lists
    BY DEF TypesOK
  <2>2. m.name \in Names(list) => /\ [list EXCEPT ![m.name] = m.port] \in Lists
                                  /\ Names([list EXCEPT ![m.name] = m.port]) = Names(list)
    BY <2>1, MovedList
  <2>3. m.name \in Names(list) => [list EXCEPT ![m.name] = m.port][m.name] = m.port
    BY <2>1 DEF Lists
  <2> QED
    BY <2>1, <2>2, <2>3
<1> HIDE DEF apps
<1>2. Valid(apps) /\ "set" \in Stages /\ boot \notin {"down", "loaded"}
  BY <1>1 DEF Valid, Stages, TypesOK, PlacesOK
<1>3. /\ op' \in [Threads -> Op] /\ op[Mover].at = "idle"
      /\ op'[Mover].at = "set" /\ op'[Mover].apps = apps
      /\ \A u \in Threads : u # Mover =>
           op'[u].at = op[u].at /\ op'[u].apps = op[u].apps /\ op'[u].alone = FALSE
      /\ excused' \in {"no", "overlap", "failed"} /\ (excused' = "failed" <=> excused = "failed")
      /\ excused' = "no" => excused = "no" /\ \A u \in Threads : u # Mover => op[u].at = "idle"
  BY <1>0, <1>1, <1>2, ThreadFacts, BeginOp DEF TypesOK
<1>4. OverlapsOK' /\ \A u \in Threads : Solo(u)' => u = Mover
  BY <1>0, <1>1, <1>2, ThreadFacts, BeginOverlaps DEF TypesOK
<1>5. TypesOK'
  <2>1. \A u \in Threads :
          (op'[u].at \in {"save", "checkbox", "copied", "writing"} \/ (u = Mover /\ op'[u].at = "set"))
            => Valid(op'[u].apps)
    BY <1>2, <1>3 DEF TypesOK
  <2> QED
    BY <1>0, <1>3, <2>1 DEF TypesOK
<1>6. PlacesOK'
  BY <1>0, <1>2, <1>3, ThreadFacts DEF PlacesOK
<1>7. StopsOK' /\ OneLoop'
  BY <1>0, <1>3, ThreadFacts DEF StopsOK, OneLoop, TypesOK
<1>8. DriftOK'
  <2> SUFFICES ASSUME excused # "failed", NEW c \in children, ~c.cancelled, c.port # c.spec
               PROVE  (\E k \in moved' : k.name = c.name /\ k.port # c.spec) \/ ~Wanted(c, apps)
    BY <1>0, <1>3 DEF DriftOK, Wanted
  <2>1. PICK k \in moved : k.name = c.name /\ k.port # c.spec
    BY <1>3 DEF DriftOK
  <2>2. CASE k = m
    BY <1>1, <2>1, <2>2 DEF Wanted
  <2>3. CASE k # m
    BY <1>0, <2>1, <2>3
  <2> QED
    BY <2>2, <2>3
<1>9. ASSUME excused' = "no" PROVE disk = list /\ Settled'
  <2>1. boot = "up" /\ \A u \in Threads : op[u].at = "idle"
    BY <1>2, <1>3, <1>9, ThreadFacts DEF PlacesOK, TypesOK
  <2>2. disk = list /\ Settled
    BY <1>3, <1>9, <2>1 DEF RestOK
  <2> QED
    BY <1>0, <2>2 DEF Settled, Specs
<1>10. StageOK(Mover)'
  BY <1>0, <1>3, <1>9 DEF StageOK
<1>11. StagesOK' /\ RestOK'
  BY <1>3, <1>4, <1>10, ThreadFacts DEF StagesOK, RestOK
<1> QED
  BY <1>4, <1>5, <1>6, <1>7, <1>8, <1>11

(* `agent share` without an agent, and the start of the agent, begin with  *)
(* what the file says.                                                     *)
LEMMA DownKeeps ==
  ASSUME RegistryInv,
         loadAgent \/ \E apps \in Lists : shareOffline(apps)
  PROVE  RegistryInv'
<1> USE DEF RegistryInv
<1>1. PICK t \in {Boot, Cli}, apps \in Lists :
        /\ Begin(t, "copied", apps) /\ Valid(apps) /\ disk \in Lists /\ Valid(disk)
        /\ boot = "down" /\ UNCHANGED <<disk, routes, children, moved, mu, sup, taken>>
        /\ events' \in 0..MaxEvents
        /\ t = Boot => boot' = "loaded" /\ list' = disk
        /\ t = Cli => UNCHANGED <<boot, list>>
  <2>1. CASE loadAgent
    <3>1. disk \in Lists /\ Valid(disk) /\ events' \in 0..MaxEvents
      BY <2>1 DEF loadAgent, TypesOK
    <3> QED
      BY <2>1, <3>1, ThreadFacts DEF loadAgent
  <2>2. CASE \E apps \in Lists : shareOffline(apps)
    <3>1. PICK apps \in Lists : shareOffline(apps)
      BY <2>2
    <3>2. disk \in Lists /\ Valid(disk) /\ events' \in 0..MaxEvents
      BY <3>1, RegistryAssumption DEF shareOffline, TypesOK, Event
    <3> QED
      BY <3>1, <3>2, ThreadFacts DEF shareOffline
  <2> QED
    BY <2>1, <2>2
<1>2. /\ t \in Threads /\ t # Mover /\ t \notin Callers /\ "copied" \in Stages
      /\ children = {} /\ moved = {}
      /\ \A u \in Threads : op[u].at \in {"idle", "copied", "writing"}
      /\ \A u \in Threads : u # Cli => op[u].at = "idle"
  BY <1>1, ThreadFacts DEF PlacesOK, Stages
<1>t. op \in [Threads -> Op] /\ excused \in {"no", "overlap", "failed"}
  BY DEF TypesOK
<1>3. /\ op' \in [Threads -> Op] /\ op[t].at = "idle"
      /\ op'[t].at = "copied" /\ op'[t].apps = apps
      /\ \A u \in Threads : u # t =>
           op'[u].at = op[u].at /\ op'[u].apps = op[u].apps /\ op'[u].alone = FALSE
      /\ excused' \in {"no", "overlap", "failed"}
  <2>1. Begin(t, "copied", apps) /\ t \in Threads /\ "copied" \in Stages /\ apps \in Lists
    BY <1>1, <1>2
  <2> QED
    BY <1>t, <2>1, BeginOp
<1>4. OverlapsOK' /\ \A u \in Threads : Solo(u)' => u = t
  <2>1. /\ Begin(t, "copied", apps) /\ t \in Threads /\ "copied" \in Stages /\ apps \in Lists
        /\ boot' = "down" \/ t = Boot
    BY <1>1, <1>2
  <2> QED
    BY <1>t, <2>1, BeginOverlaps
<1>5. TypesOK'
  <2>1. \A u \in Threads :
          (op'[u].at \in {"save", "checkbox", "copied", "writing"} \/ (u = Mover /\ op'[u].at = "set"))
            => Valid(op'[u].apps)
    BY <1>1, <1>2, <1>3 DEF TypesOK
  <2>2. list' \in Lists /\ Valid(list') /\ boot' \in {"down", "loaded", "hooked", "up"}
    BY <1>1 DEF TypesOK
  <2> QED
    BY <1>1, <1>3, <2>1, <2>2 DEF TypesOK
<1>6. PlacesOK'
  <2>1. CASE t = Boot
    BY <1>1, <1>2, <1>3, <2>1, ThreadFacts DEF PlacesOK
  <2>2. CASE t = Cli
    BY <1>1, <1>2, <1>3, <2>2, ThreadFacts DEF PlacesOK
  <2> QED
    BY <2>1, <2>2
<1>7. StopsOK' /\ OneLoop' /\ DriftOK'
  BY <1>1, <1>2, <1>3 DEF StopsOK, OneLoop, DriftOK, TypesOK
<1>8. StageOK(t)'
  BY <1>1, <1>2, <1>3, ThreadFacts DEF StageOK
<1>9. StagesOK' /\ RestOK'
  BY <1>2, <1>3, <1>4, <1>8 DEF StagesOK, RestOK
<1> QED
  BY <1>4, <1>5, <1>6, <1>7, <1>9

(* The agent stops or is killed. *)
LEMMA StopKeeps ==
  ASSUME RegistryInv, AgentStops \/ AgentKilled
  PROVE  RegistryInv'
<1> USE DEF RegistryInv
<1>1. PICK ports \in SUBSET Ports : Stop(ports)
  <2>1. taken \subseteq Ports /\ \A c \in children : c.port \in Ports
    BY DEF TypesOK, Child
  <2>2. taken \cup {c.port : c \in {d \in children : d.at = "run"}} \subseteq Ports
    BY <2>1
  <2> QED
    BY <2>1, <2>2 DEF AgentStops, AgentKilled
<1>2. /\ boot' = "down" /\ list' = Empty /\ routes' = Empty /\ children' = {} /\ moved' = {}
      /\ mu' = NoOne /\ sup' = NoOne /\ taken' = ports /\ excused' = "no" /\ disk' = disk
      /\ events' \in 0..MaxEvents
  BY <1>1, RegistryAssumption DEF Stop, Event, TypesOK
<1>3. /\ op' \in [Threads -> Op]
      /\ \A u \in Threads : op'[u].alone = FALSE /\ (u # Cli => op'[u].at = "idle")
      /\ op'[Cli].at = op[Cli].at /\ op'[Cli].apps = op[Cli].apps
  <2>1. op' = [t \in Threads |-> IF t = Cli THEN [op[t] EXCEPT !.alone = FALSE] ELSE NoCall]
    BY <1>1 DEF Stop
  <2>2. LET x == [op[Cli] EXCEPT !.alone = FALSE]
        IN  x \in Op /\ x.at = op[Cli].at /\ x.apps = op[Cli].apps /\ x.alone = FALSE
    BY ThreadFacts DEF TypesOK, Op
  <2> QED
    BY <2>1, <2>2, IdleOp, ThreadFacts
<1>4. TypesOK'
  <2>1. \A u \in Threads :
          (op'[u].at \in {"save", "checkbox", "copied", "writing"} \/ (u = Mover /\ op'[u].at = "set"))
            => Valid(op'[u].apps)
    BY <1>3, ThreadFacts DEF TypesOK
  <2> QED
    BY <1>2, <1>3, <2>1, EmptyValid DEF TypesOK
<1>5. PlacesOK'
  BY <1>2, <1>3, ThreadFacts DEF PlacesOK
<1>6. StopsOK' /\ OneLoop' /\ DriftOK' /\ RestOK'
  BY <1>2 DEF StopsOK, OneLoop, DriftOK, RestOK
<1>7. OverlapsOK'
  BY <1>2, <1>3 DEF OverlapsOK
<1>8. StagesOK'
  <2> SUFFICES ASSUME NEW t \in Threads, Solo(t)' PROVE StageOK(t)'
    BY DEF StagesOK
  <2>1. t = Cli /\ op'[t].at \in {"copied", "writing"}
    BY <1>3 DEF Solo, PlacesOK
  <2> QED
    BY <2>1, ThreadFacts DEF StageOK
<1> QED
  BY <1>4, <1>5, <1>6, <1>7, <1>8

(* A change, a save or a rewrite ends, or is given up. *)
LEMMA EndKeeps ==
  ASSUME RegistryInv, NEW t \in Threads \ {Boot}, op[t].at \notin {"idle", "stopping"},
         op' = [op EXCEPT ![t] = NoCall],
         t = Mover /\ excused' # "failed" => op[t].at \notin {"set", "save", "onApps"},
         excused' \in {"no", "overlap", "failed"}, excused = "failed" => excused' = "failed",
         excused' = "no" => excused = "no" \/ op[t].alone,
         mu' \in {mu, NoOne}, events' \in 0..MaxEvents, routes' \in Lists,
         disk' \in Lists \cup {Torn}, disk' # Torn => Valid(disk'),
         boot = "up" /\ excused' = "no" => disk' = list /\ routes' = list /\ Specs(list),
         UNCHANGED <<boot, list, children, moved, sup, taken>>
  PROVE  RegistryInv'
<1> USE DEF RegistryInv
<1>1. /\ op' \in [Threads -> Op]
      /\ op'[t].at = "idle" /\ op'[t].alone = FALSE
      /\ \A u \in Threads : u # t => op'[u] = op[u]
  BY EndOp DEF TypesOK
<1>2. OverlapsOK' /\ \A u \in Threads : Solo(u)' => u = t
  BY <1>1, StepOverlaps DEF TypesOK
<1>3. TypesOK'
  <2>1. \A u \in Threads :
          (op'[u].at \in {"save", "checkbox", "copied", "writing"} \/ (u = Mover /\ op'[u].at = "set"))
            => Valid(op'[u].apps)
    BY <1>1 DEF TypesOK
  <2> QED
    BY <1>1, <2>1 DEF TypesOK
<1>4. PlacesOK'
  BY <1>1, ThreadFacts DEF PlacesOK
<1>5. StopsOK' /\ OneLoop'
  BY <1>1 DEF StopsOK, OneLoop, TypesOK
<1>6. DriftOK'
  <2>1. CASE t = Mover
    BY <1>1, <2>1 DEF DriftOK, Wanted
  <2>2. CASE t # Mover
    BY <1>1, <2>2, ThreadFacts DEF DriftOK, Wanted
  <2> QED
    BY <2>1, <2>2
<1>7. StagesOK'
  BY <1>1, <1>2 DEF StagesOK, Solo
<1>8. RestOK'
  BY DEF RestOK, Settled, Specs
<1> QED
  BY <1>2, <1>3, <1>4, <1>5, <1>6, <1>7, <1>8

(* A goroutine goes on with what it does, the loops left alone. *)
LEMMA GoKeeps ==
  ASSUME RegistryInv, NEW t \in Threads, op[t].at \notin {"idle", "stopping"},
         op' \in [Threads -> Op], op'[t].at # "idle", op'[t].alone = op[t].alone,
         \A u \in Threads : u # t => op'[u] = op[u],
         t = Mover /\ op[t].at \in {"set", "save", "onApps"} =>
           op'[t].at \in {"set", "save", "onApps"} /\ op'[t].apps = op[t].apps,
         boot' = "down" <=> boot = "down",
         UNCHANGED <<children, moved, sup, excused>>,
         TypesOK', PlacesOK', Solo(t) => StageOK(t)'
  PROVE  RegistryInv'
<1> USE DEF RegistryInv
<1>1. OverlapsOK' /\ \A u \in Threads : Solo(u)' => u = t
  BY StepOverlaps DEF TypesOK
<1>2. StopsOK' /\ OneLoop'
  BY DEF StopsOK, OneLoop, TypesOK
<1>3. DriftOK'
  <2>1. CASE t = Mover
    BY <2>1 DEF DriftOK, Wanted
  <2>2. CASE t # Mover
    BY <2>2, ThreadFacts DEF DriftOK, Wanted
  <2> QED
    BY <2>1, <2>2
<1>4. StagesOK'
  <2>1. Solo(t)' => Solo(t)
    BY DEF Solo
  <2> QED
    BY <1>1, <2>1 DEF StagesOK
<1>5. RestOK'
  BY DEF RestOK
<1> QED
  BY <1>1, <1>2, <1>3, <1>4, <1>5

LEMMA EndsKeep ==
  ASSUME RegistryInv, NEW t \in Threads,
         \/ t # Cli /\ (setAppsRefused(t) \/ setAppsNoHook(t) \/ checkboxSaved(t) \/ rebuild(t))
         \/ t # Cli /\ notSaved(t)
         \/ t \in Callers \cup {Cli} /\ saveStateWrite(t)
  PROVE  RegistryInv'
<1> USE DEF RegistryInv
<1>0. /\ list \in Lists /\ routes \in Lists /\ op[t].apps \in Lists
      /\ disk \in Lists \cup {Torn} /\ (disk # Torn => Valid(disk))
      /\ excused \in {"no", "overlap", "failed"} /\ events \in 0..MaxEvents
  BY DEF TypesOK, Op
<1>1. op[t].at \in {"set", "save", "checkbox", "writing"} => t # Boot
  BY DEF PlacesOK, TypesOK
<1>2. CASE setAppsRefused(t)
  <2>1. /\ op[t].at = "set" /\ op' = [op EXCEPT ![t] = NoCall] /\ t # Boot /\ t # Mover
        /\ UNCHANGED <<boot, list, disk, routes, children, moved, mu, sup, taken, events, excused>>
    BY <1>1, <1>2 DEF setAppsRefused, EndRewrite, TypesOK
  <2>2. excused = "no" => disk = list /\ routes = list /\ Specs(list)
    BY <2>1 DEF StagesOK, Solo, StageOK, Settled
  <2> QED
    BY <1>0, <2>1, <2>2, EndKeeps
<1>3. CASE setAppsNoHook(t)
  <2>1. /\ op[t].at = "onApps" /\ boot = "loaded" /\ op' = [op EXCEPT ![t] = NoCall]
        /\ t # Boot /\ t # Mover
        /\ UNCHANGED <<boot, list, disk, routes, children, moved, mu, sup, taken, events, excused>>
    BY <1>3 DEF setAppsNoHook, EndRewrite, PlacesOK
  <2> QED
    BY <1>0, <2>1, EndKeeps
<1>4. CASE checkboxSaved(t)
  <2>1. /\ op[t].at = "checkbox" /\ op' = [op EXCEPT ![t] = NoCall] /\ disk' = op[t].apps
        /\ t # Boot /\ t # Mover /\ t # Cli /\ mu' = NoOne
        /\ UNCHANGED <<boot, list, routes, children, moved, sup, taken, events, excused>>
    BY <1>1, <1>4 DEF checkboxSaved, EndRewrite, PlacesOK
  <2>2. t \in Callers /\ Valid(op[t].apps)
    BY <2>1 DEF Threads, TypesOK
  <2>3. excused = "no" => disk' = list /\ routes = list /\ Specs(list)
    BY <2>1, <2>2 DEF StagesOK, Solo, StageOK, Settled
  <2> QED
    BY <1>0, <2>1, <2>2, <2>3, EndKeeps
<1>5. CASE rebuild(t)
  <2>1. /\ op[t].at = "store" /\ op' = [op EXCEPT ![t] = NoCall] /\ routes' = op[t].apps
        /\ excused' = IF op[t].alone /\ excused = "overlap" THEN "no" ELSE excused
        /\ UNCHANGED <<boot, list, disk, children, moved, mu, sup, taken, events>>
    BY <1>5 DEF rebuild, End
  <2>2. t # Boot
    BY <2>1 DEF PlacesOK, TypesOK
  <2>3. excused' = "no" => disk = list /\ routes' = list /\ Specs(list)
    BY <2>1 DEF StagesOK, Solo, StageOK
  <2> QED
    BY <1>0, <2>1, <2>2, <2>3, EndKeeps
<1>6. CASE notSaved(t)
  <2>1. /\ op[t].at \in {"save", "checkbox", "set"} /\ op' = [op EXCEPT ![t] = NoCall]
        /\ excused' = "failed" /\ mu' = NoOne /\ events' \in 0..MaxEvents /\ t # Boot
        /\ UNCHANGED <<boot, list, disk, routes, children, moved, sup, taken>>
    BY <1>0, <1>1, <1>6, RegistryAssumption DEF notSaved, Event
  <2> QED
    BY <1>0, <2>1, EndKeeps
<1>7. CASE t \in Callers \cup {Cli} /\ saveStateWrite(t)
  <2>1. /\ op[t].at = "writing" /\ op' = [op EXCEPT ![t] = NoCall] /\ disk' = op[t].apps
        /\ t # Boot /\ t # Mover
        /\ UNCHANGED <<boot, list, routes, children, moved, mu, sup, taken, events, excused>>
    BY <1>1, <1>7, ThreadFacts DEF saveStateWrite, EndRewrite
  <2>2. Valid(op[t].apps)
    BY <2>1 DEF TypesOK
  <2>3. boot = "up" /\ excused = "no" => disk' = list /\ routes = list /\ Specs(list)
    <3>1. CASE t = Cli
      BY <2>1, <3>1 DEF OverlapsOK
    <3>2. CASE t \in Callers
      BY <2>1, <3>2 DEF StagesOK, Solo, StageOK, Settled
    <3> QED
      BY <1>7, <3>1, <3>2
  <2> QED
    BY <1>0, <2>1, <2>2, <2>3, EndKeeps
<1> QED
  BY <1>2, <1>3, <1>4, <1>5, <1>6, <1>7

(* setApps writes the file and the list under agent.mu. *)
LEMMA SaveKeeps ==
  ASSUME RegistryInv, NEW t \in Threads \ {Cli}, setAppsLock(t) \/ setAppsSaved(t)
  PROVE  RegistryInv'
<1> USE DEF RegistryInv
<1>0. PICK at \in {"save", "onApps"} :
        /\ Go(t, at) /\ UNCHANGED <<boot, routes, children, moved, sup, taken, excused, events>>
        /\ at = "save" => /\ op[t].at = "set" /\ Valid(op[t].apps)
                          /\ mu' = t /\ disk' = Torn /\ list' = list
        /\ at = "onApps" => /\ op[t].at = "save" /\ mu' = NoOne
                            /\ disk' = op[t].apps /\ list' = op[t].apps
  BY DEF setAppsLock, setAppsSaved
<1>1. /\ op' \in [Threads -> Op]
      /\ op'[t].at = at /\ op'[t].apps = op[t].apps /\ op'[t].alone = op[t].alone
      /\ \A u \in Threads : u # t => op'[u] = op[u]
  <2>1. at \in Stages
    BY DEF Stages
  <2> QED
    BY <1>0, <2>1, GoOp DEF TypesOK
<1>2. t \in Callers \cup {Mover} /\ Valid(op[t].apps) /\ op[t].apps \in Lists
  <2>1. t # Boot /\ op[t].at \in {"set", "save"}
    BY <1>0 DEF PlacesOK, TypesOK
  <2> QED
    BY <1>0, <2>1 DEF Threads, TypesOK, Op
<1>3. TypesOK'
  <2>1. \A u \in Threads :
          (op'[u].at \in {"save", "checkbox", "copied", "writing"} \/ (u = Mover /\ op'[u].at = "set"))
            => Valid(op'[u].apps)
    BY <1>1, <1>2 DEF TypesOK
  <2>2. /\ list' \in Lists /\ Valid(list') /\ mu' \in Callers \cup {Mover, NoOne}
        /\ disk' \in Lists \cup {Torn} /\ (disk' # Torn => Valid(disk'))
    BY <1>0, <1>2 DEF TypesOK
  <2> QED
    BY <1>0, <1>1, <2>1, <2>2 DEF TypesOK
<1>4. PlacesOK'
  BY <1>0, <1>1, <1>2, ThreadFacts DEF PlacesOK
<1>5. StageOK(t)'
  BY <1>0, <1>1, <1>2, ThreadFacts DEF StageOK
<1> QED
  BY <1>0, <1>1, <1>3, <1>4, <1>5, GoKeeps

(* The steps that read the list again, or cut the file before a write. *)
LEMMA ReadKeeps ==
  ASSUME RegistryInv, NEW t \in Threads,
         \/ t # Cli /\ buildGateway(t)
         \/ t \in Callers \cup {Cli} /\ saveStateCut(t)
         \/ t = Boot /\ (serveSnapshot \/ serveHook)
  PROVE  RegistryInv'
<1> USE DEF RegistryInv
<1>0. op \in [Threads -> Op] /\ list \in Lists
  BY DEF TypesOK
<1>1. ASSUME NEW at \in Stages, op' = [op EXCEPT ![t].at = at, ![t].apps = list]
      PROVE  /\ op' \in [Threads -> Op]
             /\ op'[t].at = at /\ op'[t].apps = list /\ op'[t].alone = op[t].alone
             /\ \A u \in Threads : u # t => op'[u] = op[u]
  BY <1>0, <1>1 DEF Op
<1>2. CASE t # Cli /\ buildGateway(t)
  <2>1. /\ op[t].at = "rebuild" /\ op' = [op EXCEPT ![t].at = "store", ![t].apps = list]
        /\ UNCHANGED <<boot, list, disk, routes, children, moved, mu, sup, taken, excused, events>>
    BY <1>2 DEF buildGateway
  <2>2. "store" \in Stages
    BY DEF Stages
  <2>3. /\ op' \in [Threads -> Op]
        /\ op'[t].at = "store" /\ op'[t].apps = list /\ op'[t].alone = op[t].alone
        /\ \A u \in Threads : u # t => op'[u] = op[u]
    BY <1>1, <2>1, <2>2
  <2>4. TypesOK' /\ PlacesOK'
    BY <1>2, <2>1, <2>3, ThreadFacts DEF TypesOK, PlacesOK
  <2>5. Solo(t) => StageOK(t)'
    BY <2>1, <2>3 DEF StagesOK, StageOK, Specs
  <2> QED
    BY <2>1, <2>3, <2>4, <2>5, GoKeeps
<1>3. CASE t \in Callers \cup {Cli} /\ saveStateCut(t)
  <2>1. /\ op[t].at = "copied" /\ Go(t, "writing") /\ disk' = Torn
        /\ UNCHANGED <<boot, list, routes, children, moved, mu, sup, taken, excused, events>>
    BY <1>3 DEF saveStateCut
  <2>2. "writing" \in Stages
    BY DEF Stages
  <2>3. /\ op' \in [Threads -> Op]
        /\ op'[t].at = "writing" /\ op'[t].apps = op[t].apps /\ op'[t].alone = op[t].alone
        /\ \A u \in Threads : u # t => op'[u] = op[u]
    BY <1>0, <2>1, <2>2, GoOp
  <2>4. TypesOK' /\ PlacesOK'
    BY <1>3, <2>1, <2>3, ThreadFacts DEF TypesOK, PlacesOK
  <2>5. Solo(t) => StageOK(t)'
    BY <2>1, <2>3 DEF StagesOK, StageOK, Settled, Specs
  <2> QED
    BY <1>3, <2>1, <2>3, <2>4, <2>5, ThreadFacts, GoKeeps
<1>4. CASE t = Boot /\ serveSnapshot
  <2>1. /\ op[t].at = "copied" /\ op' = [op EXCEPT ![t].at = "hook", ![t].apps = list]
        /\ UNCHANGED <<boot, list, disk, routes, children, moved, mu, sup, taken, excused, events>>
    BY <1>4 DEF serveSnapshot
  <2>2. "hook" \in Stages
    BY DEF Stages
  <2>3. /\ op' \in [Threads -> Op]
        /\ op'[t].at = "hook" /\ op'[t].apps = list /\ op'[t].alone = op[t].alone
        /\ \A u \in Threads : u # t => op'[u] = op[u]
    BY <1>1, <2>1, <2>2
  <2>4. TypesOK' /\ PlacesOK'
    BY <1>4, <2>1, <2>3, ThreadFacts DEF TypesOK, PlacesOK
  <2>5. Solo(t) => StageOK(t)'
    BY <1>4, <2>1, <2>3 DEF StagesOK, StageOK
  <2> QED
    BY <1>4, <2>1, <2>3, <2>4, <2>5, ThreadFacts, GoKeeps
<1>5. CASE t = Boot /\ serveHook
  <2>1. /\ op[t].at = "hook" /\ Go(t, "onApps") /\ boot' = "hooked" /\ routes' = list
        /\ UNCHANGED <<list, disk, children, moved, mu, sup, taken, excused, events>>
    BY <1>5 DEF serveHook
  <2>2. "onApps" \in Stages
    BY DEF Stages
  <2>3. /\ op' \in [Threads -> Op]
        /\ op'[t].at = "onApps" /\ op'[t].apps = op[t].apps /\ op'[t].alone = op[t].alone
        /\ \A u \in Threads : u # t => op'[u] = op[u]
    BY <1>0, <2>1, <2>2, GoOp
  <2>4. boot = "loaded"
    BY <1>5, <2>1 DEF PlacesOK, TypesOK
  <2>5. TypesOK' /\ PlacesOK'
    BY <1>5, <2>1, <2>3, <2>4, ThreadFacts DEF TypesOK, PlacesOK
  <2>6. Solo(t) => StageOK(t)'
    BY <1>5, <2>1, <2>3 DEF StagesOK, StageOK
  <2> QED
    BY <1>5, <2>1, <2>3, <2>4, <2>5, <2>6, ThreadFacts, GoKeeps
<1> QED
  BY <1>2, <1>3, <1>4, <1>5

(* supervisor.set tells the loops that are not wanted to stop. *)
LEMMA SetStopKeeps ==
  ASSUME RegistryInv, NEW t \in Threads \ {Cli}, setStop(t)
  PROVE  RegistryInv'
<1> USE DEF RegistryInv
<1> DEFINE apps == op[t].apps
           Told(c) == IF Wanted(c, apps) THEN c ELSE [c EXCEPT !.cancelled = TRUE]
<1>0. /\ op[t].at = "onApps" /\ boot # "loaded" /\ sup' = t /\ Go(t, "stopping")
      /\ children' = {Told(c) : c \in children}
      /\ UNCHANGED <<boot, list, disk, routes, moved, mu, taken, excused, events>>
  BY DEF setStop
<1>1. "stopping" \in Stages /\ op \in [Threads -> Op] /\ boot # "down"
  BY <1>0 DEF Stages, TypesOK, PlacesOK
<1>2. /\ op' \in [Threads -> Op]
      /\ op'[t].at = "stopping" /\ op'[t].apps = apps /\ op'[t].alone = op[t].alone
      /\ \A u \in Threads : u # t => op'[u] = op[u]
  BY <1>0, <1>1, GoOp
<1>3. \A c \in children :
        /\ Told(c) \in Child /\ Told(c).name = c.name
        /\ Told(c).spec = c.spec /\ Told(c).port = c.port
        /\ ~Told(c).cancelled => ~c.cancelled /\ Wanted(c, apps)
  <2>1. \A c \in children : c \in Child
    BY DEF TypesOK
  <2>2. ASSUME NEW c \in Child
        PROVE  LET d == [c EXCEPT !.cancelled = TRUE]
               IN  d \in Child /\ d.name = c.name /\ d.spec = c.spec /\ d.port = c.port /\ d.cancelled
    BY DEF Child
  <2> QED
    BY <2>1, <2>2
<1> HIDE DEF Told, apps
<1>4. OverlapsOK' /\ \A u \in Threads : Solo(u)' => u = t
  BY <1>0, <1>1, <1>2, StepOverlaps
<1>5. TypesOK'
  <2>1. children' \subseteq Child
    BY <1>0, <1>3
  <2>2. \A u \in Threads :
          (op'[u].at \in {"save", "checkbox", "copied", "writing"} \/ (u = Mover /\ op'[u].at = "set"))
            => Valid(op'[u].apps)
    BY <1>2 DEF TypesOK
  <2> QED
    BY <1>0, <1>2, <2>1, <2>2 DEF TypesOK
<1>6. PlacesOK'
  BY <1>0, <1>1, <1>2, ThreadFacts DEF PlacesOK
<1>7. StopsOK'
  BY <1>0, <1>2, ThreadFacts DEF StopsOK
<1>8. OneLoop'
  BY <1>0, <1>3 DEF OneLoop
<1>9. DriftOK'
  <2> SUFFICES ASSUME excused # "failed", NEW x \in children', ~x.cancelled, x.port # x.spec
               PROVE  \/ \E m \in moved : m.name = x.name /\ m.port # x.spec
                      \/ op'[Mover].at \in {"set", "save", "onApps"} /\ ~Wanted(x, op'[Mover].apps)
    BY <1>0 DEF DriftOK, Wanted
  <2>1. PICK c \in children : x = Told(c)
    BY <1>0
  <2>2. ~c.cancelled /\ c.port # c.spec /\ Wanted(c, apps) /\ c.name = x.name /\ c.spec = x.spec
    BY <1>3, <2>1
  <2>3. \/ \E m \in moved : m.name = c.name /\ m.port # c.spec
        \/ op[Mover].at \in {"set", "save", "onApps"} /\ ~Wanted(c, op[Mover].apps)
    BY <2>2 DEF DriftOK
  <2>4. CASE t = Mover
    BY <2>2, <2>3, <2>4 DEF apps
  <2>5. CASE t # Mover
    BY <1>2, <2>2, <2>3, <2>5, ThreadFacts DEF Wanted
  <2> QED
    BY <2>4, <2>5
<1>10. ASSUME Solo(t)' PROVE StageOK(t)'
  <2>1. Solo(t)
    BY <1>0, <1>2, <1>10 DEF Solo
  <2>2. disk = list /\ apps = list /\ (t = Boot => routes = list)
    BY <1>0, <2>1 DEF StagesOK, StageOK, apps
  <2>3. \A x \in children' : ~x.cancelled => Wanted(x, list)
    BY <1>0, <1>3, <2>2 DEF Wanted
  <2>4. (\A x \in children : ~x.cancelled => Wanted(x, list))'
    BY <1>0, <2>3 DEF Wanted
  <2> QED
    BY <1>0, <1>2, <2>2, <2>4 DEF StageOK
<1>11. StagesOK' /\ RestOK'
  BY <1>2, <1>4, <1>10 DEF StagesOK, RestOK
<1> QED
  BY <1>4, <1>5, <1>6, <1>7, <1>8, <1>9, <1>11

(* supervisor.set starts the loops that are missing, once those it told to *)
(* stop are gone.                                                          *)
LEMMA SetStartKeeps ==
  ASSUME RegistryInv, NEW t \in Threads \ {Cli}, setStart(t)
  PROVE  RegistryInv'
<1> USE DEF RegistryInv
<1> DEFINE apps == op[t].apps
<1>0. /\ op[t].at = "stopping" /\ \A c \in children : ~c.cancelled
      /\ children' = children \cup Started(apps) /\ sup' = NoOne
      /\ IF t = Boot THEN boot' = "up" /\ End(t) ELSE Go(t, "rebuild") /\ UNCHANGED <<boot, excused>>
      /\ UNCHANGED <<list, disk, routes, moved, mu, taken, events>>
  BY DEF setStart
<1>1. /\ "rebuild" \in Stages /\ op \in [Threads -> Op] /\ apps \in Lists
      /\ boot \notin {"down", "loaded"} /\ (t = Boot => boot = "hooked") /\ boot' \notin {"down", "loaded"}
  BY <1>0 DEF Stages, TypesOK, PlacesOK, Op
<1>2. /\ op' \in [Threads -> Op]
      /\ op'[t].at = IF t = Boot THEN "idle" ELSE "rebuild"
      /\ op'[t].alone => op[t].alone
      /\ \A u \in Threads : u # t => op'[u] = op[u]
      /\ excused' = "no" => excused = "no" \/ op[t].alone
      /\ excused' \in {"no", "overlap", "failed"} /\ (excused = "failed" <=> excused' = "failed")
  <2>1. CASE t = Boot
    <3>1. /\ op' = [op EXCEPT ![t] = NoCall]
          /\ excused' = IF op[t].alone /\ excused = "overlap" THEN "no" ELSE excused
      BY <1>0, <2>1 DEF End
    <3> QED
      BY <1>1, <2>1, <3>1, EndOp DEF TypesOK
  <2>2. CASE t # Boot
    <3>1. Go(t, "rebuild") /\ excused' = excused
      BY <1>0, <2>2
    <3> QED
      BY <1>1, <2>2, <3>1, GoOp DEF TypesOK
  <2> QED
    BY <2>1, <2>2
<1>3. \A x \in Started(apps) :
        /\ x \in Child /\ x.name \in Names(apps) /\ x.spec = apps[x.name] /\ x.port = x.spec
        /\ ~x.cancelled /\ \A c \in children : c.name # x.name
  <2> DEFINE S(n) == [name |-> n, spec |-> apps[n], port |-> apps[n],
                      at |-> "probe", cancelled |-> FALSE]
             missing == Names(apps) \ {c.name : c \in {d \in children : ~d.cancelled}}
  <2>1. Started(apps) = {S(n) : n \in missing}
    BY DEF Started
  <2>2. \A n \in missing : n \in Names(apps) /\ \A c \in children : c.name # n
    BY <1>0
  <2>3. \A n \in Names(apps) : n \in Shares /\ apps[n] \in Ports
    BY <1>1 DEF Names, Lists
  <2>4. \A n \in Names(apps) : /\ S(n) \in Child /\ S(n).name = n /\ S(n).spec = apps[n]
                               /\ S(n).port = apps[n] /\ S(n).cancelled = FALSE
    BY <2>3 DEF Child
  <2> HIDE DEF S, missing
  <2> QED
    BY <2>1, <2>2, <2>4
<1>4. \A x, y \in Started(apps) : x.name = y.name => x = y
  <2> DEFINE S(n) == [name |-> n, spec |-> apps[n], port |-> apps[n],
                      at |-> "probe", cancelled |-> FALSE]
  <2>1. \A n : S(n).name = n
    OBVIOUS
  <2>2. \A x \in Started(apps) : x = S(x.name)
    <3>1. \A x \in Started(apps) : \E n \in Names(apps) : x = S(n)
      BY DEF Started
    <3> HIDE DEF S
    <3> QED
      BY <2>1, <3>1
  <2> HIDE DEF S
  <2> QED
    BY <2>2
<1>5. \A n \in Names(apps) : \E x \in children' : x.name = n
  <2> SUFFICES ASSUME NEW n \in Names(apps), \A c \in children : c.name # n
               PROVE  \E x \in Started(apps) : x.name = n
    BY <1>0
  <2> DEFINE x == [name |-> n, spec |-> apps[n], port |-> apps[n],
                   at |-> "probe", cancelled |-> FALSE]
  <2>1. x \in Started(apps) /\ x.name = n
    BY DEF Started
  <2> HIDE DEF x
  <2> QED
    BY <2>1
<1> HIDE DEF apps
<1>6. OverlapsOK' /\ \A u \in Threads : Solo(u)' => u = t
  BY <1>0, <1>1, <1>2, StepOverlaps
<1>7. TypesOK'
  <2>1. children' \subseteq Child
    BY <1>0, <1>3 DEF TypesOK
  <2>2. \A u \in Threads :
          (op'[u].at \in {"save", "checkbox", "copied", "writing"} \/ (u = Mover /\ op'[u].at = "set"))
            => Valid(op'[u].apps)
    BY <1>2 DEF TypesOK
  <2>3. boot' \in {"down", "loaded", "hooked", "up"}
    BY <1>0 DEF TypesOK
  <2> QED
    BY <1>0, <1>2, <2>1, <2>2, <2>3 DEF TypesOK
<1>8. PlacesOK'
  <2>1. CASE t = Boot
    BY <1>0, <1>1, <1>2, <2>1, ThreadFacts DEF PlacesOK
  <2>2. CASE t # Boot
    BY <1>0, <1>1, <1>2, <2>2, ThreadFacts DEF PlacesOK
  <2> QED
    BY <2>1, <2>2
<1>9. StopsOK'
  BY <1>0, <1>3 DEF StopsOK
<1>10. OneLoop'
  BY <1>0, <1>3, <1>4 DEF OneLoop
<1>11. DriftOK'
  <2> SUFFICES ASSUME excused # "failed", NEW x \in children', ~x.cancelled, x.port # x.spec
               PROVE  \/ \E m \in moved : m.name = x.name /\ m.port # x.spec
                      \/ op'[Mover].at \in {"set", "save", "onApps"} /\ ~Wanted(x, op'[Mover].apps)
    BY <1>0, <1>2 DEF DriftOK, Wanted
  <2>1. x \in children
    BY <1>0, <1>3
  <2>2. \/ \E m \in moved : m.name = x.name /\ m.port # x.spec
        \/ op[Mover].at \in {"set", "save", "onApps"} /\ ~Wanted(x, op[Mover].apps)
    BY <2>1 DEF DriftOK
  <2> QED
    BY <1>0, <1>2, <2>2, ThreadFacts
<1>12. ASSUME op[t].alone \/ excused = "no"
       PROVE  disk = list /\ Specs(list)' /\ (t = Boot => routes = list)
  <2>1. StageOK(t)
    BY <1>0, <1>12 DEF StagesOK, Solo
  <2>2. disk = list /\ apps = list /\ (t = Boot => routes = list)
    BY <1>0, <2>1 DEF StageOK, apps
  <2>3. \A c \in children : Wanted(c, list)
    BY <1>0, <2>1 DEF StageOK
  <2>4. \A x \in children' : ~x.cancelled /\ Wanted(x, list)
    BY <1>0, <1>3, <2>2, <2>3 DEF Wanted
  <2>5. \A n \in Names(list) : \E x \in children' : x.name = n
    BY <1>5, <2>2
  <2> QED
    BY <1>0, <2>2, <2>4, <2>5 DEF Specs, Wanted
<1>13. StagesOK'
  <2> SUFFICES ASSUME Solo(t)' PROVE StageOK(t)'
    BY <1>6 DEF StagesOK
  <2>1. op'[t].at = "rebuild" /\ (op[t].alone \/ excused = "no")
    BY <1>2 DEF Solo
  <2> QED
    BY <1>0, <1>12, <2>1 DEF StageOK
<1>14. RestOK'
  <2> SUFFICES ASSUME excused' = "no", \A u \in Threads : op'[u].at = "idle"
               PROVE  disk' = list' /\ Settled'
    BY DEF RestOK
  <2>1. t = Boot /\ (op[t].alone \/ excused = "no")
    BY <1>2
  <2> QED
    BY <1>0, <1>12, <2>1 DEF Settled
<1> QED
  BY <1>6, <1>7, <1>8, <1>9, <1>10, <1>11, <1>13, <1>14

LEMMA RegistryInitInv == RegistryInit => RegistryInv
<1> SUFFICES ASSUME RegistryInit PROVE RegistryInv
  OBVIOUS
<1>1. /\ op \in [Threads -> Op]
      /\ \A t \in Threads : op[t].at = "idle" /\ op[t].alone = FALSE
  BY IdleOp DEF RegistryInit
<1>2. TypesOK
  <2>1. disk \in Lists /\ Valid(disk)
    BY DEF RegistryInit
  <2>2. 0 \in 0..MaxEvents
    BY RegistryAssumption
  <2> QED
    BY <1>1, <2>1, <2>2, EmptyValid DEF TypesOK, RegistryInit
<1>3. PlacesOK
  BY <1>1, ThreadFacts DEF PlacesOK, RegistryInit
<1>4. StopsOK /\ OneLoop /\ DriftOK /\ RestOK
  BY DEF StopsOK, OneLoop, DriftOK, RestOK, RegistryInit
<1>5. OverlapsOK /\ StagesOK
  BY <1>1, ThreadFacts DEF OverlapsOK, StagesOK, Solo, RegistryInit
<1> QED
  BY <1>2, <1>3, <1>4, <1>5 DEF RegistryInv

LEMMA RegistryNextInv == RegistryInv /\ [RegistryNext]_registryVars => RegistryInv'
<1> SUFFICES ASSUME RegistryInv, [RegistryNext]_registryVars PROVE RegistryInv'
  OBVIOUS
<1>0. /\ events \in 0..MaxEvents /\ MaxEvents \in Nat /\ taken \subseteq Ports /\ list \in Lists
      /\ (Event => events' \in 0..MaxEvents)
  BY RegistryAssumption DEF RegistryInv, TypesOK, Event
<1>1. CASE UNCHANGED registryVars
  BY <1>0, <1>1, PortsKeep DEF registryVars
<1>2. ASSUME NEW t \in Callers, NEW n \in Shares, NEW p \in Ports, addShare(t, n, p)
      PROVE  RegistryInv'
  <2>1. [list EXCEPT ![n] = p] \in Lists
    BY <1>0 DEF Lists
  <2>2. /\ Begin(t, "set", [list EXCEPT ![n] = p]) /\ boot # "down" /\ Event
        /\ UNCHANGED <<boot, list, disk, routes, children, moved, mu, sup, taken>>
    BY <1>2 DEF addShare, settingsReady
  <2> QED
    BY <1>0, <2>1, <2>2, CallerKeeps
<1>3. ASSUME NEW t \in Callers, NEW n \in Shares, removeShare(t, n)
      PROVE  RegistryInv'
  <2>1. [list EXCEPT ![n] = NoPort] \in Lists
    BY <1>0 DEF Lists
  <2>2. /\ Begin(t, "set", [list EXCEPT ![n] = NoPort]) /\ boot # "down" /\ Event
        /\ UNCHANGED <<boot, list, disk, routes, children, moved, mu, sup, taken>>
    BY <1>3 DEF removeShare, settingsReady
  <2> QED
    BY <1>0, <2>1, <2>2, CallerKeeps
<1>4. ASSUME NEW t \in Callers, accountSnapshot(t) \/ checkboxLock(t)
      PROVE  RegistryInv'
  <2>1. CASE accountSnapshot(t)
    BY <1>0, <2>1, CallerKeeps DEF accountSnapshot, settingsReady
  <2>2. CASE checkboxLock(t)
    BY <1>0, <2>2, CallerKeeps DEF checkboxLock, settingsReady
  <2> QED
    BY <1>4, <2>1, <2>2
<1>5. ASSUME NEW m \in moved, moveApp(m) PROVE RegistryInv'
  BY <1>5, MoveKeeps
<1>6. ASSUME NEW t \in Threads \ {Cli}, setApps(t) \/ notSaved(t) PROVE RegistryInv'
  <2>1. CASE setAppsRefused(t) \/ setAppsNoHook(t) \/ checkboxSaved(t) \/ rebuild(t) \/ notSaved(t)
    BY <2>1, EndsKeep
  <2>2. CASE setAppsLock(t) \/ setAppsSaved(t)
    BY <2>2, SaveKeeps
  <2>3. CASE setStop(t)
    BY <2>3, SetStopKeeps
  <2>4. CASE setStart(t)
    BY <2>4, SetStartKeeps
  <2>5. CASE buildGateway(t)
    BY <2>5, ReadKeeps
  <2> QED
    BY <1>6, <2>1, <2>2, <2>3, <2>4, <2>5 DEF setApps
<1>7. ASSUME NEW t \in Callers \cup {Cli}, saveState(t) PROVE RegistryInv'
  <2>1. t \in Threads
    BY ThreadFacts
  <2> QED
    BY <1>7, <2>1, EndsKeep, ReadKeeps DEF saveState
<1>8. ASSUME NEW c \in children, superviseApp(c) \/ appExits(c) PROVE RegistryInv'
  BY <1>8, SuperviseKeeps
<1>9. CASE loadAgent \/ \E apps \in Lists : shareOffline(apps)
  BY <1>9, DownKeeps
<1>10. CASE serveSnapshot \/ serveHook
  BY <1>10, ThreadFacts, ReadKeeps
<1>11. CASE AgentStops \/ AgentKilled
  BY <1>11, StopKeeps
<1>12. ASSUME NEW p \in Ports, PortTaken(p) \/ PortGiven(p) PROVE RegistryInv'
  <2>1. /\ taken' \subseteq Ports /\ events' \in 0..MaxEvents
        /\ UNCHANGED <<boot, list, disk, routes, children, moved, op, mu, sup, excused>>
    BY <1>0, <1>12 DEF PortTaken, PortGiven
  <2> QED
    BY <2>1, PortsKeep
<1>13. CASE RegistryNext
  BY <1>2, <1>3, <1>4, <1>5, <1>6, <1>7, <1>8, <1>9, <1>10, <1>11, <1>12, <1>13 DEF RegistryNext
<1> QED
  BY <1>1, <1>13

LEMMA RegistrySpecInv == RegistrySpec => []RegistryInv
  BY RegistryInitInv, RegistryNextInv, PTL DEF RegistrySpec

(* The registry keeps its types, and in particular the list never holds    *)
(* more than maxApps applications, whatever the goroutines that work on    *)
(* copies of it write back (state.go:108-117).                             *)
THEOREM RegistryTyped == RegistrySpec => []RegistryTypeOK
<1>1. RegistryInv => RegistryTypeOK
  <2> SUFFICES ASSUME RegistryInv PROVE RegistryTypeOK
    OBVIOUS
  <2>1. \A t \in Threads : op[t].at \in Stages /\ op[t].apps \in Lists /\ op[t].alone \in BOOLEAN
    BY DEF RegistryInv, TypesOK, Op
  <2> QED
    BY <2>1 DEF RegistryInv, TypesOK, RegistryTypeOK, Stages
<1> QED
  BY <1>1, RegistrySpecInv, PTL

(* No two copies of an application serve one folder: there is one loop for *)
(* a name, from the moment it is started until it has ended                *)
(* (supervisor.go:95).                                                     *)
THEOREM OneCopyServes == RegistrySpec => []OneCopy
<1>1. RegistryInv => OneCopy
  BY DEF RegistryInv, OneLoop, OneCopy
<1> QED
  BY <1>1, RegistrySpecInv, PTL

(* Once a change that nothing overlapped is done, the file, the list, the  *)
(* routes and the ports of the applications agree, for any number of       *)
(* shares, ports and requests, and whatever earlier overlapping changes    *)
(* left behind (enrol.go:69).                                              *)
THEOREM RegistryComesTogether == RegistrySpec => []RegistryAgrees
<1>1. RegistryInv => RegistryAgrees
  <2> SUFFICES ASSUME RegistryInv, AtRest, excused = "no"
               PROVE  /\ disk = list /\ routes = list
                      /\ {<<c.name, c.port>> : c \in children} = {<<n, list[n]>> : n \in Names(list)}
    BY DEF RegistryAgrees
  <2> USE DEF RegistryInv
  <2>1. disk = list /\ routes = list /\ Specs(list)
    BY DEF AtRest, RestOK, Settled
  <2>2. \A c \in children : ~c.cancelled /\ c.name \in Names(list) /\ list[c.name] = c.spec
    BY <2>1 DEF Specs, Wanted
  <2>3. \A c \in children : c.port = c.spec
    BY <2>2, ThreadFacts DEF DriftOK, AtRest
  <2>4. \A n \in Names(list) : \E c \in children : c.name = n
    BY <2>1 DEF Specs
  <2>5. \A c \in children : <<c.name, c.port>> \in {<<n, list[n]>> : n \in Names(list)}
    BY <2>2, <2>3
  <2>6. \A n \in Names(list) : <<n, list[n]>> \in {<<c.name, c.port>> : c \in children}
    BY <2>2, <2>3, <2>4
  <2> QED
    BY <2>1, <2>5, <2>6
<1> QED
  BY <1>1, RegistrySpecInv, PTL
=============================================================================
