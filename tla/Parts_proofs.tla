---------------------------- MODULE Parts_proofs ----------------------------
(***************************************************************************)
(* Theorems about three more parts of the agent, the device key            *)
(* (DeviceKey), compressing files of a share (ZipShare) and the service    *)
(* the agent runs as (ServicePlan), for any commands, requests and however *)
(* long they go on; and about the parts of MCParts side by side.           *)
(***************************************************************************)
EXTENDS MCParts, ControlPlane_proofs, ShareRegistry_proofs, SequenceTheorems, TLAPS

-----------------------------------------------------------------------------
(* DeviceKey *)

Command == [at : {"off", "load", "wait", "save", "write", "readBack", "ready"},
            store : Stores, key : Keys \cup {NoKey}, began : Keys \cup {NoKey, Cut}]

(* A process that runs found the store as it began or fuller: what is      *)
(* stored is never taken away.  One that makes a key began on an empty     *)
(* store and has a key to write, and only a file is written in two steps.  *)
CommandOK(q) ==
  /\ q.at # "off" => tries >= 1 /\ (q.began # NoKey => stored[q.store] # NoKey)
  /\ q.at \in {"save", "write", "readBack"} => q.began = NoKey /\ q.key \in Keys
  /\ q.at = "write" => q.store = "file"
  /\ q.at = "ready" => q.key \in Keys

KeyInv == KeyTypeOK /\ \A c \in Commands : CommandOK(command[c])

LEMMA KeyInitInv == KeyInit => KeyInv
<1> SUFFICES ASSUME KeyInit PROVE KeyInv
  OBVIOUS
<1>1. NoCommand \in Command /\ NoCommand.at = "off"
  BY DEF NoCommand, Command, Stores
<1>2. \A c \in Commands : command[c] = NoCommand
  BY DEF KeyInit
<1>3. KeyTypeOK
  BY <1>1, <1>2, KeyAssumption DEF KeyInit, KeyTypeOK, Command, Stores
<1> QED
  BY <1>1, <1>2, <1>3 DEF KeyInv, CommandOK

(* One process moves; a store may gain a key or a file that is not written *)
(* yet. *)
LEMMA CommandMoves ==
  ASSUME KeyInv, NEW c \in Commands, NEW q \in Command, command' = [command EXCEPT ![c] = q],
         keyring' \in BOOLEAN, locked' \in BOOLEAN,
         tries' \in 0..MaxTries, tries <= tries',
         stored' \in [Stores -> Keys \cup {NoKey, Cut}], stored'["keyring"] # Cut,
         \A s \in Stores : stored[s] # NoKey => stored'[s] # NoKey,
         CommandOK(q)'
  PROVE  KeyInv'
<1>1. command'[c] = q /\ \A d \in Commands \ {c} : command'[d] = command[d]
  BY DEF KeyInv, KeyTypeOK
<1>2. command' \in [Commands -> Command]
  BY DEF KeyInv, KeyTypeOK, Command
<1>3. tries \in Nat /\ tries' \in Nat
  BY KeyAssumption DEF KeyInv, KeyTypeOK
<1>4. ASSUME NEW d \in Commands PROVE CommandOK(command[d])'
  <2>1. CASE d = c
    BY <1>1, <2>1 DEF CommandOK
  <2>2. CASE d # c
    <3>1. command'[d] = command[d] /\ command[d].store \in Stores /\ CommandOK(command[d])
      BY <1>1, <2>2 DEF KeyInv, KeyTypeOK
    <3> QED
      BY <1>3, <3>1 DEF CommandOK
  <2> QED
    BY <2>1, <2>2
<1>5. \A d \in Commands : command'[d].at = "ready" => command'[d].key \in Keys
  BY <1>4 DEF CommandOK
<1> QED
  BY <1>2, <1>4, <1>5 DEF KeyInv, KeyTypeOK, Command

LEMMA KeyNextInv == KeyInv /\ [KeyNext]_keyVars => KeyInv'
<1> SUFFICES ASSUME KeyInv, [KeyNext]_keyVars PROVE KeyInv'
  OBVIOUS
<1>0. /\ keyring \in BOOLEAN /\ locked \in BOOLEAN /\ tries \in 0..MaxTries /\ MaxTries \in Nat
      /\ stored \in [Stores -> Keys \cup {NoKey, Cut}] /\ stored["keyring"] # Cut
      /\ \A c \in Commands : command[c] \in Command /\ CommandOK(command[c])
      /\ \A c \in Commands : command[c].store \in Stores
      /\ NoKey \notin Keys /\ Cut \notin Keys /\ NoKey # Cut
  BY KeyAssumption DEF KeyInv, KeyTypeOK, Command
<1>1. CASE UNCHANGED keyVars
  BY <1>1 DEF keyVars, KeyInv, KeyTypeOK, CommandOK
<1>2. CASE lockChanges
  BY <1>2 DEF lockChanges, KeyInv, KeyTypeOK, CommandOK
<1>3. ASSUME NEW c \in Commands, openSeedStore(c) PROVE KeyInv'
  <2>1. PICK s \in Stores : command' = [command EXCEPT ![c] =
                      [at |-> "load", store |-> s, key |-> NoKey, began |-> stored[s]]]
    BY <1>3 DEF openSeedStore, Stores
  <2> DEFINE q == [at |-> "load", store |-> s, key |-> NoKey, began |-> stored[s]]
  <2>2. tries' = tries + 1 /\ tries < MaxTries /\ UNCHANGED <<keyring, stored, locked>>
    BY <1>3 DEF openSeedStore
  <2>3. q \in Command
    BY <1>0 DEF Command
  <2>4. CommandOK(q)'
    BY <1>0, <2>2 DEF CommandOK
  <2>5. tries' \in 0..MaxTries /\ tries <= tries'
    BY <1>0, <2>2
  <2> QED
    BY <1>0, <2>1, <2>2, <2>3, <2>4, <2>5, CommandMoves
<1>4. ASSUME NEW c \in Commands, NEW q \in Command, Move(c, q), UNCHANGED stored, CommandOK(q)
      PROVE  KeyInv'
  <2>1. CommandOK(q)' /\ tries' = tries
    BY <1>4 DEF Move, CommandOK
  <2>2. /\ command' = [command EXCEPT ![c] = q] /\ keyring' = keyring /\ locked' = locked
        /\ stored' = stored
    BY <1>4 DEF Move
  <2>3. tries <= tries'
    BY <1>0, <2>1
  <2> QED
    BY <1>0, <2>1, <2>2, <2>3, CommandMoves
<1>5. ASSUME NEW c \in Commands, Exit(c), UNCHANGED stored PROVE KeyInv'
  <2>1. NoCommand \in Command /\ NoCommand.at = "off"
    BY DEF NoCommand, Command, Stores
  <2> QED
    BY <1>4, <1>5, <2>1 DEF Exit, CommandOK
<1>6. ASSUME NEW c \in Commands, NEW at \in {"wait", "load"}, command[c].at \in {"load", "wait"},
             Move(c, [command[c] EXCEPT !.at = at]), UNCHANGED stored
      PROVE  KeyInv'
  <2> DEFINE q == [command[c] EXCEPT !.at = at]
  <2>1. q \in Command /\ q.at = at /\ q.began = command[c].began /\ q.store = command[c].store
    BY <1>0 DEF Command
  <2> HIDE DEF q
  <2>2. CommandOK(q)
    BY <1>0, <1>6, <2>1 DEF CommandOK
  <2>3. Move(c, q)
    BY <1>6 DEF q
  <2> QED
    BY <1>4, <1>6, <2>1, <2>2, <2>3
<1>7. ASSUME NEW c \in Commands, loadFound(c) PROVE KeyInv'
  <2> DEFINE k == stored[command[c].store]
             q == [command[c] EXCEPT !.at = "ready", !.key = k]
  <2>1. command[c].at = "load" /\ k # NoKey /\ UNCHANGED stored
    BY <1>7 DEF loadFound, loadSeed
  <2>2. CASE k = Cut
    BY <1>5, <1>7, <2>1, <2>2 DEF loadFound, loadSeed
  <2>3. CASE k # Cut
    <3>1. Move(c, q)
      BY <1>7, <2>3 DEF loadFound, loadSeed
    <3>2. k \in Keys
      BY <1>0, <2>1, <2>3
    <3>3. /\ q \in Command /\ q.at = "ready" /\ q.key = k /\ q.began = command[c].began
          /\ q.store = command[c].store
      BY <1>0, <3>2 DEF Command
    <3> HIDE DEF q
    <3>4. CommandOK(q)
      BY <1>0, <2>1, <3>2, <3>3 DEF CommandOK
    <3> QED
      BY <1>4, <2>1, <3>1, <3>3, <3>4
  <2> QED
    BY <2>2, <2>3
<1>8. ASSUME NEW c \in Commands, loadEmpty(c) PROVE KeyInv'
  <2> DEFINE k == <<c, tries>>
             q == [command[c] EXCEPT !.at = "save", !.key = k]
  <2>1. /\ command[c].at = "load" /\ stored[command[c].store] = NoKey /\ UNCHANGED stored
        /\ Move(c, q)
    BY <1>8 DEF loadEmpty, loadSeed
  <2>2. tries >= 1 /\ command[c].began = NoKey
    BY <1>0, <2>1 DEF CommandOK
  <2>3. k \in Keys
    BY <1>0, <2>2 DEF Keys
  <2> HIDE DEF k
  <2>4. /\ q \in Command /\ q.at = "save" /\ q.key = k /\ q.began = command[c].began
        /\ q.store = command[c].store
    BY <1>0, <2>3 DEF Command
  <2> HIDE DEF q
  <2>5. CommandOK(q)
    BY <2>2, <2>3, <2>4 DEF CommandOK
  <2> QED
    BY <1>4, <2>1, <2>4, <2>5
<1>9. ASSUME NEW c \in Commands, NEW at \in {"readBack", "write"}, NEW v \in Keys \cup {Cut},
             command[c].at \in {"save", "write"}, at = "write" => command[c].store = "file",
             v = Cut => command[c].store = "file",
             stored' = [stored EXCEPT ![command[c].store] = v],
             Move(c, [command[c] EXCEPT !.at = at])
      PROVE  KeyInv'
  <2>1. PICK q \in Command :
          /\ q = [command[c] EXCEPT !.at = at]
          /\ q.at = at /\ q.began = command[c].began /\ q.store = command[c].store
          /\ q.key = command[c].key
    <3> DEFINE e == [command[c] EXCEPT !.at = at]
    <3>1. /\ e \in Command /\ e.at = at /\ e.began = command[c].began
          /\ e.store = command[c].store /\ e.key = command[c].key
      BY <1>0 DEF Command
    <3> QED
      BY <3>1
  <2>2. /\ command' = [command EXCEPT ![c] = q] /\ UNCHANGED <<keyring, locked, tries>>
    BY <1>9, <2>1 DEF Move
  <2>3. /\ stored' \in [Stores -> Keys \cup {NoKey, Cut}] /\ stored'["keyring"] # Cut
        /\ \A s \in Stores : stored[s] # NoKey => stored'[s] # NoKey
        /\ stored'[command[c].store] # NoKey
    BY <1>0, <1>9 DEF Stores
  <2>4. CommandOK(q)'
    BY <1>0, <1>9, <2>1, <2>2, <2>3 DEF CommandOK
  <2>5. tries <= tries'
    BY <1>0, <2>2
  <2> QED
    BY <1>0, <2>2, <2>3, <2>4, <2>5, CommandMoves
<1>10. ASSUME NEW c \in Commands, save(c) PROVE KeyInv'
  <2>1. command[c].at = "save" /\ command[c].key \in Keys
    BY <1>0, <1>10 DEF save, CommandOK
  <2>2. CASE command[c].store = "keyring"
    <3>1. /\ stored' = [stored EXCEPT ![command[c].store] = command[c].key]
          /\ Move(c, [command[c] EXCEPT !.at = "readBack"])
      BY <1>10, <2>2 DEF save
    <3>2. command[c].key # Cut
      BY <1>0, <2>1
    <3> QED
      BY <1>9, <2>1, <3>1, <3>2
  <2>3. CASE command[c].store = "file"
    <3>1. /\ stored' = [stored EXCEPT ![command[c].store] = Cut]
          /\ Move(c, [command[c] EXCEPT !.at = "write"])
      BY <1>10, <2>3 DEF save
    <3> QED
      BY <1>9, <2>1, <2>3, <3>1
  <2> QED
    BY <1>0, <2>2, <2>3 DEF Stores
<1>11. ASSUME NEW c \in Commands, writeSeed(c) PROVE KeyInv'
  <2>1. command[c].at = "write" /\ command[c].key \in Keys /\ command[c].store = "file"
    BY <1>0, <1>11 DEF writeSeed, CommandOK
  <2> QED
    BY <1>0, <1>9, <1>11, <2>1 DEF writeSeed
<1>12. ASSUME NEW c \in Commands, readBack(c) PROVE KeyInv'
  <2> DEFINE q == [command[c] EXCEPT !.at = "ready"]
  <2>1. command[c].at = "readBack" /\ UNCHANGED stored
    BY <1>12 DEF readBack
  <2>2. CASE loadSeed(c) = command[c].key
    <3>1. Move(c, q)
      BY <1>12, <2>2 DEF readBack
    <3>2. /\ q \in Command /\ q.at = "ready" /\ q.key = command[c].key
          /\ q.began = command[c].began /\ q.store = command[c].store
      BY <1>0 DEF Command
    <3> HIDE DEF q
    <3>3. CommandOK(q)
      BY <1>0, <2>1, <3>2 DEF CommandOK
    <3> QED
      BY <1>4, <2>1, <3>1, <3>2, <3>3
  <2>3. CASE loadSeed(c) # command[c].key
    BY <1>5, <1>12, <2>1, <2>3 DEF readBack
  <2> QED
    BY <2>2, <2>3
<1>13. ASSUME NEW c \in Commands, saveFails(c) \/ commandEnds(c) PROVE KeyInv'
  BY <1>5, <1>13 DEF saveFails, commandEnds
<1>14. ASSUME NEW c \in Commands, loadLocked(c) \/ waitForDeviceKey(c) PROVE KeyInv'
  BY <1>6, <1>14 DEF loadLocked, waitForDeviceKey
<1> QED
  BY <1>1, <1>2, <1>3, <1>7, <1>8, <1>10, <1>11, <1>12, <1>13, <1>14 DEF KeyNext, loadOrCreateKey

LEMMA KeySpecInv == KeySpec => []KeyInv
BY KeyInitInv, KeyNextInv, PTL DEF KeySpec

(* The stores and the processes keep their types; in particular a process  *)
(* that goes on has a key that was made (identity.go:44-78), and a keyring *)
(* never holds half a key.                                                 *)
THEOREM KeyTyped == KeySpec => []KeyTypeOK
BY KeySpecInv, PTL DEF KeyInv

(* identity.go: a process that began when the store held a key never       *)
(* replaces it, whatever locks, stops and restarts come in between, for    *)
(* any number of commands and starts.                                      *)
THEOREM IdentityKept == KeySpec => KeyKept
<1> DEFINE A == \A s \in Stores :
       stored'[s] # stored[s]
         => \E c \in Commands : /\ command[c].store = s /\ command[c].began = NoKey
                              /\ command[c].at \in {"save", "write"}
                              /\ command'[c].at # command[c].at
<1>1. KeyInv /\ [KeyNext]_keyVars => A
  <2> SUFFICES ASSUME KeyInv, [KeyNext]_keyVars, NEW s \in Stores, stored'[s] # stored[s]
               PROVE  \E c \in Commands : /\ command[c].store = s /\ command[c].began = NoKey
                                          /\ command[c].at \in {"save", "write"}
                                          /\ command'[c].at # command[c].at
    OBVIOUS
  <2>1. PICK c \in Commands : save(c) \/ writeSeed(c)
    BY DEF KeyNext, keyVars, lockChanges, openSeedStore, waitForDeviceKey, loadOrCreateKey,
           loadLocked, loadFound, loadEmpty, saveFails, readBack, commandEnds
  <2>2. /\ command[c].at \in {"save", "write"} /\ CommandOK(command[c])
        /\ command[c] \in Command /\ command \in [Commands -> Command]
        /\ stored \in [Stores -> Keys \cup {NoKey, Cut}]
    BY <2>1 DEF save, writeSeed, KeyInv, KeyTypeOK, Command
  <2>3. command[c].began = NoKey
    BY <2>2 DEF CommandOK
  <2>4. command'[c].at # command[c].at
    BY <2>1, <2>2 DEF save, writeSeed, Move, Command
  <2>5. command[c].store = s
    BY <2>1, <2>2 DEF save, writeSeed, Stores, CommandOK, Command
  <2> QED
    BY <2>2, <2>3, <2>4, <2>5
<1>2. KeySpec => [][A]_keyVars
  BY <1>1, KeySpecInv, PTL DEF KeySpec
<1> QED
  BY <1>2 DEF KeyKept

-----------------------------------------------------------------------------
(* ZipShare *)

(* A rename is reached only on a disk without links, and what is under the *)
(* name is whole.                                                          *)
ZipInv ==
  /\ ZipTypeOK
  /\ \A z \in Zips : zip[z].at = "rename" => ~hardLinks
  /\ named # NoFile => named.whole

LEMMA ZipInitInv == ZipInit => ZipInv
BY ZipAssumption DEF ZipInit, ZipInv, ZipTypeOK, Temps

(* One request moves. *)
LEMMA ZipMoves ==
  ASSUME ZipInv, NEW z \in Zips, NEW tmp \in Temps,
         NEW at \in {"new", "writing", "place", "rename", "remove", "done"}, SetZip(z, at, tmp),
         at \in {"place", "rename"} => tmp = "whole",
         at = "rename" => ~hardLinks,
         named' \in Files \cup {NoFile}, named' # NoFile => named'.whole
  PROVE  ZipInv'
<1>1. /\ zip' = [zip EXCEPT ![z] = [at |-> at, tmp |-> tmp]] /\ hardLinks' = hardLinks /\ edits' = edits
  BY DEF SetZip
<1>2. /\ zip'[z] = [at |-> at, tmp |-> tmp]
      /\ \A y \in Zips \ {z} : zip'[y] = zip[y]
      /\ zip' \in [Zips -> [at : {"new", "writing", "place", "rename", "remove", "done"}, tmp : Temps]]
  BY <1>1 DEF ZipInv, ZipTypeOK
<1>3. \A y \in Zips : zip'[y].at \in {"place", "rename"} => zip'[y].tmp = "whole"
  BY <1>2 DEF ZipInv, ZipTypeOK
<1>4. \A y \in Zips : zip'[y].at = "rename" => ~hardLinks
  BY <1>2 DEF ZipInv
<1> QED
  BY <1>1, <1>2, <1>3, <1>4 DEF ZipInv, ZipTypeOK

(* What a request that is about to place its file would place. *)
LEMMA PlacedWhole ==
  ASSUME ZipInv, NEW z \in Zips, zip[z].at \in {"place", "rename"}
  PROVE  Placed(z) \in Files /\ Placed(z).whole
<1>1. zip[z].tmp = "whole"
  BY DEF ZipInv, ZipTypeOK
<1> QED
  BY <1>1 DEF Placed, Files

LEMMA ZipNextInv == ZipInv /\ [ZipNext]_zipVars => ZipInv'
<1> SUFFICES ASSUME ZipInv, [ZipNext]_zipVars PROVE ZipInv'
  OBVIOUS
<1>0. named \in Files \cup {NoFile} /\ (named # NoFile => named.whole)
  BY DEF ZipInv, ZipTypeOK
<1>1. CASE UNCHANGED zipVars
  BY <1>1 DEF zipVars, ZipInv, ZipTypeOK
<1>2. ASSUME NEW f \in {NoFile, [by |-> Upload, whole |-> TRUE]}, fileChanges(f) PROVE ZipInv'
  <2>1. f \in Files \cup {NoFile} /\ (f # NoFile => f.whole)
    <3>1. CASE f = NoFile
      BY <3>1
    <3>2. CASE f = [by |-> Upload, whole |-> TRUE]
      BY <3>2 DEF Files
    <3> QED
      BY <3>1, <3>2
  <2>2. edits' \in 0..MaxFiles
    BY <1>2, ZipAssumption DEF fileChanges, ZipInv, ZipTypeOK
  <2> QED
    BY <1>2, <2>1, <2>2 DEF fileChanges, ZipInv, ZipTypeOK
<1>3. ASSUME NEW z \in Zips, compress(z) \/ compressRefused(z) \/ writeZip(z) \/ writeZipFails(z)
                             \/ removeTemp(z)
      PROVE  ZipInv'
  BY <1>0, <1>3, ZipMoves
  DEF compress, compressRefused, writeZip, writeZipFails, removeTemp, Temps
<1>4. ASSUME NEW z \in Zips, place(z) PROVE ZipInv'
  <2>1. zip[z].at = "place" /\ zip[z].tmp \in Temps /\ zip[z].tmp = "whole"
    BY <1>4 DEF place, ZipInv, ZipTypeOK
  <2>2. Placed(z) \in Files /\ Placed(z).whole
    BY <2>1, PlacedWhole
  <2>3. CASE hardLinks
    <3>1. SetZip(z, "remove", zip[z].tmp)
      BY <1>4, <2>3 DEF place
    <3>2. named' = Placed(z) \/ named' = named
      BY <1>4, <2>3 DEF place
    <3> QED
      BY <1>0, <2>1, <2>2, <3>1, <3>2, ZipMoves
  <2>4. CASE ~hardLinks
    <3>1. PICK at \in {"rename", "remove"} : SetZip(z, at, zip[z].tmp)
      BY <1>4, <2>4 DEF place
    <3>2. named' = named
      BY <1>4, <2>4 DEF place
    <3> QED
      BY <1>0, <2>1, <2>4, <3>1, <3>2, ZipMoves
  <2> QED
    BY <2>3, <2>4
<1>5. ASSUME NEW z \in Zips, renameZip(z) PROVE ZipInv'
  BY <1>5, PlacedWhole, ZipMoves DEF renameZip, Temps
<1> QED
  BY <1>1, <1>2, <1>3, <1>4, <1>5 DEF ZipNext

LEMMA ZipSpecInv == ZipSpec => []ZipInv
BY ZipInitInv, ZipNextInv, PTL DEF ZipSpec

(* The requests and their temporary files keep their types; in particular  *)
(* only a file that is whole is ever put in place (compress.go:197-213).   *)
THEOREM ZipTyped == ZipSpec => []ZipTypeOK
BY ZipSpecInv, PTL DEF ZipInv

(* compress.go place: nothing but a whole zip appears under the name, and  *)
(* on a disk with hard links no request replaces a file that appeared      *)
(* after it looked, for any number of requests and changes.                *)
THEOREM ZipPlacedWhole == ZipSpec => ZipPlaced
<1> DEFINE A == /\ named' # NoFile => named'.whole
                /\ hardLinks /\ named # NoFile /\ named' # named => edits' # edits
<1>1. ZipInv /\ [ZipNext]_zipVars => A
  <2> SUFFICES ASSUME ZipInv, [ZipNext]_zipVars PROVE A
    OBVIOUS
  <2>1. named' # NoFile => named'.whole
    BY ZipNextInv DEF ZipInv
  <2>2. ASSUME hardLinks, named # NoFile, named' # named PROVE edits' # edits
    <3>1. ASSUME NEW z \in Zips, place(z) \/ renameZip(z) PROVE FALSE
      BY <2>2, <3>1 DEF place, renameZip, ZipInv
    <3>2. PICK f : fileChanges(f)
      BY <2>2, <3>1 DEF ZipNext, zipVars, compress, compressRefused, writeZip, writeZipFails,
                        removeTemp
    <3> QED
      BY <3>2, ZipAssumption DEF fileChanges, ZipInv, ZipTypeOK
  <2> QED
    BY <2>1, <2>2
<1>2. ZipSpec => [][A]_zipVars
  BY <1>1, ZipSpecInv, PTL DEF ZipSpec
<1> QED
  BY <1>2 DEF ZipPlaced

-----------------------------------------------------------------------------
(* ServicePlan *)

Cmd == [do : {"load", "unload", "create", "run", "end", "delete", "enable", "disable"},
        job : Jobs, optional : BOOLEAN]

(* What a plan may hold: on Linux nothing about the tray, and in an        *)
(* uninstall nothing that starts a job or switches it on.                  *)
Cmds == IF goos = "linux" THEN {c \in Cmd : c.job = "agent"} ELSE Cmd
Stops == {c \in Cmds : c.do \in {"unload", "end", "delete"}}

(* The agent neither runs nor will be started. *)
AgentOff == job["agent"].running = "no" /\ ~job["agent"].enabled

(* How far Quit has come: what is left of its commands, and what the ones  *)
(* before have done.  Linux has no tray to ask for it.                     *)
QuitOK ==
  \/ /\ goos = "darwin"
     /\ \/ plan["tray"] = <<May("unload", "agent"), May("unload", "tray")>>
        \/ plan["tray"] \in {<<May("unload", "tray")>>, <<>>} /\ AgentOff
  \/ /\ goos = "windows"
     /\ \/ plan["tray"] = <<May("end", "agent"), May("disable", "agent"), May("disable", "tray")>>
        \/ /\ plan["tray"] = <<May("disable", "agent"), May("disable", "tray")>>
           /\ job["agent"].running = "no"
        \/ plan["tray"] \in {<<May("disable", "tray")>>, <<>>} /\ AgentOff

(* A job the scheduler does not know is off; on Linux it never knows the   *)
(* tray.                                                                   *)
JobsOK ==
  /\ \A j \in Jobs : ~job[j].known => job[j].running = "no" /\ ~job[j].enabled
  /\ goos = "linux" => ~job["tray"].known

PlansOK ==
  /\ plan \in [{"person", "tray"} -> Seq(Cmds)]
  /\ doing = "nothing" => plan["person"] = <<>>
  /\ doing = "uninstall" => plan["person"] \in Seq(Stops)

QuitInv ==
  /\ quit \in {"asked", "done"} => doing \in {"nothing", "uninstall"}
  /\ quit = "asked" => QuitOK
  /\ quit = "done" => AgentOff /\ plan["tray"] = <<>>

ServiceInv == ServiceTypeOK /\ JobsOK /\ PlansOK /\ QuitInv

LEMMA ServiceInitInv == ServiceInit => ServiceInv
<1> SUFFICES ASSUME ServiceInit PROVE ServiceInv
  OBVIOUS
<1>1. ServiceTypeOK
  <2>1. NoJob \in Job /\ NoJob.running = "no"
    BY DEF NoJob, Job
  <2>2. job \in [Jobs -> Job] /\ \A j \in Jobs : job[j].running = "no"
    BY <2>1 DEF ServiceInit
  <2>3. DOMAIN plan = {"person", "tray"} /\ plan["tray"] = <<>>
    BY DEF ServiceInit
  <2>4. plans \in 0..MaxPlans
    BY PlanAssumption DEF ServiceInit
  <2>5. files \in BOOLEAN
    BY DEF ServiceInit
  <2> QED
    BY <2>2, <2>3, <2>4, <2>5 DEF ServiceInit, ServiceTypeOK
<1>2. JobsOK /\ QuitInv
  BY DEF ServiceInit, JobsOK, QuitInv, NoJob, Jobs
<1>3. PlansOK
  <2>1. <<>> \in Seq(Cmds)
    BY EmptySeq
  <2> QED
    BY <2>1 DEF ServiceInit, PlansOK
<1> QED
  BY <1>1, <1>2, <1>3 DEF ServiceInv

(* The plans of the three systems are lists of commands of theirs. *)
LEMMA PlanCmds ==
  ASSUME goos \in {"darwin", "windows", "linux"}
  PROVE  /\ servicePlanFor.install \in Seq(Cmds)
         /\ servicePlanFor.reopen \in Seq(Cmds)
         /\ servicePlanFor.uninstall \in Seq(Stops)
         /\ servicePlanFor.quit \in Seq(Cmds)
<1>0. ASSUME NEW j \in Jobs,
             NEW do \in {"load", "unload", "create", "run", "end", "delete", "enable", "disable"}
      PROVE  /\ Must(do, j) \in Cmd /\ Must(do, j).do = do /\ Must(do, j).job = j
             /\ May(do, j) \in Cmd /\ May(do, j).do = do /\ May(do, j).job = j
  BY DEF Must, May, Cmd
<1>1. CASE goos = "darwin"
  <2>1. servicePlanFor = darwinPlan
    BY <1>1 DEF servicePlanFor
  <2>2. \A j \in Jobs : /\ {May("load", j), May("unload", j), Must("load", j)} \subseteq Cmds
                        /\ May("unload", j) \in Stops
    BY <1>0, <1>1 DEF Cmds, Stops
  <2> QED
    BY <2>1, <2>2 DEF darwinPlan, Jobs
<1>2. CASE goos = "linux"
  <2>1. servicePlanFor = linuxPlan
    BY <1>2 DEF servicePlanFor
  <2>2. Must("load", "agent") \in Cmds /\ May("unload", "agent") \in Stops
    BY <1>0, <1>2 DEF Cmds, Stops, Jobs
  <2> QED
    BY <2>1, <2>2 DEF linuxPlan
<1>3. CASE goos = "windows"
  <2>1. servicePlanFor = windowsPlan
    BY <1>3 DEF servicePlanFor
  <2>2. ASSUME NEW j \in Jobs
        PROVE  /\ {Must("create", j), Must("run", j), Must("enable", j)} \subseteq Cmds
               /\ {May("run", j), May("enable", j), May("end", j), May("disable", j)} \subseteq Cmds
               /\ {May("end", j), May("delete", j)} \subseteq Stops
    BY <1>0, <1>3 DEF Cmds, Stops
  <2>3. /\ servicePlanFor.install \in Seq(Cmds) /\ servicePlanFor.reopen \in Seq(Cmds)
        /\ servicePlanFor.uninstall \in Seq(Stops)
    BY <2>1, <2>2 DEF windowsPlan, Jobs
  <2> QED
    BY <2>1, <2>2, <2>3 DEF windowsPlan, Jobs
<1> QED
  BY <1>1, <1>2, <1>3

(* What a command that works does to a job. *)
LEMMA Effects ==
  ASSUME NEW c \in Cmd, NEW b \in Job,
         ~b.known => b.running = "no" /\ ~b.enabled,
         c.do \in {"run", "end", "enable", "disable", "delete"} => b.known
  PROVE  /\ Effect(c, b) \in Job
         /\ ~Effect(c, b).known => Effect(c, b).running = "no" /\ ~Effect(c, b).enabled
         /\ c.do \in {"unload", "end", "delete"} => Effect(c, b).running = "no"
         /\ c.do \in {"unload", "delete", "disable"} => ~Effect(c, b).enabled
         /\ c.do = "end" => Effect(c, b).enabled = b.enabled
         /\ c.do = "disable" => Effect(c, b).running = b.running
<1> USE DEF Effect, Job
<1>1. CASE c.do = "load"
  BY <1>1
<1>2. CASE c.do = "unload"
  BY <1>2
<1>3. CASE c.do = "create"
  BY <1>3
<1>4. CASE c.do = "run"
  BY <1>4
<1>5. CASE c.do = "end"
  BY <1>5
<1>6. CASE c.do = "delete"
  BY <1>6 DEF NoJob
<1>7. CASE c.do = "enable"
  BY <1>7
<1>8. CASE c.do = "disable"
  BY <1>8
<1> QED
  BY <1>1, <1>2, <1>3, <1>4, <1>5, <1>6, <1>7, <1>8 DEF Cmd

(* The parts of the invariant that no plan disturbs follow from what is    *)
(* left of it.                                                             *)
LEMMA TypedAfter ==
  ASSUME ServiceInv, UNCHANGED <<goos, other>>, files' \in BOOLEAN,
         job' \in [Jobs -> Job], JobsOK', PlansOK', QuitInv',
         plan'["tray"] # <<>> => job'["tray"].running = "yes",
         doing' \in {"nothing", "install", "uninstall", "open"},
         quit' \in {"no", "asked", "done"}, plans' \in 0..MaxPlans
  PROVE  ServiceInv'
<1>1. goos' \in {"darwin", "windows", "linux"} /\ other' \in BOOLEAN
  BY DEF ServiceInv, ServiceTypeOK
<1>2. \A j \in Jobs : job'[j].running = "yes" => job'[j].known
  BY DEF JobsOK
<1>3. DOMAIN plan' = {"person", "tray"}
  BY DEF PlansOK
<1> QED
  BY <1>1, <1>2, <1>3 DEF ServiceInv, ServiceTypeOK

(* runPlan: one command of a plan works. *)
LEMMA RunKeeps ==
  ASSUME ServiceInv, NEW p \in {"person", "tray"}, runPlan(p)
  PROVE  ServiceInv'
<1> DEFINE c == Head(plan[p])
           b == Effect(c, job[c.job])
           left == [plan EXCEPT ![p] = Tail(plan[p])]
<1>0. /\ ServiceTypeOK /\ JobsOK /\ PlansOK /\ QuitInv
      /\ plan \in [{"person", "tray"} -> Seq(Cmds)] /\ plan[p] \in Seq(Cmds)
      /\ job \in [Jobs -> Job]
      /\ plan["tray"] # <<>> => job["tray"].running = "yes"
  BY DEF ServiceInv, PlansOK, ServiceTypeOK
<1>1. /\ plan[p] # <<>> /\ ~Refused(c)
      /\ job' = [job EXCEPT ![c.job] = b]
      /\ plan' = IF job'["tray"].running # "yes" THEN [left EXCEPT !["tray"] = <<>>] ELSE left
      /\ quit' = IF quit # "asked" \/ job'["tray"].running = "yes" THEN quit
                 ELSE IF p = "tray" THEN "done" ELSE "no"
      /\ UNCHANGED <<goos, other, files, doing, plans>>
  BY DEF runPlan, After, TrayGone, QuitAfter
<1>2. c \in Cmds /\ c \in Cmd /\ c.job \in Jobs /\ Tail(plan[p]) \in Seq(Cmds)
  <2>1. c \in Cmds /\ Tail(plan[p]) \in Seq(Cmds)
    BY <1>0, <1>1, HeadTailProperties
  <2> QED
    BY <2>1 DEF Cmds, Cmd
<1>3. /\ b \in Job
      /\ ~b.known => b.running = "no" /\ ~b.enabled
      /\ c.do \in {"unload", "end", "delete"} => b.running = "no"
      /\ c.do \in {"unload", "delete", "disable"} => ~b.enabled
      /\ c.do = "end" => b.enabled = job[c.job].enabled
      /\ c.do = "disable" => b.running = job[c.job].running
  <2>1. job[c.job] \in Job /\ (~job[c.job].known => job[c.job].running = "no" /\ ~job[c.job].enabled)
    BY <1>0, <1>2 DEF JobsOK
  <2>2. c.do \in {"run", "end", "enable", "disable", "delete"} => job[c.job].known
    BY <1>1 DEF Refused
  <2> HIDE DEF c
  <2> QED
    BY <1>2, <2>1, <2>2, Effects
<1> HIDE DEF c, b
<1>4. job' \in [Jobs -> Job] /\ job'[c.job] = b /\ \A j \in Jobs : j # c.job => job'[j] = job[j]
  BY <1>0, <1>1, <1>2, <1>3
<1>5. JobsOK'
  <2>1. \A j \in Jobs : ~job'[j].known => job'[j].running = "no" /\ ~job'[j].enabled
    BY <1>0, <1>3, <1>4 DEF JobsOK
  <2>2. goos = "linux" => job'["tray"] = job["tray"]
    BY <1>2, <1>4 DEF Cmds, Jobs
  <2> QED
    BY <1>0, <1>1, <2>1, <2>2 DEF JobsOK
<1>6. /\ plan' \in [{"person", "tray"} -> Seq(Cmds)]
      /\ plan'["person"] = IF p = "person" THEN Tail(plan["person"]) ELSE plan["person"]
      /\ plan'["tray"] = IF job'["tray"].running # "yes" THEN <<>>
                         ELSE IF p = "tray" THEN Tail(plan["tray"]) ELSE plan["tray"]
  <2>1. /\ left \in [{"person", "tray"} -> Seq(Cmds)]
        /\ left["person"] = IF p = "person" THEN Tail(plan["person"]) ELSE plan["person"]
        /\ left["tray"] = IF p = "tray" THEN Tail(plan["tray"]) ELSE plan["tray"]
    BY <1>0, <1>2
  <2>2. <<>> \in Seq(Cmds)
    BY EmptySeq
  <2> HIDE DEF left
  <2>3. CASE job'["tray"].running # "yes"
    <3>1. plan' = [left EXCEPT !["tray"] = <<>>]
      BY <1>1, <2>3
    <3> QED
      BY <2>1, <2>2, <2>3, <3>1
  <2>4. CASE job'["tray"].running = "yes"
    <3>1. plan' = left
      BY <1>1, <2>4
    <3> QED
      BY <2>1, <2>4, <3>1
  <2> QED
    BY <2>3, <2>4
<1>7. PlansOK'
  <2>1. Cmds' = Cmds /\ Stops' = Stops
    BY <1>1 DEF Cmds, Stops
  <2>2. doing' = "nothing" => p = "tray"
    BY <1>0, <1>1 DEF PlansOK
  <2>3. ASSUME doing' = "uninstall" PROVE plan'["person"] \in Seq(Stops)
    <3>1. plan["person"] \in Seq(Stops)
      BY <1>0, <1>1, <2>3 DEF PlansOK
    <3>2. CASE p = "person"
      BY <1>1, <1>6, <3>1, <3>2, HeadTailProperties
    <3>3. CASE p = "tray"
      BY <1>6, <3>1, <3>3
    <3> QED
      BY <3>2, <3>3
  <2> QED
    BY <1>0, <1>1, <1>6, <2>1, <2>2, <2>3 DEF PlansOK
<1>8. ASSUME quit \in {"asked", "done"}, p = "person"
      PROVE  /\ job["agent"].running = "no" => job'["agent"].running = "no"
             /\ ~job["agent"].enabled => ~job'["agent"].enabled
  <2>1. doing = "uninstall"
    BY <1>0, <1>1, <1>8 DEF QuitInv, PlansOK
  <2>2. c \in Stops
    BY <1>0, <1>1, <1>8, <2>1, HeadTailProperties DEF PlansOK, c
  <2>3. c.do \in {"unload", "end", "delete"}
    BY <2>2 DEF Stops
  <2>4. CASE c.job = "agent"
    BY <1>3, <1>4, <2>3, <2>4
  <2>5. CASE c.job # "agent"
    BY <1>4, <2>5 DEF Jobs
  <2> QED
    BY <2>4, <2>5
<1>9. ASSUME quit = "asked", p = "tray"
      PROVE  IF job'["tray"].running = "yes" THEN QuitOK' ELSE AgentOff'
  <2>1. goos' = goos /\ job["tray"].running = "yes"
    BY <1>0, <1>1, <1>9
  <2>2. CASE goos = "darwin" /\ plan["tray"] = <<May("unload", "agent"), May("unload", "tray")>>
    <3>1. c.do = "unload" /\ c.job = "agent"
      BY <1>9, <2>2 DEF c, May
    <3>2. AgentOff' /\ job'["tray"].running = "yes"
      BY <1>3, <1>4, <2>1, <3>1 DEF AgentOff, Jobs
    <3>3. plan'["tray"] = <<May("unload", "tray")>>
      BY <1>6, <1>9, <2>2, <3>2
    <3> QED
      BY <2>1, <2>2, <3>2, <3>3 DEF QuitOK
  <2>3. CASE /\ goos \in {"darwin", "windows"} /\ AgentOff
             /\ plan["tray"] \in {<<May("unload", "tray")>>, <<May("disable", "tray")>>, <<>>}
    <3>1. plan["tray"] # <<>>
      BY <1>1, <1>9
    <3>2. c.job = "tray" /\ Tail(plan["tray"]) = <<>>
      <4>1. CASE plan["tray"] = <<May("unload", "tray")>>
        BY <1>9, <4>1 DEF c, May
      <4>2. CASE plan["tray"] = <<May("disable", "tray")>>
        BY <1>9, <4>2 DEF c, May
      <4> QED
        BY <2>3, <3>1, <4>1, <4>2
    <3>3. AgentOff'
      BY <1>4, <2>3, <3>2 DEF AgentOff, Jobs
    <3>4. plan'["tray"] = <<>>
      BY <1>6, <1>9, <3>2
    <3> QED
      BY <2>1, <2>3, <3>3, <3>4 DEF QuitOK
  <2>4. CASE goos = "windows"
             /\ plan["tray"] = <<May("end", "agent"), May("disable", "agent"), May("disable", "tray")>>
    <3>1. c.do = "end" /\ c.job = "agent"
      BY <1>9, <2>4 DEF c, May
    <3>2. job'["agent"].running = "no" /\ job'["tray"].running = "yes"
      BY <1>3, <1>4, <2>1, <3>1 DEF Jobs
    <3>3. plan'["tray"] = <<May("disable", "agent"), May("disable", "tray")>>
      BY <1>6, <1>9, <2>4, <3>2
    <3> QED
      BY <2>1, <2>4, <3>2, <3>3 DEF QuitOK
  <2>5. CASE goos = "windows"
             /\ plan["tray"] = <<May("disable", "agent"), May("disable", "tray")>>
             /\ job["agent"].running = "no"
    <3>1. c.do = "disable" /\ c.job = "agent"
      BY <1>9, <2>5 DEF c, May
    <3>2. AgentOff' /\ job'["tray"].running = "yes"
      BY <1>3, <1>4, <2>1, <2>5, <3>1 DEF AgentOff, Jobs
    <3>3. plan'["tray"] = <<May("disable", "tray")>>
      BY <1>6, <1>9, <2>5, <3>2
    <3> QED
      BY <2>1, <2>5, <3>2, <3>3 DEF QuitOK
  <2>6. QuitOK
    BY <1>0, <1>9 DEF QuitInv
  <2> QED
    BY <2>2, <2>3, <2>4, <2>5, <2>6 DEF QuitOK
<1>10. QuitInv'
  <2>1. quit' \in {"asked", "done"} => doing' \in {"nothing", "uninstall"}
    BY <1>0, <1>1 DEF QuitInv
  <2>2. ASSUME quit' = "done" PROVE AgentOff' /\ plan'["tray"] = <<>>
    <3>1. CASE quit = "done"
      <4>1. plan["tray"] = <<>> /\ AgentOff
        BY <1>0, <3>1 DEF QuitInv
      <4>2. p = "person"
        BY <1>1, <4>1
      <4> QED
        BY <1>6, <1>8, <3>1, <4>1, <4>2 DEF AgentOff
    <3>2. CASE quit # "done"
      <4>1. quit = "asked" /\ p = "tray" /\ job'["tray"].running # "yes"
        BY <1>1, <2>2, <3>2
      <4> QED
        BY <1>6, <1>9, <4>1
    <3> QED
      BY <3>1, <3>2
  <2>3. ASSUME quit' = "asked" PROVE QuitOK'
    <3>1. quit = "asked" /\ job'["tray"].running = "yes" /\ goos' = goos
      BY <1>1, <2>3
    <3>2. CASE p = "tray"
      BY <1>9, <3>1, <3>2
    <3>3. CASE p = "person"
      <4>1. plan'["tray"] = plan["tray"] /\ QuitOK
        BY <1>0, <1>6, <3>1, <3>3 DEF QuitInv
      <4> QED
        BY <1>8, <3>1, <3>3, <4>1 DEF QuitOK, AgentOff
    <3> QED
      BY <3>2, <3>3
  <2> QED
    BY <2>1, <2>2, <2>3 DEF QuitInv
<1>11. plan'["tray"] # <<>> => job'["tray"].running = "yes"
  BY <1>6
<1>12. /\ UNCHANGED <<goos, other>> /\ files' \in BOOLEAN /\ plans' \in 0..MaxPlans
       /\ doing' \in {"nothing", "install", "uninstall", "open"}
       /\ quit' \in {"no", "asked", "done"}
  BY <1>0, <1>1 DEF ServiceTypeOK
<1> QED
  BY <1>4, <1>5, <1>7, <1>10, <1>11, <1>12, TypedAfter

(* runPlan: a command fails.  One that the scheduler refuses had nothing   *)
(* to stop, and Quit goes on.                                              *)
LEMMA FailKeeps ==
  ASSUME ServiceInv, NEW p \in {"person", "tray"}, NEW r \in BOOLEAN, runPlanFails(p, r)
  PROVE  ServiceInv'
<1> DEFINE c == Head(plan[p])
           rest == IF c.optional THEN Tail(plan[p]) ELSE <<>>
<1>0. /\ ServiceTypeOK /\ JobsOK /\ PlansOK /\ QuitInv
      /\ plan \in [{"person", "tray"} -> Seq(Cmds)] /\ plan[p] \in Seq(Cmds)
      /\ plan["tray"] # <<>> => job["tray"].running = "yes"
  BY DEF ServiceInv, PlansOK, ServiceTypeOK
<1>1. /\ plan[p] # <<>> /\ r = Refused(c)
      /\ plan' = [plan EXCEPT ![p] = rest]
      /\ quit' = IF p = "tray" /\ ~r THEN "no" ELSE quit
      /\ UNCHANGED <<goos, other, files, job, doing, plans>>
  BY DEF runPlanFails
<1>2. Tail(plan[p]) \in Seq(Cmds) /\ rest \in Seq(Cmds)
  BY <1>0, <1>1, HeadTailProperties, EmptySeq
<1> HIDE DEF rest
<1>3. /\ plan' \in [{"person", "tray"} -> Seq(Cmds)] /\ plan'[p] = rest
      /\ \A q \in {"person", "tray"} : q # p => plan'[q] = plan[q]
  BY <1>0, <1>1, <1>2
<1>4. PlansOK'
  <2>1. Cmds' = Cmds /\ Stops' = Stops
    BY <1>1 DEF Cmds, Stops
  <2>2. doing' = "nothing" => p = "tray"
    BY <1>0, <1>1 DEF PlansOK
  <2>3. ASSUME doing' = "uninstall" PROVE plan'["person"] \in Seq(Stops)
    <3>1. plan["person"] \in Seq(Stops)
      BY <1>0, <1>1, <2>3 DEF PlansOK
    <3>2. CASE p = "person"
      <4>1. Tail(plan["person"]) \in Seq(Stops) /\ <<>> \in Seq(Stops)
        BY <1>1, <3>1, <3>2, HeadTailProperties, EmptySeq
      <4> QED
        BY <1>3, <3>2, <4>1 DEF rest
    <3>3. CASE p = "tray"
      BY <1>3, <3>1, <3>3
    <3> QED
      BY <3>2, <3>3
  <2> QED
    BY <1>0, <1>1, <1>3, <2>1, <2>2, <2>3 DEF PlansOK
<1>5. plan'["tray"] # <<>> => job'["tray"].running = "yes"
  BY <1>0, <1>1, <1>3
<1>6. QuitInv'
  <2>1. quit' \in {"asked", "done"} => doing' \in {"nothing", "uninstall"}
    BY <1>0, <1>1 DEF QuitInv
  <2>2. ASSUME quit' = "done" PROVE AgentOff' /\ plan'["tray"] = <<>>
    <3>1. quit = "done" /\ AgentOff /\ plan["tray"] = <<>>
      BY <1>0, <1>1, <2>2 DEF QuitInv
    <3>2. p = "person"
      BY <1>1, <3>1
    <3> QED
      BY <1>1, <1>3, <3>1, <3>2 DEF AgentOff
  <2>3. ASSUME quit' = "asked" PROVE QuitOK'
    <3>1. quit = "asked" /\ QuitOK /\ (p = "tray" => Refused(c))
      BY <1>0, <1>1, <2>3 DEF QuitInv
    <3>2. CASE p = "person"
      BY <1>1, <1>3, <3>1, <3>2 DEF QuitOK, AgentOff
    <3>3. CASE p = "tray"
      <4>0. goos' = goos /\ job' = job /\ job["tray"].running = "yes" /\ job["tray"].known
        BY <1>0, <1>1, <3>3 DEF ServiceTypeOK, Jobs
      <4>1. ASSUME NEW do \in {"unload", "end", "disable"}, NEW j \in Jobs, c = May(do, j)
            PROVE  do # "unload" /\ j = "agent" /\ AgentOff /\ plan'["tray"] = Tail(plan["tray"])
        <5>1. do # "unload" /\ ~job[j].known
          BY <3>1, <3>3, <4>1 DEF Refused, May
        <5>2. j = "agent"
          BY <4>0, <5>1 DEF Jobs
        <5>3. c.optional
          BY <4>1 DEF May
        <5> QED
          BY <1>0, <1>3, <3>3, <5>1, <5>2, <5>3 DEF rest, JobsOK, AgentOff
      <4>2. CASE goos = "darwin" /\ plan["tray"] = <<May("unload", "agent"), May("unload", "tray")>>
        BY <3>3, <4>1, <4>2 DEF Jobs
      <4>3. CASE AgentOff
                 /\ plan["tray"] \in {<<May("unload", "tray")>>, <<May("disable", "tray")>>, <<>>}
        BY <1>1, <3>3, <4>1, <4>3 DEF Jobs
      <4>4. CASE goos = "windows"
                 /\ plan["tray"] = <<May("end", "agent"), May("disable", "agent"), May("disable", "tray")>>
        <5>1. AgentOff /\ plan'["tray"] = Tail(plan["tray"])
          BY <3>3, <4>1, <4>4 DEF Jobs
        <5>2. plan'["tray"] = <<May("disable", "agent"), May("disable", "tray")>>
          BY <4>4, <5>1
        <5> QED
          BY <4>0, <4>4, <5>1, <5>2 DEF QuitOK, AgentOff
      <4>5. CASE goos = "windows"
                 /\ plan["tray"] = <<May("disable", "agent"), May("disable", "tray")>>
        <5>1. AgentOff /\ plan'["tray"] = Tail(plan["tray"])
          BY <3>3, <4>1, <4>5 DEF Jobs
        <5>2. plan'["tray"] = <<May("disable", "tray")>>
          BY <4>5, <5>1
        <5> QED
          BY <4>0, <4>5, <5>1, <5>2 DEF QuitOK, AgentOff
      <4> QED
        BY <3>1, <4>2, <4>3, <4>4, <4>5 DEF QuitOK
    <3> QED
      BY <3>2, <3>3
  <2> QED
    BY <2>1, <2>2, <2>3 DEF QuitInv
<1>7. /\ UNCHANGED <<goos, other>> /\ files' \in BOOLEAN /\ plans' \in 0..MaxPlans
      /\ doing' \in {"nothing", "install", "uninstall", "open"}
      /\ quit' \in {"no", "asked", "done"}
  BY <1>0, <1>1 DEF ServiceTypeOK
<1>8. job' \in [Jobs -> Job] /\ JobsOK'
  BY <1>0, <1>1 DEF ServiceTypeOK, JobsOK
<1> QED
  BY <1>4, <1>5, <1>6, <1>7, <1>8, TypedAfter

(* A person starts a plan: one that may switch a job on ends the promise   *)
(* of Quit, and an uninstall does not.                                     *)
LEMMA StartKeeps ==
  ASSUME ServiceInv, installService \/ uninstallService \/ openCommand
  PROVE  ServiceInv'
<1>0. /\ ServiceTypeOK /\ JobsOK /\ PlansOK /\ QuitInv
      /\ plan \in [{"person", "tray"} -> Seq(Cmds)]
      /\ plan["tray"] # <<>> => job["tray"].running = "yes"
  BY DEF ServiceInv, PlansOK, ServiceTypeOK
<1>1. PICK what \in {"install", "uninstall", "open"}, cmds \in Seq(Cmds) :
        /\ StartPlan(what, cmds)
        /\ what = "uninstall" => cmds \in Seq(Stops) /\ UNCHANGED <<files, quit>>
        /\ what # "uninstall" => quit' = "no" /\ files' = TRUE
  <2>1. /\ servicePlanFor.install \in Seq(Cmds) /\ servicePlanFor.reopen \in Seq(Cmds)
        /\ servicePlanFor.uninstall \in Seq(Stops)
    BY <1>0, PlanCmds DEF ServiceTypeOK
  <2>2. Seq(Stops) \subseteq Seq(Cmds)
    BY DEF Stops
  <2>3. CASE installService
    BY <2>1, <2>3 DEF installService
  <2>4. CASE uninstallService
    BY <2>1, <2>2, <2>4 DEF uninstallService
  <2>5. CASE openCommand
    <3> DEFINE cs == IF files THEN servicePlanFor.reopen ELSE servicePlanFor.install
    <3>1. cs \in Seq(Cmds) /\ StartPlan("open", cs) /\ quit' = "no" /\ files' = TRUE
      BY <2>1, <2>5 DEF openCommand
    <3> HIDE DEF cs
    <3> QED
      BY <3>1
  <2> QED
    BY <2>3, <2>4, <2>5
<1>2. /\ plans' \in 0..MaxPlans /\ doing = "nothing" /\ doing' = what
      /\ plan' = [plan EXCEPT !["person"] = cmds]
      /\ UNCHANGED <<goos, other, job>>
  BY <1>0, <1>1, PlanAssumption DEF StartPlan, ServiceTypeOK
<1>3. /\ plan' \in [{"person", "tray"} -> Seq(Cmds)]
      /\ plan'["person"] = cmds /\ plan'["tray"] = plan["tray"]
  BY <1>0, <1>2
<1>4. PlansOK'
  <2>1. Cmds' = Cmds /\ Stops' = Stops
    BY <1>2 DEF Cmds, Stops
  <2> QED
    BY <1>1, <1>2, <1>3, <2>1 DEF PlansOK
<1>5. QuitInv'
  <2>1. CASE what = "uninstall"
    BY <1>0, <1>1, <1>2, <1>3, <2>1 DEF QuitInv, QuitOK, AgentOff
  <2>2. CASE what # "uninstall"
    BY <1>1, <2>2 DEF QuitInv
  <2> QED
    BY <2>1, <2>2
<1>6. job' \in [Jobs -> Job] /\ JobsOK' /\ (plan'["tray"] # <<>> => job'["tray"].running = "yes")
  BY <1>0, <1>2, <1>3 DEF ServiceTypeOK, JobsOK
<1>7. files' \in BOOLEAN /\ quit' \in {"no", "asked", "done"}
  BY <1>0, <1>1 DEF ServiceTypeOK
<1> QED
  BY <1>1, <1>2, <1>4, <1>5, <1>6, <1>7, TypedAfter

(* Quit is asked for in the menu: never on Linux, where no tray runs. *)
LEMMA QuitKeeps == ServiceInv /\ quitFromMenu => ServiceInv'
<1> SUFFICES ASSUME ServiceInv, quitFromMenu PROVE ServiceInv'
  OBVIOUS
<1>0. /\ ServiceTypeOK /\ JobsOK /\ PlansOK /\ QuitInv
      /\ plan \in [{"person", "tray"} -> Seq(Cmds)]
  BY DEF ServiceInv, PlansOK
<1>1. /\ plans' \in 0..MaxPlans /\ job["tray"].running = "yes"
      /\ plan' = [plan EXCEPT !["tray"] = servicePlanFor.quit]
      /\ quit' = IF doing \in {"install", "open"} THEN "no" ELSE "asked"
      /\ UNCHANGED <<goos, other, files, job, doing>>
  BY <1>0, PlanAssumption DEF quitFromMenu, ServiceTypeOK
<1>2. servicePlanFor.quit \in Seq(Cmds)
  BY <1>0, PlanCmds DEF ServiceTypeOK
<1>3. /\ plan' \in [{"person", "tray"} -> Seq(Cmds)]
      /\ plan'["person"] = plan["person"] /\ plan'["tray"] = servicePlanFor.quit
  BY <1>0, <1>1, <1>2
<1>4. PlansOK'
  <2>1. Cmds' = Cmds /\ Stops' = Stops
    BY <1>1 DEF Cmds, Stops
  <2> QED
    BY <1>0, <1>1, <1>3, <2>1 DEF PlansOK
<1>5. QuitOK'
  <2>1. goos \in {"darwin", "windows"} /\ goos' = goos
    BY <1>0, <1>1 DEF ServiceTypeOK, JobsOK, Jobs
  <2>2. CASE goos = "darwin"
    BY <1>3, <2>1, <2>2 DEF QuitOK, servicePlanFor, darwinPlan
  <2>3. CASE goos = "windows"
    BY <1>3, <2>1, <2>3 DEF QuitOK, servicePlanFor, windowsPlan
  <2> QED
    BY <2>1, <2>2, <2>3
<1>6. QuitInv' /\ quit' \in {"no", "asked", "done"}
  BY <1>0, <1>1, <1>5 DEF QuitInv, ServiceTypeOK
<1>7. /\ job' \in [Jobs -> Job] /\ JobsOK' /\ files' \in BOOLEAN /\ job'["tray"].running = "yes"
      /\ doing' \in {"nothing", "install", "uninstall", "open"}
  BY <1>0, <1>1 DEF ServiceTypeOK, JobsOK
<1> QED
  BY <1>1, <1>4, <1>6, <1>7, TypedAfter

(* The steps that run no command: the tray exits, a plan is over, the      *)
(* agent crashes and is restarted, the person logs on again.               *)
LEMMA OtherKeeps ==
  ASSUME ServiceInv, planDone \/ quitExits \/ agentCrashes \/ KeepAlive \/ RunAtLogon
  PROVE  ServiceInv'
<1>0. /\ ServiceTypeOK /\ JobsOK /\ PlansOK /\ QuitInv
      /\ plan \in [{"person", "tray"} -> Seq(Cmds)] /\ job \in [Jobs -> Job]
      /\ plan["tray"] # <<>> => job["tray"].running = "yes"
  BY DEF ServiceInv, PlansOK, ServiceTypeOK
<1>1. CASE planDone
  <2>1. /\ doing' = "nothing" /\ plan["person"] = <<>> /\ files' \in BOOLEAN
        /\ UNCHANGED <<goos, other, job, plan, quit, plans>>
    BY <1>0, <1>1 DEF planDone, ServiceTypeOK
  <2>2. PlansOK' /\ JobsOK' /\ QuitInv'
    BY <1>0, <2>1 DEF PlansOK, JobsOK, QuitInv, QuitOK, AgentOff, Cmds, Stops
  <2> QED
    BY <1>0, <2>1, <2>2, TypedAfter DEF ServiceTypeOK
<1>2. ASSUME NEW j \in Jobs, NEW run \in {"no", "yes", "crashed"},
             job' = [job EXCEPT ![j].running = run], run # "no" => job[j].known,
             plan' = plan, doing' = doing, UNCHANGED <<goos, other, files, plans>>,
             plan["tray"] # <<>> => j # "tray",
             quit' \in {"no", "asked", "done"}, QuitInv'
      PROVE  ServiceInv'
  <2>1. /\ job' \in [Jobs -> Job] /\ job'[j].running = run
        /\ job'[j].known = job[j].known /\ job'[j].enabled = job[j].enabled
        /\ \A i \in Jobs : i # j => job'[i] = job[i]
    BY <1>0, <1>2 DEF Job
  <2>2. JobsOK'
    BY <1>0, <1>2, <2>1 DEF JobsOK, Jobs
  <2>3. PlansOK'
    BY <1>0, <1>2 DEF PlansOK, Cmds, Stops
  <2>4. plan'["tray"] # <<>> => job'["tray"].running = "yes"
    BY <1>0, <1>2, <2>1 DEF Jobs
  <2> QED
    BY <1>0, <1>2, <2>1, <2>2, <2>3, <2>4, TypedAfter DEF ServiceTypeOK
<1>3. CASE quitExits
  <2>1. /\ quit = "asked" /\ quit' = "done" /\ plan["tray"] = <<>>
        /\ job' = [job EXCEPT !["tray"].running = "no"]
        /\ UNCHANGED <<goos, other, files, plan, doing, plans>>
    BY <1>3 DEF quitExits
  <2>2. AgentOff
    BY <1>0, <2>1 DEF QuitInv, QuitOK
  <2>3. job'["agent"] = job["agent"]
    BY <1>0, <2>1 DEF Jobs
  <2>4. QuitInv'
    BY <1>0, <2>1, <2>2, <2>3 DEF QuitInv, AgentOff
  <2> QED
    BY <1>2, <2>1, <2>4 DEF Jobs
<1>4. CASE agentCrashes \/ KeepAlive
  <2>1. PICK run \in {"yes", "crashed"} :
          /\ job' = [job EXCEPT !["agent"].running = run]
          /\ job["agent"].running # "no" /\ job["agent"].known
          /\ UNCHANGED <<goos, other, files, plan, doing, quit, plans>>
          /\ job["agent"].running = "crashed" => job["agent"].enabled
    BY <1>0, <1>4 DEF agentCrashes, KeepAlive, JobsOK, Jobs
  <2>2. job'["tray"] = job["tray"] /\ job'["agent"].enabled = job["agent"].enabled
    BY <1>0, <2>1 DEF Jobs, Job
  <2>3. ~AgentOff
    BY <2>1 DEF AgentOff
  <2>4. QuitInv'
    <3>1. quit # "done"
      BY <1>0, <2>3 DEF QuitInv
    <3>2. quit = "asked" => QuitOK'
      BY <1>0, <2>1, <2>3 DEF QuitInv, QuitOK
    <3> QED
      BY <1>0, <2>1, <3>1, <3>2 DEF QuitInv
  <2> QED
    BY <1>0, <1>2, <2>1, <2>4 DEF Jobs, ServiceTypeOK
<1>5. CASE RunAtLogon
  <2>1. /\ plan' = [p \in {"person", "tray"} |-> <<>>] /\ doing' = "nothing"
        /\ quit' = IF quit = "asked" THEN "no" ELSE quit
        /\ UNCHANGED <<goos, other, files, plans>>
    BY <1>5 DEF RunAtLogon
  <2>2. \A j \in Jobs :
          /\ job'[j] \in Job /\ job'[j].known = job[j].known /\ job'[j].enabled = job[j].enabled
          /\ ~(job[j].known /\ job[j].enabled) => job'[j].running = "no"
    BY <1>0, <1>5 DEF RunAtLogon, Job
  <2>3. job' \in [Jobs -> Job]
    BY <1>5, <2>2 DEF RunAtLogon
  <2>4. JobsOK'
    BY <1>0, <2>1, <2>2 DEF JobsOK, Jobs
  <2>5. PlansOK'
    <3>1. <<>> \in Seq(Cmds) /\ Cmds' = Cmds
      BY <2>1, EmptySeq DEF Cmds
    <3> QED
      BY <2>1, <3>1 DEF PlansOK
  <2>6. QuitInv'
    <3>1. quit' = "done" => AgentOff
      BY <1>0, <2>1 DEF QuitInv
    <3> QED
      BY <1>0, <2>1, <2>2, <3>1 DEF QuitInv, AgentOff, ServiceTypeOK, Jobs
  <2> QED
    BY <1>0, <2>1, <2>3, <2>4, <2>5, <2>6, TypedAfter DEF ServiceTypeOK
<1> QED
  BY <1>1, <1>3, <1>4, <1>5

LEMMA ServiceNextInv == ServiceInv /\ [ServiceNext]_serviceVars => ServiceInv'
<1> SUFFICES ASSUME ServiceInv, [ServiceNext]_serviceVars PROVE ServiceInv'
  OBVIOUS
<1>1. CASE UNCHANGED serviceVars
  BY <1>1 DEF serviceVars, ServiceInv, ServiceTypeOK, JobsOK, PlansOK, QuitInv, QuitOK, AgentOff,
              Cmds, Stops
<1>2. CASE ServiceNext
  BY <1>2, RunKeeps, FailKeeps, StartKeeps, QuitKeeps, OtherKeeps DEF ServiceNext
<1> QED
  BY <1>1, <1>2

LEMMA ServiceSpecInv == ServiceSpec => []ServiceInv
  BY ServiceInitInv, ServiceNextInv, PTL DEF ServiceSpec

(* The state of the jobs and of the plans keeps its type: the tray runs    *)
(* Quit only while it lives, and no job runs that the scheduler does not   *)
(* know (service.go).                                                      *)
THEOREM ServiceTyped == ServiceSpec => []ServiceTypeOK
  BY ServiceSpecInv, PTL DEF ServiceInv

(* Quit stays quit, for any number of plans, failures, crashes and logons, *)
(* and with an uninstall running beside it (service.go:49-52,              *)
(* menubar_items.go:25-36).                                                *)
THEOREM QuitStays == ServiceSpec => []QuitStaysQuit
<1>1. ServiceInv => QuitStaysQuit
  BY DEF ServiceInv, QuitInv, AgentOff, QuitStaysQuit
<1> QED
  BY <1>1, ServiceSpecInv, PTL

-----------------------------------------------------------------------------
(* The parts side by side; what is said of Accounts is in Accounts_proofs *)

(* A step of one part leaves the others alone, so it is a step of each. *)
LEMMA PartsMove ==
  [PartsNext]_partsVars =>
    /\ [RoutingNext]_routingVars /\ [SyncNext]_syncVars /\ [NonceNext]_nonceVars
    /\ [LimiterNext]_limiterVars /\ [MigrationNext]_migrationVars
    /\ [RegistryNext]_registryVars /\ [KeyNext]_keyVars
    /\ [ServiceNext]_serviceVars /\ [ZipNext]_zipVars
<1> SUFFICES ASSUME [PartsNext]_partsVars
             PROVE  /\ [RoutingNext]_routingVars /\ [SyncNext]_syncVars /\ [NonceNext]_nonceVars
                    /\ [LimiterNext]_limiterVars /\ [MigrationNext]_migrationVars
                    /\ [RegistryNext]_registryVars /\ [KeyNext]_keyVars
                    /\ [ServiceNext]_serviceVars /\ [ZipNext]_zipVars
  OBVIOUS
<1>1. CASE UNCHANGED partsVars
  BY <1>1 DEF partsVars
<1>2. CASE PartsNext
  BY <1>2 DEF PartsNext, In, Others
<1> QED
  BY <1>1, <1>2

(* Every part behaves as it does alone. *)
LEMMA PartsAlone ==
  PartsSpec => /\ RoutingSpec /\ SyncSpec /\ NonceSpec /\ LimiterSpec /\ MigrationSpec
               /\ RegistrySpec /\ KeySpec /\ ServiceSpec /\ ZipSpec
<1>1. PartsInit => /\ RoutingInit /\ SyncInit /\ NonceInit /\ LimiterInit /\ MigrationInit
                   /\ RegistryInit /\ KeyInit /\ ServiceInit /\ ZipInit
  BY DEF PartsInit
<1> QED
  BY <1>1, PartsMove, PTL DEF PartsSpec, RoutingSpec, SyncSpec, NonceSpec, LimiterSpec,
     MigrationSpec, RegistrySpec, KeySpec, ServiceSpec, ZipSpec

(* Every variable of these parts keeps its type, from the theorems         *)
(* about each (routing.go, apps.go, agent.go, ratelimit.go, migrate.go,    *)
(* enrol.go, identity.go, service.go, compress.go).                        *)
THEOREM PartsTyped == PartsSpec => []PartsTypeOK
<1>1. /\ RoutingTypeOK /\ SyncTypeOK /\ NonceTypeOK /\ LimiterTypeOK /\ MigrationTypeOK
      /\ RegistryTypeOK /\ KeyTypeOK /\ ServiceTypeOK /\ ZipTypeOK
      => PartsTypeOK
  BY DEF PartsTypeOK
<1> QED
  BY <1>1, PartsAlone, RoutingTyped, SyncTyped, NoncesTyped, LimiterTyped, MigrationsTyped,
     RegistryTyped, KeyTyped, ServiceTyped, ZipTyped, PTL
=============================================================================
