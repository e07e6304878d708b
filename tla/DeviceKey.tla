----------------------------- MODULE DeviceKey -----------------------------
(***************************************************************************)
(* The device key (device/agent/identity.go, seedstore.go).  Each command  *)
(* of the agent that needs the key is a process of its own: it picks the   *)
(* store, waits while the store is locked, and makes a key only where the  *)
(* store answered that it is empty.  Only `agent run` holds the instance   *)
(* lock (main.go, instance.go), so several may do so at once.  A key is    *)
(* named for the process and the try that made it.                         *)
(***************************************************************************)
EXTENDS Naturals

CONSTANTS
  Commands,  \* processes that need the key
  Runs,      \* the ones that are `agent run`
  NoKey,     \* nothing stored
  Cut,       \* a seed file that is not 32 bytes long
  MaxTries   \* bound: times the commands start

Keys == Commands \X (1..MaxTries)

ASSUME KeyAssumption ==
  /\ Runs \subseteq Commands /\ MaxTries \in Nat
  /\ NoKey # Cut /\ {NoKey, Cut} \cap Keys = {}

VARIABLES
  keyring,  \* is there an OS keystore on this machine (hasKeystore)
  stored,   \* what each store holds
  locked,   \* the store answers with an error
  command,  \* each process: where it is, its store, the key it made or uses,
            \* and what the store held when it began
  tries

keyVars == <<keyring, stored, locked, command, tries>>

Stores == {"keyring", "file"}

NoCommand == [at |-> "off", store |-> "file", key |-> NoKey, began |-> NoKey]

KeyTypeOK ==
  /\ keyring \in BOOLEAN /\ locked \in BOOLEAN
  /\ stored \in [Stores -> Keys \cup {NoKey, Cut}]
  /\ stored["keyring"] # Cut
  /\ command \in [Commands -> [at : {"off", "load", "wait", "save", "write", "readBack", "ready"},
                               store : Stores, key : Keys \cup {NoKey},
                               began : Keys \cup {NoKey, Cut}]]
  /\ \A c \in Commands : command[c].at = "ready" => command[c].key \in Keys
  /\ tries \in 0..MaxTries

KeyInit ==
  /\ keyring \in BOOLEAN
  /\ stored = [s \in Stores |-> NoKey]
  /\ locked \in BOOLEAN
  /\ command = [c \in Commands |-> NoCommand]
  /\ tries = 0

-----------------------------------------------------------------------------
(* A person logs in, a keyring is unlocked or locked again, a file gets    *)
(* other permissions.                                                      *)
lockChanges ==
  /\ locked' = ~locked
  /\ UNCHANGED <<keyring, stored, command, tries>>

Move(c, new) == command' = [command EXCEPT ![c] = new] /\ UNCHANGED <<keyring, locked, tries>>

(* The OS gives the lock of `agent run` to one process and takes it back   *)
(* when that ends.                                                         *)
lockInstance(c) == c \in Runs => \A d \in Runs \ {c} : command[d].at = "off"

(* openSeedStore: a keyring wherever the machine has one, and it either    *)
(* has one for good or never will.                                         *)
openSeedStore(c) ==
  /\ tries < MaxTries /\ tries' = tries + 1
  /\ command[c].at = "off"
  /\ lockInstance(c)
  /\ LET s == IF keyring THEN "keyring" ELSE "file"
     IN command' = [command EXCEPT ![c] =
                      [at |-> "load", store |-> s, key |-> NoKey, began |-> stored[s]]]
  /\ UNCHANGED <<keyring, stored, locked>>

Exit(c) == Move(c, NoCommand)

loadSeed(c) == stored[command[c].store]

loadLockedAsEmpty(c) ==
  /\ command[c].at = "load" /\ locked
  /\ Move(c, [command[c] EXCEPT !.at = "save", !.key = <<c, tries>>])
  /\ UNCHANGED stored

loadLocked(c) ==
  /\ command[c].at = "load" /\ locked
  /\ Move(c, [command[c] EXCEPT !.at = "wait"])
  /\ UNCHANGED stored

waitForDeviceKey(c) ==
  /\ command[c].at = "wait"
  /\ Move(c, [command[c] EXCEPT !.at = "load"])
  /\ UNCHANGED stored

(* A seed of another length is an error that waiting does not change.      *)
loadFound(c) ==
  /\ command[c].at = "load" /\ ~locked /\ loadSeed(c) # NoKey
  /\ IF loadSeed(c) = Cut
       THEN Exit(c)
       ELSE Move(c, [command[c] EXCEPT !.at = "ready", !.key = loadSeed(c)])
  /\ UNCHANGED stored

(* A missing file is an empty store whatever the mode of its directory;    *)
(* saving then fails.                                                      *)
loadEmpty(c) ==
  /\ command[c].at = "load" /\ loadSeed(c) = NoKey
  /\ locked => command[c].store = "file"
  /\ Move(c, [command[c] EXCEPT !.at = "save", !.key = <<c, tries>>])
  /\ UNCHANGED stored

(* A keyring takes the key in one step; os.WriteFile empties the file      *)
(* first.                                                                  *)
save(c) ==
  /\ command[c].at = "save" /\ ~locked
  /\ IF command[c].store = "keyring"
       THEN /\ stored' = [stored EXCEPT !["keyring"] = command[c].key]
            /\ Move(c, [command[c] EXCEPT !.at = "readBack"])
       ELSE /\ stored' = [stored EXCEPT !["file"] = Cut]
            /\ Move(c, [command[c] EXCEPT !.at = "write"])

writeSeed(c) ==
  /\ command[c].at = "write"
  /\ stored' = [stored EXCEPT !["file"] = command[c].key]
  /\ Move(c, [command[c] EXCEPT !.at = "readBack"])

saveFails(c) ==
  /\ command[c].at \in {"save", "readBack"} /\ locked
  /\ Exit(c)
  /\ UNCHANGED stored

(* Used only when the store gives back what was written.                   *)
readBack(c) ==
  /\ command[c].at = "readBack" /\ ~locked
  /\ IF loadSeed(c) = command[c].key
       THEN Move(c, [command[c] EXCEPT !.at = "ready"])
       ELSE Exit(c)
  /\ UNCHANGED stored

(* The command is done, is stopped or is killed.                           *)
commandEnds(c) ==
  /\ command[c].at # "off"
  /\ Exit(c)
  /\ UNCHANGED stored

loadOrCreateKey(c) ==
  \/ loadLocked(c) \/ loadFound(c) \/ loadEmpty(c)
  \/ save(c) \/ writeSeed(c) \/ saveFails(c) \/ readBack(c)

KeyNext ==
  \/ lockChanges
  \/ \E c \in Commands : \/ openSeedStore(c) \/ waitForDeviceKey(c)
                         \/ loadOrCreateKey(c) \/ commandEnds(c)

KeySpec == KeyInit /\ [][KeyNext]_keyVars

-----------------------------------------------------------------------------
(* Properties                                                              *)

(* The PC keeps its identity: a process that began when the store held a   *)
(* key never replaces it, and only one that began on an empty store writes *)
(* there.  A store that was locked when it was asked is not taken for an   *)
(* empty one (identity.go:3-7, 44-62).                                     *)
KeyKept ==
  [][\A s \in Stores :
       stored'[s] # stored[s]
         => \E c \in Commands : /\ command[c].store = s /\ command[c].began = NoKey
                              /\ command[c].at \in {"save", "write"}
                              /\ command'[c].at # command[c].at]_keyVars
=============================================================================
