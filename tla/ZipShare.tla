----------------------------- MODULE ZipShare ------------------------------
(***************************************************************************)
(* Compressing entries of a shared folder (device/agent/compress.go): the  *)
(* zip is written under a hidden name of its own and moved to the name the *)
(* person chose once it is whole.  Several requests may want one name, and *)
(* dufs creates and deletes files there meanwhile.                         *)
(***************************************************************************)
EXTENDS Naturals

CONSTANTS
  Zips,      \* compress requests, all for one name
  Upload,    \* a file somebody else puts under that name
  NoFile,
  MaxFiles   \* bound: uploads and deletions

ASSUME ZipAssumption ==
  Upload \notin Zips /\ NoFile \notin Zips \cup {Upload} /\ MaxFiles \in Nat

VARIABLES
  hardLinks,  \* does the disk have hard hardLinks
  named,  \* the file under the name: its maker and whether it is whole
  zip,    \* each request: where it is, and its temporary file
  edits

zipVars == <<hardLinks, named, zip, edits>>

Files == [by : Zips \cup {Upload}, whole : BOOLEAN]
Temps == {"none", "part", "whole"}

ZipTypeOK ==
  /\ hardLinks \in BOOLEAN
  /\ named \in Files \cup {NoFile}
  /\ zip \in [Zips -> [at : {"new", "writing", "place", "rename", "remove", "done"}, tmp : Temps]]
  /\ \A z \in Zips : zip[z].at \in {"place", "rename"} => zip[z].tmp = "whole"
  /\ edits \in 0..MaxFiles

ZipInit ==
  /\ hardLinks \in BOOLEAN
  /\ named = NoFile
  /\ zip = [z \in Zips |-> [at |-> "new", tmp |-> "none"]]
  /\ edits = 0

-----------------------------------------------------------------------------
(* dufs: an upload or a deletion under the name.                           *)
fileChanges(f) ==
  /\ edits < MaxFiles /\ edits' = edits + 1
  /\ f # named /\ named' = f
  /\ UNCHANGED <<hardLinks, zip>>

SetZip(z, at, tmp) == zip' = [zip EXCEPT ![z] = [at |-> at, tmp |-> tmp]] /\ UNCHANGED <<hardLinks, edits>>

(* The checks up to Lstat of the name: refused, or the zip is begun.       *)
compress(z) ==
  /\ zip[z].at = "new"
  /\ IF named # NoFile THEN SetZip(z, "done", "none") ELSE SetZip(z, "writing", "part")
  /\ UNCHANGED named

compressRefused(z) ==
  /\ zip[z].at = "new"
  /\ SetZip(z, "done", "none")
  /\ UNCHANGED named

writeZip(z) ==
  /\ zip[z].at = "writing"
  /\ SetZip(z, "place", "whole")
  /\ UNCHANGED named

(* An entry that is gone, points out of the folder, or a full disk.        *)
writeZipFails(z) ==
  /\ zip[z].at = "writing"
  /\ SetZip(z, "remove", "part")
  /\ UNCHANGED named

Placed(z) == [by |-> z, whole |-> zip[z].tmp = "whole"]

placeRenames(z) ==
  /\ zip[z].at = "place"
  /\ SetZip(z, "done", "none")
  /\ named' = Placed(z)

(* place: a hard link fails on a name that is taken; a disk without links  *)
(* gets a last look and, in a step of its own, a rename.                   *)
place(z) ==
  /\ zip[z].at = "place"
  /\ IF hardLinks
       THEN /\ SetZip(z, "remove", zip[z].tmp)
            /\ named' = IF named = NoFile THEN Placed(z) ELSE named
       ELSE /\ SetZip(z, IF named = NoFile THEN "rename" ELSE "remove", zip[z].tmp)
            /\ UNCHANGED named

renameZip(z) ==
  /\ zip[z].at = "rename"
  /\ SetZip(z, "done", "none")
  /\ named' = Placed(z)

(* d.Remove(tmp), whatever came before.                                    *)
removeTemp(z) ==
  /\ zip[z].at = "remove"
  /\ SetZip(z, "done", "none")
  /\ UNCHANGED named

ZipNext ==
  \/ \E f \in {NoFile, [by |-> Upload, whole |-> TRUE]} : fileChanges(f)
  \/ \E z \in Zips : \/ compress(z) \/ compressRefused(z) \/ writeZip(z) \/ writeZipFails(z)
                     \/ place(z) \/ renameZip(z) \/ removeTemp(z)

ZipSpec == ZipInit /\ [][ZipNext]_zipVars

-----------------------------------------------------------------------------
(* Properties                                                              *)

(* What a request puts under the name is whole, and where the disk has     *)
(* hard links a request never replaces a file that appeared there after it *)
(* looked: only dufs does (compress.go:78-88, 197-213).                    *)
ZipPlaced ==
  [][/\ named' # NoFile => named'.whole
     /\ hardLinks /\ named # NoFile /\ named' # named => edits' # edits]_zipVars
=============================================================================
