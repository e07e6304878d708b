---------------------------- MODULE ReportQueue ----------------------------
(***************************************************************************)
(* The error reports of a PC (device/agent/reports.go): a file that log    *)
(* lines are appended to and that one goroutine sends to the server, a     *)
(* batch at a time, with the lock released while a batch is on its way     *)
(* (receiveReports of hosted/control-plane/reports.go).  A report is its   *)
(* number and the length of its line without the newline.                  *)
(***************************************************************************)
EXTENDS Integers, FiniteSets, Sequences, SequencesExt

CONSTANTS
  Lengths,     \* lengths of a line
  MaxQueue,    \* maxReportQueue
  MaxBatch,    \* maxReportBatch
  MaxBody,     \* what the server reads of a signed body
  MaxReports,  \* bound: reports made
  MaxKills     \* bound: times the agent is killed or cannot rewrite the file

ASSUME ReportAssumption ==
  /\ Lengths \subseteq Nat \ {0}
  /\ {MaxQueue, MaxBatch, MaxBody, MaxReports, MaxKills} \subseteq Nat
  /\ MaxBatch <= MaxBody

VARIABLES
  file,       \* reports.jsonl
  reporting,  \* on an account, with the checkbox on
  flushing,   \* flush: "idle", "remove", "read", "post", "taken", "cut"
  batch,      \* the lines flush works with
  forwarded,     \* reports the server has forwarded
  given,      \* reports given up on purpose, or gone with a rewrite that broke off
  made,
  kills

reportVars == <<file, reporting, flushing, batch, forwarded, given, made, kills>>

Report == [id : 1..MaxReports, len : Lengths]

Ids(lines) == {lines[i].id : i \in 1..Len(lines)}

(* The bytes of some lines, the newlines included: which line, and where.  *)
Bytes(lines) == UNION {{i} \X (0..lines[i].len) : i \in 1..Len(lines)}

Size(lines) == Cardinality(Bytes(lines))

ReportsTypeOK ==
  /\ \A i \in 1..Len(file) : file[i] \in Report
  /\ Size(file) <= MaxQueue
  /\ reporting \in BOOLEAN
  /\ flushing \in {"idle", "remove", "read", "post", "taken", "cut"}
  /\ forwarded \subseteq 1..made /\ given \subseteq 1..made
  /\ made \in 0..MaxReports /\ kills \in 0..MaxKills

ReportsInit ==
  /\ file = <<>> /\ batch = <<>>
  /\ reporting = FALSE
  /\ flushing = "idle"
  /\ forwarded = {} /\ given = {} /\ made = 0 /\ kills = 0

-----------------------------------------------------------------------------
(* Every suffix that is a quarter under the cap, or nothing; trim keeps    *)
(* the longest.                                                            *)
trim(lines) ==
  LET Fits(k) == \/ k = Len(lines)
                 \/ Size(SubSeq(lines, k + 1, Len(lines))) <= (MaxQueue * 3) \div 4
      Drop == CHOOSE k \in 0..Len(lines) : Fits(k) /\ \A j \in 0..(k - 1) : ~Fits(j)
  IN SubSeq(lines, Drop + 1, Len(lines))

AppendUntrimmed(r) == Append(file, r)

AppendTrimmed(r) ==
  LET lines == Append(file, r)
  IN IF Size(lines) > MaxQueue THEN trim(lines) ELSE lines

tooLargeOffByOne(len) == len > MaxBatch

(* A line that cannot fit in one upload is counted and dropped.            *)
tooLarge(len) == len >= MaxBatch

add(len) ==
  /\ made < MaxReports
  /\ reporting
  /\ LET r == [id |-> made + 1, len |-> len]
         lines == IF tooLarge(len) THEN file ELSE AppendTrimmed(r)
     IN /\ file' = lines
        /\ given' = given \cup ((Ids(file) \cup {r.id}) \ Ids(lines))
  /\ made' = made + 1
  /\ UNCHANGED <<reporting, flushing, batch, forwarded, kills>>

(* The file cannot be opened for appending: the report is gone.            *)
addFails ==
  /\ made < MaxReports
  /\ reporting
  /\ made' = made + 1
  /\ given' = given \cup {made + 1}
  /\ UNCHANGED <<file, reporting, flushing, batch, forwarded, kills>>

(* The rewrite of trim breaks off: os.WriteFile has emptied the file, and  *)
(* the write fails, or the agent is killed and starts again.               *)
addTrimBreaks(len) ==
  /\ made < MaxReports /\ kills < MaxKills
  /\ reporting
  /\ ~tooLarge(len)
  /\ Size(Append(file, [id |-> made + 1, len |-> len])) > MaxQueue
  /\ file' = <<>> /\ given' = given \cup Ids(file) \cup {made + 1}
  /\ \/ UNCHANGED <<flushing, batch>>
     \/ flushing' = "idle" /\ batch' = <<>>
  /\ made' = made + 1 /\ kills' = kills + 1
  /\ UNCHANGED <<reporting, forwarded>>

(* Sign in and out, and the checkbox (setErrorReports).                    *)
setErrorReports ==
  /\ reporting' = ~reporting
  /\ UNCHANGED <<file, flushing, batch, forwarded, given, made, kills>>

-----------------------------------------------------------------------------
(* flush, every reportEvery.  Off an account it throws the queue away,     *)
(* what was added after it looked included.                                *)
flushStart ==
  /\ flushing = "idle"
  /\ flushing' = IF reporting THEN "read" ELSE "remove"
  /\ UNCHANGED <<file, reporting, batch, forwarded, given, made, kills>>

flushRemove ==
  /\ flushing = "remove"
  /\ flushing' = "idle"
  /\ file' = <<>> /\ given' = given \cup Ids(file)
  /\ UNCHANGED <<reporting, batch, forwarded, made, kills>>

(* The lines that end within the first MaxBatch bytes; the whole file when *)
(* it is no longer than that, or when no line ends there.                  *)
FirstBatch(lines) ==
  LET whole == {k \in 1..Len(lines) : Size(SubSeq(lines, 1, k)) <= MaxBatch}
  IN IF Size(lines) <= MaxBatch \/ whole = {} THEN lines
     ELSE SubSeq(lines, 1, CHOOSE k \in whole : \A j \in whole : j <= k)

flushRead ==
  /\ flushing = "read"
  /\ batch' = FirstBatch(file)
  /\ flushing' = IF batch' = <<>> THEN "idle" ELSE "post"
  /\ UNCHANGED <<file, reporting, forwarded, given, made, kills>>

(* The body is read up to a limit, past which the server cannot make out   *)
(* the request, and the collector takes the records.                       *)
receiveReports ==
  /\ flushing = "post"
  /\ Size(batch) <= MaxBody
  /\ forwarded' = forwarded \cup Ids(batch)
  /\ flushing' = "taken"
  /\ UNCHANGED <<file, reporting, batch, given, made, kills>>

flushPosted ==
  /\ flushing = "taken"
  /\ flushing' = "cut"
  /\ UNCHANGED <<file, reporting, batch, forwarded, given, made, kills>>

(* The request, the answer or the collector fails, or the server refuses.  *)
flushFails ==
  /\ flushing \in {"post", "taken"}
  /\ flushing' = "idle"
  /\ batch' = <<>>
  /\ UNCHANGED <<file, reporting, forwarded, given, made, kills>>

flushCutBlind ==
  /\ flushing = "cut"
  /\ file' = SubSeq(file, Len(batch) + 1, Len(file))
  /\ flushing' = "read"
  /\ batch' = <<>>
  /\ UNCHANGED <<reporting, forwarded, given, made, kills>>

(* Only while the file still starts with the batch: a trim may have moved  *)
(* it, and then the batch goes again.                                      *)
flushCut ==
  /\ flushing = "cut"
  /\ file' = IF IsPrefix(batch, file) THEN SubSeq(file, Len(batch) + 1, Len(file)) ELSE file
  /\ flushing' = "read"
  /\ batch' = <<>>
  /\ UNCHANGED <<reporting, forwarded, given, made, kills>>

(* os.WriteFile fails, before or after it has emptied the file; flush does *)
(* not look at the error and goes on.                                      *)
flushCutFails ==
  /\ kills < MaxKills
  /\ flushing = "cut" /\ IsPrefix(batch, file)
  /\ kills' = kills + 1
  /\ flushing' = "read" /\ batch' = <<>>
  /\ \/ UNCHANGED <<file, given>>
     \/ file' = <<>> /\ given' = given \cup Ids(file)
  /\ UNCHANGED <<reporting, forwarded, made>>

(* The agent is killed and starts again.  os.WriteFile has emptied the     *)
(* file when it is killed in the rewrite of the cut.                       *)
agentKilled ==
  /\ kills < MaxKills
  /\ kills' = kills + 1
  /\ flushing' = "idle" /\ batch' = <<>>
  /\ \/ UNCHANGED <<file, given>>
     \/ /\ flushing = "cut" /\ IsPrefix(batch, file)
        /\ file' = <<>> /\ given' = given \cup Ids(file)
  /\ UNCHANGED <<reporting, forwarded, made>>

ReportsNext ==
  \/ \E len \in Lengths : add(len) \/ addTrimBreaks(len)
  \/ addFails \/ setErrorReports
  \/ flushStart \/ flushRemove \/ flushRead \/ receiveReports \/ flushPosted \/ flushFails
  \/ flushCut \/ flushCutFails
  \/ agentKilled

(* run ticks for as long as the agent lives and a request times out; a     *)
(* batch the server can take gets through in the end.                      *)
FlushLoop == flushStart \/ flushRemove \/ flushRead \/ flushFails \/ flushCut

ReportsFairness ==
  /\ WF_reportVars(FlushLoop)
  /\ SF_reportVars(receiveReports)
  /\ SF_reportVars(flushPosted)

ReportsSpec == ReportsInit /\ [][ReportsNext]_reportVars /\ ReportsFairness

-----------------------------------------------------------------------------
(* Properties                                                              *)

(* Every report is waiting, was forwarded, or was given up for a reason    *)
(* the code names: too long, past the cap, reporting off, a file that      *)
(* cannot be opened, a rewrite that broke off.  None is lost because the   *)
(* file changed while a batch was on its way (reports.go:95-109, 167-174). *)
NoReportLost == 1..made \subseteq Ids(file) \cup forwarded \cup given

(* A batch on its way is never longer than what the server reads: a line   *)
(* is in the queue only when it fits in a batch, and a batch ends with a   *)
(* line (reports.go:76-80, 139-145).                                       *)
BatchFits == flushing = "post" => Size(batch) <= MaxBody

(* The queue drains: no line at its head keeps it full for ever            *)
(* (reports.go:76-80, 139-145).                                            *)
QueueDrains == []<>(file = <<>>)
=============================================================================
