-------------------------- MODULE BrowserEnrolment --------------------------
(***************************************************************************)
(* Signing one PC in through the browser: the agent's startLogin           *)
(* goroutines (device/agent/login.go, enrol.go) against the control        *)
(* plane's code, poll, answer, enrol and unenrol endpoints                 *)
(* (hosted/control-plane/enrol.go).                                        *)
(*                                                                         *)
(* A request and its answer travel over the Internet: the server may act   *)
(* on a request whose answer the agent never gets, and a poll the agent    *)
(* gave up on is still being served when the next one arrives.  The agent  *)
(* may be stopped and started again at any point; only agent.json          *)
(* survives.                                                               *)
(***************************************************************************)
EXTENDS Naturals, FiniteSets

CONSTANTS
  Accts,   \* accounts that answer codes
  Codes,   \* codes the server may mint for this PC
  Tokens,  \* enrolment tokens the server may mint
  Logins,  \* calls of startLogin and the goroutine each leaves behind
  Reqs,    \* polls being served at one time
  None,
  DiskFails  \* whether a write of agent.json may fail

ASSUME EnrolmentAssumption ==
  /\ None \notin Accts \cup Codes \cup Tokens \cup Logins \cup Reqs
  /\ DiskFails \in BOOLEAN
  /\ IsFiniteSet(Tokens)

VARIABLES
  code,      \* device_enrolments, by code
  token,     \* enrolment_tokens
  bound,     \* accounts with an active binding on this PC
  poll,      \* the server's side of a poll
  job,       \* the agent's goroutines
  out,       \* the agent's logout
  login,     \* agent.login: the code shown, and Waiting
  enrolled,  \* agent.st names a server
  disk       \* agent.json names a server

vars == <<code, token, bound, poll, job, out, login, enrolled, disk>>
serverVars == <<code, token, bound>>
agentVars == <<login, enrolled, disk>>

-----------------------------------------------------------------------------

Code == [status : {"unminted", "pending", "approved", "refused"},
         by : Accts \cup {None}, used : BOOLEAN, expired : BOOLEAN]

Token == [acct : Accts \cup {None}, from : Codes \cup {None},
          state : {"unminted", "fresh", "used", "expired"}]

Poll == [at : {"idle", "consume", "granted", "gone"},
         code : Codes \cup {None}, token : Tokens \cup {None}]

Job == [at : {"idle", "check", "ask", "polling", "awaiting", "enrol", "sync", "snapshot", "save",
              "ended"},
        code : Codes \cup {None}, token : Tokens \cup {None}, req : Reqs \cup {None},
        saved : BOOLEAN]  \* what its snapshot says of the account

Logout == [at : {"idle", "forget", "snapshot", "save"}, saved : BOOLEAN]

NoPoll == [at |-> "idle", code |-> None, token |-> None]
NoJob == [at |-> "idle", code |-> None, token |-> None, req |-> None, saved |-> FALSE]
NoLogout == [at |-> "idle", saved |-> FALSE]
NoLogin == [code |-> None, waiting |-> FALSE]

(* The goroutine is still working on its code. *)
Working(j) == job[j].at \in {"polling", "awaiting", "enrol", "sync", "snapshot", "save"}

TypeOK ==
  /\ code \in [Codes -> Code]
  /\ token \in [Tokens -> Token]
  /\ bound \subseteq Accts
  /\ poll \in [Reqs -> Poll]
  /\ job \in [Logins -> Job]
  /\ out \in Logout
  /\ login \in [code : Codes \cup {None}, waiting : BOOLEAN]
  /\ enrolled \in BOOLEAN
  /\ disk \in BOOLEAN

Init ==
  /\ code = [c \in Codes |-> [status |-> "unminted", by |-> None, used |-> FALSE, expired |-> FALSE]]
  /\ token = [k \in Tokens |-> [acct |-> None, from |-> None, state |-> "unminted"]]
  /\ bound = {}
  /\ poll = [r \in Reqs |-> NoPoll]
  /\ job = [j \in Logins |-> NoJob]
  /\ out = NoLogout
  /\ login = NoLogin
  /\ enrolled = FALSE
  /\ disk = FALSE

-----------------------------------------------------------------------------
(* The website *)

Open(c) == ~code[c].used /\ ~code[c].expired

answerEnrolmentAgain(a, c, answer) ==
  /\ code[c].status # "unminted"
  /\ code' = [code EXCEPT ![c].status = answer, ![c].by = a]
  /\ UNCHANGED <<token, bound, poll, job, agentVars, out>>

answerEnrolmentNoAccount(a, c, answer) ==
  /\ code[c].status = "pending"
  /\ Open(c)
  /\ code' = [code EXCEPT ![c].status = answer]
  /\ UNCHANGED <<token, bound, poll, job, agentVars, out>>

answerEnrolment(a, c, answer) ==
  /\ code[c].status = "pending"
  /\ Open(c)
  /\ code' = [code EXCEPT ![c].status = answer, ![c].by = a]
  /\ UNCHANGED <<token, bound, poll, job, agentVars, out>>

(* expires_at passes.  A row that is used or refused ends the poll anyway.  *)
CodeExpires(c) ==
  /\ code[c].status \in {"pending", "approved"}
  /\ Open(c)
  /\ code' = [code EXCEPT ![c].expired = TRUE]
  /\ UNCHANGED <<token, bound, poll, job, agentVars, out>>

TokenExpires(k) ==
  /\ token[k].state = "fresh"
  /\ token' = [token EXCEPT ![k].state = "expired"]
  /\ UNCHANGED <<code, bound, poll, job, agentVars, out>>

-----------------------------------------------------------------------------
(* awaitApproval: how a sign in ends *)

(* A finished one leaves nothing behind. *)
EndsWell(j) ==
  /\ job' = [job EXCEPT ![j] = [NoJob EXCEPT !.at = "ended"]]
  /\ login' = NoLogin

(* Any other leaves the code and the error, and no longer waits. *)
EndsBadly(j) ==
  /\ job' = [job EXCEPT ![j] = [NoJob EXCEPT !.at = "ended"]]
  /\ login' = [login EXCEPT !.waiting = FALSE]

EndsSilently(j) ==
  /\ job' = [job EXCEPT ![j] = [NoJob EXCEPT !.at = "ended"]]
  /\ UNCHANGED login

-----------------------------------------------------------------------------
(* startLogin *)

(* A PC that is enrolled refuses ... *)
startLogin(j) ==
  /\ job[j].at = "idle"
  /\ ~enrolled
  /\ job' = [job EXCEPT ![j].at = "check"]
  /\ UNCHANGED <<serverVars, poll, agentVars, out>>

(* ... and, the mutex taken a second time, one that is waiting shows the   *)
(* code it has.                                                            *)
checkWaiting(j) ==
  /\ job[j].at = "check"
  /\ job' = [job EXCEPT ![j].at = IF login.waiting THEN "idle" ELSE "ask"]
  /\ UNCHANGED <<serverVars, poll, agentVars, out>>

(* startEnrolment mints the code, and the agent shows it and polls. *)
startEnrolment(j, c) ==
  /\ job[j].at = "ask"
  /\ code[c].status = "unminted"
  /\ code' = [code EXCEPT ![c].status = "pending"]
  /\ job' = [job EXCEPT ![j].at = "polling", ![j].code = c]
  /\ login' = [code |-> c, waiting |-> TRUE]
  /\ UNCHANGED <<token, bound, poll, enrolled, disk, out>>

(* The request or its answer is lost: startLogin returns an error, and the *)
(* server may hold a code nobody sees.                                     *)
startEnrolmentLost(j) ==
  /\ job[j].at = "ask"
  /\ \/ UNCHANGED code
     \/ \E c \in Codes : /\ code[c].status = "unminted"
                         /\ code' = [code EXCEPT ![c].status = "pending"]
  /\ job' = [job EXCEPT ![j].at = "ended"]
  /\ UNCHANGED <<token, bound, poll, agentVars, out>>

-----------------------------------------------------------------------------
(* pollEnrolment and pollUntilAnswered.  A pending answer, and an answer   *)
(* that is lost, leave everything as it is: the agent asks again.          *)

(* The SELECT finds no row, or a refused one: the agent stops. *)
pollRefused(j) ==
  /\ job[j].at = "polling"
  /\ ~Open(job[j].code) \/ code[job[j].code].status = "refused"
  /\ EndsBadly(j)
  /\ UNCHANGED <<serverVars, poll, enrolled, disk, out>>

Approved(c) == code[c].status = "approved" /\ Open(c)

(* The SELECT finds the row approved: the transaction comes next. *)
pollApproved(j, r) ==
  /\ job[j].at = "polling"
  /\ poll[r].at = "idle"
  /\ Approved(job[j].code)
  /\ poll' = [poll EXCEPT ![r] = [at |-> "consume", code |-> job[j].code, token |-> None]]
  /\ job' = [job EXCEPT ![j].at = "awaiting", ![j].req = r]
  /\ UNCHANGED <<serverVars, agentVars, out>>

Mint(r, k) ==
  /\ token[k].state = "unminted"
  /\ token' = [token EXCEPT ![k] = [acct |-> code[poll[r].code].by, from |-> poll[r].code,
                                    state |-> "fresh"]]
  /\ code' = [code EXCEPT ![poll[r].code].used = TRUE]
  /\ poll' = [poll EXCEPT ![r].at = "granted", ![r].token = k]

pollConsumeUnguarded(r, k) ==
  /\ poll[r].at = "consume"
  /\ Mint(r, k)
  /\ UNCHANGED <<bound, job, agentVars, out>>

(* The guarded UPDATE and the token it mints are one transaction. *)
pollConsume(r, k) ==
  /\ poll[r].at = "consume"
  /\ Approved(poll[r].code)
  /\ Mint(r, k)
  /\ UNCHANGED <<bound, job, agentVars, out>>

(* Another poll consumed the row, or it expired since the SELECT: 404. *)
pollGone(r) ==
  /\ poll[r].at = "consume"
  /\ ~Approved(poll[r].code)
  /\ poll' = [poll EXCEPT ![r].at = "gone"]
  /\ UNCHANGED <<serverVars, job, agentVars, out>>

(* The answer reaches the goroutine that waits for it. *)
pollAnswered(j) ==
  LET r == job[j].req
  IN /\ job[j].at = "awaiting"
     /\ poll[r].at \in {"granted", "gone"}
     /\ poll' = [poll EXCEPT ![r] = NoPoll]
     /\ IF poll[r].at = "granted"
          THEN /\ job' = [job EXCEPT ![j].at = "enrol", ![j].token = poll[r].token,
                                     ![j].req = None]
               /\ UNCHANGED login
          ELSE EndsBadly(j)
     /\ UNCHANGED <<serverVars, enrolled, disk, out>>

(* The agent gives up on the request; the server does not know. *)
pollLost(j) ==
  /\ job[j].at = "awaiting"
  /\ job' = [job EXCEPT ![j].at = "polling", ![j].req = None]
  /\ UNCHANGED <<serverVars, poll, agentVars, out>>

(* The server's answer to a request nobody waits for goes nowhere. *)
pollDropped(r) ==
  /\ poll[r].at \in {"granted", "gone"}
  /\ \A j \in Logins : job[j].req # r
  /\ poll' = [poll EXCEPT ![r] = NoPoll]
  /\ UNCHANGED <<serverVars, job, agentVars, out>>

loginMaxWaitSilent(j) ==
  /\ job[j].at \in {"polling", "awaiting"}
  /\ EndsSilently(j)
  /\ UNCHANGED <<serverVars, poll, enrolled, disk, out>>

loginNoDeadline(j) == FALSE

(* loginMaxWait: the goroutine's context ends. *)
loginMaxWait(j) ==
  /\ job[j].at \in {"polling", "awaiting"}
  /\ EndsBadly(j)
  /\ UNCHANGED <<serverVars, poll, enrolled, disk, out>>

-----------------------------------------------------------------------------
(* enrol *)

(* enrolDevice consumes the token and binds its account. *)
Accept(k) ==
  /\ token[k].state = "fresh"
  /\ token' = [token EXCEPT ![k].state = "used"]
  /\ bound' = bound \cup {token[k].acct}

enrolAccepted(j) ==
  /\ job[j].at = "enrol"
  /\ Accept(job[j].token)
  /\ job' = [job EXCEPT ![j].at = "sync"]
  /\ UNCHANGED <<code, poll, agentVars, out>>

enrolFailureIgnored(j) ==
  /\ job[j].at = "enrol"
  /\ Accept(job[j].token) \/ UNCHANGED <<token, bound>>
  /\ job' = [job EXCEPT ![j].at = "sync"]
  /\ UNCHANGED <<code, poll, agentVars, out>>

(* The token is no good, or the server cannot be reached, or it accepted   *)
(* and its answer is lost.                                                 *)
enrolFails(j) ==
  /\ job[j].at = "enrol"
  /\ Accept(job[j].token) \/ UNCHANGED <<token, bound>>
  /\ EndsBadly(j)
  /\ UNCHANGED <<code, poll, enrolled, disk, out>>

(* syncApps, then the account goes into memory. *)
syncApps(j) ==
  /\ job[j].at = "sync"
  /\ enrolled' = TRUE
  /\ job' = [job EXCEPT ![j].at = "snapshot"]
  /\ UNCHANGED <<serverVars, poll, login, disk, out>>

syncAppsFails(j) ==
  /\ job[j].at = "sync"
  /\ EndsBadly(j)
  /\ UNCHANGED <<serverVars, poll, enrolled, disk, out>>

(* The mutex is released and taken again for the copy that is written. *)
snapshot(j) ==
  /\ job[j].at = "snapshot"
  /\ job' = [job EXCEPT ![j].at = "save", ![j].saved = enrolled]
  /\ UNCHANGED <<serverVars, poll, agentVars, out>>

saveState(j) ==
  /\ job[j].at = "save"
  /\ disk' = job[j].saved
  /\ EndsWell(j)
  /\ UNCHANGED <<serverVars, poll, enrolled, out>>

saveStateFails(j) ==
  /\ DiskFails
  /\ job[j].at = "save"
  /\ EndsBadly(j)
  /\ UNCHANGED <<serverVars, poll, enrolled, disk, out>>

-----------------------------------------------------------------------------
(* logout, removal and restart *)

(* The server's unenrolDevice, whose answer arrives or is lost. *)
logout ==
  /\ out.at = "idle"
  /\ enrolled
  /\ bound' = {}
  /\ out' \in {out, [out EXCEPT !.at = "forget"]}
  /\ UNCHANGED <<code, token, poll, job, agentVars>>

forgetAccount ==
  /\ out.at = "forget"
  /\ IF enrolled THEN enrolled' = FALSE /\ login' = NoLogin
                 ELSE UNCHANGED <<enrolled, login>>
  /\ out' = [out EXCEPT !.at = "snapshot"]
  /\ UNCHANGED <<serverVars, poll, job, disk>>

forgetSnapshot ==
  /\ out.at = "snapshot"
  /\ out' = [at |-> "save", saved |-> enrolled]
  /\ UNCHANGED <<serverVars, poll, job, agentVars>>

forgetSave ==
  /\ out.at = "save"
  /\ disk' = out.saved \/ (DiskFails /\ UNCHANGED disk)
  /\ out' = NoLogout
  /\ UNCHANGED <<serverVars, poll, job, login, enrolled>>

(* The agent stops and is started again: the goroutines and the login are  *)
(* gone, the file is read.                                                 *)
Restart ==
  /\ job' = [j \in Logins |-> IF job[j].at = "idle" THEN NoJob
                                                    ELSE [NoJob EXCEPT !.at = "ended"]]
  /\ out' = NoLogout
  /\ login' = NoLogin
  /\ enrolled' = disk
  /\ UNCHANGED <<serverVars, poll, disk>>

-----------------------------------------------------------------------------

(* The agent's own steps and what the network does to them. *)
awaitApproval(j) ==
  \/ \E c \in Codes : startEnrolment(j, c)
  \/ startEnrolmentLost(j)
  \/ pollRefused(j)
  \/ \E r \in Reqs : pollApproved(j, r)
  \/ pollAnswered(j)
  \/ pollLost(j)
  \/ loginMaxWait(j)
  \/ enrolAccepted(j)
  \/ enrolFails(j)
  \/ syncApps(j)
  \/ syncAppsFails(j)
  \/ snapshot(j)
  \/ saveState(j)
  \/ saveStateFails(j)

pollEnrolment(r) ==
  \/ \E k \in Tokens : pollConsume(r, k)
  \/ pollGone(r)
  \/ pollDropped(r)

Next ==
  \/ \E a \in Accts, c \in Codes, answer \in {"approved", "refused"} :
       answerEnrolment(a, c, answer)
  \/ \E c \in Codes : CodeExpires(c)
  \/ \E k \in Tokens : TokenExpires(k)
  \/ \E j \in Logins : startLogin(j) \/ checkWaiting(j) \/ awaitApproval(j)
  \/ \E r \in Reqs : pollEnrolment(r)
  \/ logout \/ forgetAccount \/ forgetSnapshot \/ forgetSave
  \/ Restart

Spec == Init /\ [][Next]_vars

(* A goroutine runs, its requests time out and its context expires; nobody *)
(* has to answer a code and no answer has to arrive.                       *)
Fairness ==
  \A j \in Logins :
    /\ WF_vars(job[j].at \in {"ask", "enrol", "sync", "snapshot", "save"} /\ awaitApproval(j))
    /\ WF_vars(loginMaxWait(j))

FairSpec == Spec /\ Fairness

-----------------------------------------------------------------------------
(* Properties. *)

(* pollEnrolment: "two polls racing cannot both come away with a token",   *)
(* with polls the agent gave up on still being served.                     *)
OneTokenPerCode ==
  \A c \in Codes : Cardinality({k \in Tokens : token[k].from = c}) <= 1

(* Migration 0004's rule that collecting a token needs the code and the    *)
(* device: an account holds this PC only if it approved one of this PC's   *)
(* codes, and that code is spent.                                          *)
BoundByApproval ==
  \A a \in bound : \E c \in Codes :
     code[c].status = "approved" /\ code[c].by = a /\ code[c].used

(* startLogin refuses while Waiting is set, so a flag that outlived its    *)
(* goroutine would keep the PC from ever signing in: Waiting is set only   *)
(* while a goroutine works on the code the person is shown.                *)
WaitingIsWorkedOn ==
  login.waiting => \E j \in Logins : Working(j) /\ job[j].code = login.code

(* enrol.go: "Nothing is written to disk until the server has accepted".   *)
(* A PC that is enrolled, in memory or in the file, was accepted with a    *)
(* token.                                                                  *)
WrittenAfterAccepted ==
  enrolled \/ disk => \E k \in Tokens : token[k].state = "used"

(* What the people who answer codes are promised, whatever polls, lost     *)
(* answers, late goroutines and restarts do: enrol.go and login.go         *)
(* implement DeviceGrant.  A code is redeemed when a token minted from it  *)
(* is accepted.                                                            *)
Approval == [c \in Codes |-> IF code[c].status = "approved" THEN code[c].by ELSE None]

Refused == {c \in Codes : code[c].status = "refused"}

Redeemed == {c \in Codes : \E k \in Tokens : token[k].from = c /\ token[k].state = "used"}

Grant == INSTANCE DeviceGrant WITH
  approval <- Approval, refused <- Refused, redeemed <- Redeemed, held <- bound

ImplementsGrant == Grant!GrantSpec

(* A sign in ends, whatever the person and the network do (login.go        *)
(* loginMaxWait).                                                          *)
LoginEnds == \A j \in Logins : Working(j) ~> ~Working(j)
=============================================================================
