---------------------- MODULE BrowserEnrolment_proofs ----------------------
(***************************************************************************)
(* Theorems about BrowserEnrolment, for any number of accounts, codes,     *)
(* tokens, sign ins and polls.                                             *)
(***************************************************************************)
EXTENDS BrowserEnrolment, FiniteSetTheorems, TLAPS

(* What a poll and a goroutine remember at each point. *)
PointsOK ==
  /\ \A r \in Reqs :
       /\ poll[r].at # "idle" => poll[r].code \in Codes
       /\ poll[r].at = "granted" => poll[r].token \in Tokens
  /\ \A j \in Logins :
       /\ Working(j) => job[j].code \in Codes
       /\ job[j].at = "awaiting" => job[j].req \in Reqs
       /\ job[j].at = "enrol" => job[j].token \in Tokens

(* A code that was answered names who answered; a token names the spent    *)
(* code it was minted from and the account that approved it; no code has   *)
(* two tokens.                                                             *)
AnsweredBy == \A c \in Codes : code[c].status \in {"approved", "refused"} => code[c].by \in Accts

MintedFrom ==
  \A k \in Tokens :
    IF token[k].state = "unminted" THEN token[k].from = None
    ELSE /\ token[k].from \in Codes
         /\ code[token[k].from].status = "approved"
         /\ code[token[k].from].used
         /\ code[token[k].from].by = token[k].acct

OneMinted ==
  \A k, m \in Tokens : token[k].from # None /\ token[k].from = token[m].from => k = m

(* Whatever says that the PC is enrolled, or is about to, comes after a    *)
(* token was accepted.                                                     *)
SaysEnrolled ==
  \/ enrolled \/ disk \/ out.saved
  \/ \E j \in Logins : job[j].saved \/ job[j].at \in {"sync", "snapshot", "save"}

Accepted == \E k \in Tokens : token[k].state = "used"

Inv ==
  /\ TypeOK /\ PointsOK
  /\ AnsweredBy /\ MintedFrom /\ OneMinted /\ BoundByApproval
  /\ WaitingIsWorkedOn
  /\ SaysEnrolled => Accepted

(* The PC before its first sign in. *)
LEMMA InitInv == Init => Inv
<1> SUFFICES ASSUME Init PROVE Inv
  OBVIOUS
<1> USE EnrolmentAssumption DEF Init, NoPoll, NoJob, NoLogout, NoLogin
<1>1. TypeOK
  BY DEF TypeOK, Code, Token, Poll, Job, Logout
<1>2. PointsOK
  BY DEF PointsOK, Working
<1>3. AnsweredBy /\ MintedFrom /\ OneMinted
  BY DEF AnsweredBy, MintedFrom, OneMinted
<1>4. BoundByApproval /\ WaitingIsWorkedOn
  BY DEF BoundByApproval, WaitingIsWorkedOn
<1>5. SaysEnrolled => Accepted
  BY DEF SaysEnrolled
<1> QED
  BY <1>1, <1>2, <1>3, <1>4, <1>5 DEF Inv

(* What the agent shows when nobody signs in. *)
LEMMA NoLoginTyped == NoLogin \in [code : Codes \cup {None}, waiting : BOOLEAN]
BY DEF NoLogin

(* Rows and goroutines keep their type when the fields a step sets change. *)
LEMMA CodeFields ==
  ASSUME NEW q \in Code
  PROVE  /\ [q EXCEPT !.expired = TRUE] \in Code
         /\ [q EXCEPT !.used = TRUE] \in Code
         /\ \A a \in Accts, answer \in {"approved", "refused"} :
              [q EXCEPT !.status = answer, !.by = a] \in Code
BY DEF Code

LEMMA JobFields ==
  ASSUME NEW q \in Job
  PROVE  /\ \A c \in Codes : [q EXCEPT !.at = "polling", !.code = c] \in Job
         /\ \A r \in Reqs : [q EXCEPT !.at = "awaiting", !.req = r] \in Job
         /\ [q EXCEPT !.at = "polling", !.req = None] \in Job
         /\ \A b \in BOOLEAN : [q EXCEPT !.at = "save", !.saved = b] \in Job
         /\ [q EXCEPT !.at = "snapshot"] \in Job
BY DEF Job

LEMMA PollFields ==
  ASSUME NEW q \in Poll, NEW k \in Tokens
  PROVE  [q EXCEPT !.at = "granted", !.token = k] \in Poll
BY DEF Poll

(* A token that is accepted binds the account that approved its code. *)
LEMMA Accepts ==
  ASSUME TypeOK, AnsweredBy, MintedFrom, NEW k \in Tokens, Accept(k)
  PROVE  /\ token' \in [Tokens -> Token]
         /\ token[k].acct \in Accts
         /\ bound' = bound \cup {token[k].acct}
         /\ bound' \subseteq Accts
<1>1. token' \in [Tokens -> Token]
  BY DEF Accept, TypeOK, Token
<1>2. token[k].acct \in Accts
  BY DEF Accept, AnsweredBy, MintedFrom
<1> QED
  BY <1>1, <1>2 DEF Accept, TypeOK

(* Every step keeps the types. *)
LEMMA NextTyped == Inv /\ [Next]_vars => TypeOK'
<1> SUFFICES ASSUME TypeOK, PointsOK, AnsweredBy, MintedFrom, [Next]_vars PROVE TypeOK'
  BY DEF Inv
<1> USE EnrolmentAssumption DEF TypeOK, serverVars, agentVars
<1>1. CASE UNCHANGED vars
  BY <1>1 DEF vars
<1>2. ASSUME NEW a \in Accts, NEW c \in Codes, NEW answer \in {"approved", "refused"},
             answerEnrolment(a, c, answer)
      PROVE  TypeOK'
  <2>1. code' = [code EXCEPT ![c] = [code[c] EXCEPT !.status = answer, !.by = a]]
    BY <1>2 DEF answerEnrolment
  <2>2. code' \in [Codes -> Code]
    <3>1. [code[c] EXCEPT !.status = answer, !.by = a] \in Code
      BY CodeFields
    <3> QED
      BY <2>1, <3>1
  <2> QED
    BY <1>2, <2>2 DEF answerEnrolment
<1>3. ASSUME NEW c \in Codes, CodeExpires(c) PROVE TypeOK'
  <2>1. code' = [code EXCEPT ![c] = [code[c] EXCEPT !.expired = TRUE]]
    BY <1>3 DEF CodeExpires
  <2>2. code' \in [Codes -> Code]
    BY <2>1, CodeFields
  <2> QED
    BY <1>3, <2>2 DEF CodeExpires
<1>4. ASSUME NEW k \in Tokens, TokenExpires(k) PROVE TypeOK'
  BY <1>4 DEF TokenExpires, Token
<1>5. ASSUME NEW j \in Logins, startLogin(j) \/ checkWaiting(j) PROVE TypeOK'
  BY <1>5 DEF startLogin, checkWaiting, Job
<1>6. ASSUME NEW j \in Logins, NEW c \in Codes, startEnrolment(j, c) PROVE TypeOK'
  <2>1. code' \in [Codes -> Code]
    BY <1>6 DEF startEnrolment, Code
  <2>2. job' = [job EXCEPT ![j] = [job[j] EXCEPT !.at = "polling", !.code = c]]
    BY <1>6 DEF startEnrolment
  <2>3. job' \in [Logins -> Job]
    <3>1. [job[j] EXCEPT !.at = "polling", !.code = c] \in Job
      BY JobFields
    <3> QED
      BY <2>2, <3>1
  <2> QED
    BY <1>6, <2>1, <2>3 DEF startEnrolment
<1>7. ASSUME NEW j \in Logins, startEnrolmentLost(j) PROVE TypeOK'
  <2>1. code' \in [Codes -> Code]
    BY <1>7 DEF startEnrolmentLost, Code
  <2>2. job' \in [Logins -> Job]
    BY <1>7 DEF startEnrolmentLost, Job
  <2> QED
    BY <1>7, <2>1, <2>2 DEF startEnrolmentLost
<1>8. ASSUME NEW j \in Logins, EndsBadly(j) \/ EndsWell(j)
      PROVE  /\ job' \in [Logins -> Job]
             /\ login' \in [code : Codes \cup {None}, waiting : BOOLEAN]
  <2>1. job' = [job EXCEPT ![j] = [NoJob EXCEPT !.at = "ended"]]
    BY <1>8 DEF EndsBadly, EndsWell
  <2>2. job' \in [Logins -> Job]
    <3>1. [NoJob EXCEPT !.at = "ended"] \in Job
      BY DEF NoJob, Job
    <3> QED
      BY <2>1, <3>1
  <2>3. CASE EndsBadly(j)
    <3>1. [login EXCEPT !.waiting = FALSE] \in [code : Codes \cup {None}, waiting : BOOLEAN]
      OBVIOUS
    <3> QED
      BY <2>2, <2>3, <3>1 DEF EndsBadly
  <2>4. CASE EndsWell(j)
    BY <2>2, <2>4, NoLoginTyped DEF EndsWell
  <2> QED
    BY <1>8, <2>3, <2>4
<1>9. ASSUME NEW j \in Logins, pollRefused(j) \/ loginMaxWait(j) \/ syncAppsFails(j)
                               \/ saveStateFails(j)
      PROVE  TypeOK'
  BY <1>8, <1>9 DEF pollRefused, loginMaxWait, syncAppsFails, saveStateFails
<1>10. ASSUME NEW j \in Logins, NEW r \in Reqs, pollApproved(j, r) PROVE TypeOK'
  <2>1. job' = [job EXCEPT ![j] = [job[j] EXCEPT !.at = "awaiting", !.req = r]]
    BY <1>10 DEF pollApproved
  <2>2. job' \in [Logins -> Job]
    <3>1. [job[j] EXCEPT !.at = "awaiting", !.req = r] \in Job
      BY JobFields
    <3> QED
      BY <2>1, <3>1
  <2>3. job[j].code \in Codes
    BY <1>10 DEF pollApproved, PointsOK, Working
  <2>4. poll' \in [Reqs -> Poll]
    BY <1>10, <2>3 DEF pollApproved, Poll
  <2> QED
    BY <1>10, <2>2, <2>4 DEF pollApproved
<1>11. ASSUME NEW j \in Logins, pollAnswered(j) PROVE TypeOK'
  <2>1. job[j].req \in Reqs
    BY <1>11 DEF pollAnswered, PointsOK
  <2>2. poll' \in [Reqs -> Poll]
    BY <1>11 DEF pollAnswered, NoPoll, Poll
  <2>3. CASE poll[job[j].req].at = "granted"
    BY <1>11, <2>1, <2>2, <2>3 DEF pollAnswered, PointsOK, Job, Poll
  <2>4. CASE poll[job[j].req].at # "granted"
    BY <1>8, <1>11, <2>2, <2>4 DEF pollAnswered
  <2> QED
    BY <2>3, <2>4
<1>12. ASSUME NEW j \in Logins, pollLost(j) \/ snapshot(j) \/ syncApps(j) PROVE TypeOK'
  <2>1. PICK q \in Job : job' = [job EXCEPT ![j] = q]
    <3>1. CASE pollLost(j)
      <4>1. [job[j] EXCEPT !.at = "polling", !.req = None] \in Job
        BY JobFields
      <4> QED
        BY <3>1, <4>1 DEF pollLost
    <3>2. CASE snapshot(j)
      <4>1. [job[j] EXCEPT !.at = "save", !.saved = enrolled] \in Job
        BY JobFields
      <4> QED
        BY <3>2, <4>1 DEF snapshot
    <3>3. CASE syncApps(j)
      <4>1. [job[j] EXCEPT !.at = "snapshot"] \in Job
        BY JobFields
      <4> QED
        BY <3>3, <4>1 DEF syncApps
    <3> QED
      BY <1>12, <3>1, <3>2, <3>3
  <2>2. job' \in [Logins -> Job]
    BY <2>1
  <2> QED
    BY <1>12, <2>2 DEF pollLost, snapshot, syncApps
<1>13. ASSUME NEW j \in Logins, enrolAccepted(j) PROVE TypeOK'
  <2>1. job' \in [Logins -> Job]
    BY <1>13 DEF enrolAccepted, Job
  <2>2. token' \in [Tokens -> Token] /\ bound' \subseteq Accts
    BY <1>13, Accepts DEF enrolAccepted, PointsOK
  <2> QED
    BY <1>13, <2>1, <2>2 DEF enrolAccepted
<1>14. ASSUME NEW j \in Logins, enrolFails(j) PROVE TypeOK'
  <2>1. token' \in [Tokens -> Token] /\ bound' \subseteq Accts
    BY <1>14, Accepts DEF enrolFails, PointsOK
  <2> QED
    BY <1>8, <1>14, <2>1 DEF enrolFails
<1>15. ASSUME NEW j \in Logins, saveState(j) PROVE TypeOK'
  BY <1>8, <1>15 DEF saveState, Job
<1>16. ASSUME NEW r \in Reqs, NEW k \in Tokens, pollConsume(r, k) PROVE TypeOK'
  <2>1. poll[r].code \in Codes
    BY <1>16 DEF pollConsume, PointsOK
  <2>2. code' \in [Codes -> Code]
    <3>1. code' = [code EXCEPT ![poll[r].code] = [code[poll[r].code] EXCEPT !.used = TRUE]]
      BY <1>16 DEF pollConsume, Mint
    <3> QED
      BY <2>1, <3>1, CodeFields
  <2>3. token' \in [Tokens -> Token]
    BY <1>16, <2>1 DEF pollConsume, Mint, Code, Token
  <2>4. poll' = [poll EXCEPT ![r] = [poll[r] EXCEPT !.at = "granted", !.token = k]]
    BY <1>16 DEF pollConsume, Mint
  <2>5. poll' \in [Reqs -> Poll]
    BY <2>4, PollFields
  <2> QED
    BY <1>16, <2>2, <2>3, <2>5 DEF pollConsume
<1>17. ASSUME NEW r \in Reqs, pollGone(r) \/ pollDropped(r) PROVE TypeOK'
  BY <1>17 DEF pollGone, pollDropped, NoPoll, Poll
<1>18. CASE logout
  BY <1>18 DEF logout, Logout
<1>19. CASE forgetAccount
  <2>1. out' \in Logout
    BY <1>19 DEF forgetAccount, Logout
  <2>2. login' \in [code : Codes \cup {None}, waiting : BOOLEAN] /\ enrolled' \in BOOLEAN
    <3>1. CASE enrolled
      BY <1>19, <3>1, NoLoginTyped DEF forgetAccount
    <3>2. CASE ~enrolled
      BY <1>19, <3>2 DEF forgetAccount
    <3> QED
      BY <3>1, <3>2
  <2> QED
    BY <1>19, <2>1, <2>2 DEF forgetAccount
<1>20. CASE forgetSnapshot
  BY <1>20 DEF forgetSnapshot, Logout
<1>22. CASE forgetSave
  <2>1. disk' \in BOOLEAN
    BY <1>22 DEF forgetSave, Logout
  <2> QED
    BY <1>22, <2>1 DEF forgetSave, NoLogout, Logout
<1>21. CASE Restart
  BY <1>21 DEF Restart, NoJob, NoLogin, NoLogout, Job, Logout
<1> QED
  BY <1>1, <1>2, <1>3, <1>4, <1>5, <1>6, <1>7, <1>9, <1>10, <1>11, <1>12, <1>13, <1>14, <1>15,
     <1>16, <1>17, <1>18, <1>19, <1>20, <1>21, <1>22 DEF Next, awaitApproval, pollEnrolment

(* What each step does to the goroutines: one of them moves on with its    *)
(* code, one leaves, or all are stopped; the flag Waiting is cleared with  *)
(* each that leaves.                                                       *)
MovesOn(j) ==
  /\ \A i \in Logins \ {j} : job'[i] = job[i]
  /\ Working(j) => Working(j)'
  /\ job'[j].code = job[j].code
  /\ UNCHANGED login

Leaves(j) ==
  /\ \A i \in Logins \ {j} : job'[i] = job[i]
  /\ job'[j].at = "ended" /\ ~job'[j].saved
  /\ ~login'.waiting

(* Both ways a sign in ends. *)
LEMMA EndsLeave ==
  ASSUME TypeOK, NEW j \in Logins, EndsBadly(j) \/ EndsWell(j)
  PROVE  Leaves(j)
<1>1. job' = [job EXCEPT ![j] = [NoJob EXCEPT !.at = "ended"]]
  BY DEF EndsBadly, EndsWell
<1>2. ~login'.waiting
  BY DEF EndsBadly, EndsWell, NoLogin, TypeOK
<1> QED
  BY <1>1, <1>2 DEF Leaves, NoJob, TypeOK

(* The steps of a goroutine that works. *)
LEMMA JobSteps ==
  ASSUME Inv, NEW j \in Logins
  PROVE  /\ pollRefused(j) \/ loginMaxWait(j) \/ enrolFails(j) \/ syncAppsFails(j)
              \/ saveState(j) \/ saveStateFails(j) => Leaves(j)
         /\ pollAnswered(j) => \/ Leaves(j)
                               \/ MovesOn(j) /\ job'[j].at = "enrol" /\ job'[j].token \in Tokens
                                  /\ job'[j].saved = job[j].saved
         /\ pollLost(j) => MovesOn(j) /\ job'[j].at = "polling" /\ job'[j].saved = job[j].saved
         /\ enrolAccepted(j) => MovesOn(j) /\ job'[j].at = "sync" /\ job'[j].saved = job[j].saved
         /\ syncApps(j) => MovesOn(j) /\ job'[j].at = "snapshot" /\ job'[j].saved = job[j].saved
         /\ snapshot(j) => MovesOn(j) /\ job'[j].at = "save" /\ job'[j].saved = enrolled
         /\ \A r \in Reqs : pollApproved(j, r) =>
              MovesOn(j) /\ job'[j].at = "awaiting" /\ job'[j].req = r
                /\ job'[j].saved = job[j].saved
         /\ startLogin(j) \/ checkWaiting(j) =>
              MovesOn(j) /\ ~Working(j)' /\ job'[j].saved = job[j].saved
<1> USE DEF Inv, TypeOK, Job, serverVars, agentVars
<1>1. pollRefused(j) \/ loginMaxWait(j) \/ enrolFails(j) \/ syncAppsFails(j)
              \/ saveState(j) \/ saveStateFails(j) => Leaves(j)
  BY EndsLeave DEF pollRefused, loginMaxWait, enrolFails, syncAppsFails, saveState,
     saveStateFails
<1>2. ASSUME pollAnswered(j)
      PROVE  \/ Leaves(j)
             \/ MovesOn(j) /\ job'[j].at = "enrol" /\ job'[j].token \in Tokens
                /\ job'[j].saved = job[j].saved
  <2>1. job[j].req \in Reqs
    BY <1>2 DEF pollAnswered, PointsOK
  <2>2. CASE poll[job[j].req].at = "granted"
    BY <1>2, <2>1, <2>2 DEF pollAnswered, PointsOK, MovesOn, Working
  <2>3. CASE poll[job[j].req].at # "granted"
    BY <1>2, <2>3, EndsLeave DEF pollAnswered
  <2> QED
    BY <2>2, <2>3
<1>3. pollLost(j) => MovesOn(j) /\ job'[j].at = "polling" /\ job'[j].saved = job[j].saved
  BY DEF pollLost, MovesOn, Working
<1>4. enrolAccepted(j) => MovesOn(j) /\ job'[j].at = "sync" /\ job'[j].saved = job[j].saved
  BY DEF enrolAccepted, MovesOn, Working
<1>5. syncApps(j) => MovesOn(j) /\ job'[j].at = "snapshot" /\ job'[j].saved = job[j].saved
  BY DEF syncApps, MovesOn, Working
<1>6. snapshot(j) => MovesOn(j) /\ job'[j].at = "save" /\ job'[j].saved = enrolled
  BY DEF snapshot, MovesOn, Working
<1>7. ASSUME NEW r \in Reqs, pollApproved(j, r)
      PROVE  MovesOn(j) /\ job'[j].at = "awaiting" /\ job'[j].req = r
               /\ job'[j].saved = job[j].saved
  BY <1>7 DEF pollApproved, MovesOn, Working
<1>8. startLogin(j) \/ checkWaiting(j) =>
        MovesOn(j) /\ ~Working(j)' /\ job'[j].saved = job[j].saved
  BY DEF startLogin, checkWaiting, MovesOn, Working
<1> QED
  BY <1>1, <1>2, <1>3, <1>4, <1>5, <1>6, <1>7, <1>8

(* The steps that are not a goroutine's. *)
NotJobs == /\ UNCHANGED job
           /\ UNCHANGED login \/ login' = NoLogin

LEMMA OtherSteps ==
  ASSUME [Next]_vars
  PROVE  \/ NotJobs
         \/ \E j \in Logins : startLogin(j) \/ checkWaiting(j) \/ awaitApproval(j)
         \/ Restart
<1> USE DEF NotJobs, serverVars, agentVars
<1>1. CASE \E a \in Accts, c \in Codes, answer \in {"approved", "refused"} :
             answerEnrolment(a, c, answer)
  BY <1>1 DEF answerEnrolment
<1>2. CASE \/ \E c \in Codes : CodeExpires(c)
           \/ \E k \in Tokens : TokenExpires(k)
  BY <1>2 DEF CodeExpires, TokenExpires
<1>3. CASE \E r \in Reqs : pollEnrolment(r)
  BY <1>3 DEF pollEnrolment, pollConsume, pollGone, pollDropped
<1>4. CASE logout \/ forgetAccount \/ forgetSnapshot \/ forgetSave
  BY <1>4 DEF logout, forgetAccount, forgetSnapshot, forgetSave
<1>5. CASE UNCHANGED vars
  BY <1>5 DEF vars
<1> QED
  BY <1>1, <1>2, <1>3, <1>4, <1>5 DEF Next

(* Waiting stays set only while somebody works on the code that is shown.  *)
LEMMA NextWaiting == Inv /\ [Next]_vars => WaitingIsWorkedOn'
<1> SUFFICES ASSUME Inv, [Next]_vars PROVE WaitingIsWorkedOn'
  OBVIOUS
<1> USE DEF WaitingIsWorkedOn
<1>inv. WaitingIsWorkedOn
  BY DEF Inv
<1>1. CASE NotJobs
  BY <1>1, <1>inv DEF NotJobs, NoLogin, Working
<1>2. CASE Restart
  BY <1>2 DEF Restart, NoLogin
<1>3. ASSUME NEW j \in Logins, MovesOn(j) PROVE WaitingIsWorkedOn'
  BY <1>3, <1>inv DEF MovesOn, Working
<1>4. ASSUME NEW j \in Logins, Leaves(j) PROVE WaitingIsWorkedOn'
  BY <1>4 DEF Leaves
<1>5. ASSUME NEW j \in Logins, startLogin(j) \/ checkWaiting(j) PROVE WaitingIsWorkedOn'
  BY <1>3, <1>5, JobSteps
<1>6. ASSUME NEW j \in Logins, NEW c \in Codes, startEnrolment(j, c) PROVE WaitingIsWorkedOn'
  BY <1>6 DEF startEnrolment, Inv, TypeOK, Job, Working
<1>7. ASSUME NEW j \in Logins, startEnrolmentLost(j) PROVE WaitingIsWorkedOn'
  <2>1. \A i \in Logins : Working(i) => Working(i)' /\ job'[i].code = job[i].code
    BY <1>7 DEF startEnrolmentLost, Inv, TypeOK, Job, Working
  <2> QED
    BY <1>7, <1>inv, <2>1 DEF startEnrolmentLost, agentVars
<1>8. ASSUME NEW j \in Logins, awaitApproval(j) PROVE WaitingIsWorkedOn'
  BY <1>3, <1>4, <1>6, <1>7, <1>8, JobSteps DEF awaitApproval
<1> QED
  BY <1>1, <1>2, <1>5, <1>8, OtherSteps

(* A poll keeps its code, a goroutine what it needs for its next step. *)
LEMMA NextPoints == Inv /\ [Next]_vars => PointsOK'
<1> SUFFICES ASSUME Inv, [Next]_vars PROVE PointsOK'
  OBVIOUS
<1> DEFINE PollsOK == \A r \in Reqs :
             /\ poll[r].at # "idle" => poll[r].code \in Codes
             /\ poll[r].at = "granted" => poll[r].token \in Tokens
           JobsOK == \A j \in Logins :
             /\ Working(j) => job[j].code \in Codes
             /\ job[j].at = "awaiting" => job[j].req \in Reqs
             /\ job[j].at = "enrol" => job[j].token \in Tokens
<1>inv. PollsOK /\ JobsOK
  BY DEF Inv, PointsOK
<1>1. PollsOK'
  <2> USE DEF Inv, TypeOK, Poll, serverVars, agentVars
  <2>1. ASSUME NEW j \in Logins, NEW r \in Reqs, pollApproved(j, r) PROVE PollsOK'
    BY <2>1, <1>inv DEF pollApproved, Working
  <2>2. ASSUME NEW j \in Logins, pollAnswered(j) PROVE PollsOK'
    BY <2>2, <1>inv DEF pollAnswered, NoPoll
  <2>3. ASSUME NEW r \in Reqs, NEW k \in Tokens, pollConsume(r, k) PROVE PollsOK'
    BY <2>3, <1>inv DEF pollConsume, Mint
  <2>4. ASSUME NEW r \in Reqs, pollGone(r) \/ pollDropped(r) PROVE PollsOK'
    BY <2>4, <1>inv DEF pollGone, pollDropped, NoPoll
  <2>5. CASE UNCHANGED poll
    BY <2>5, <1>inv
  <2> HIDE DEF PollsOK
  <2>6. ASSUME NEW j \in Logins, awaitApproval(j) PROVE PollsOK'
    BY <2>1, <2>2, <2>5, <2>6
    DEF awaitApproval, startEnrolment, startEnrolmentLost, pollRefused, pollLost, loginMaxWait,
        enrolAccepted, enrolFails, syncApps, syncAppsFails, snapshot, saveState, saveStateFails
  <2> QED
    BY <2>3, <2>4, <2>5, <2>6
    DEF Next, vars, answerEnrolment, CodeExpires, TokenExpires, startLogin, checkWaiting,
        pollEnrolment, logout, forgetAccount, forgetSnapshot, forgetSave, Restart
<1>2. JobsOK'
  <2> USE <1>inv
  <2>1. CASE NotJobs
    BY <2>1 DEF NotJobs, Working
  <2>2. CASE Restart
    BY <2>2 DEF Restart, NoJob, Working
  <2>3. ASSUME NEW j \in Logins, MovesOn(j),
               Working(j)' => Working(j),
               job'[j].at = "awaiting" => job'[j].req \in Reqs,
               job'[j].at = "enrol" => job'[j].token \in Tokens
        PROVE  JobsOK'
    BY <2>3 DEF MovesOn, Working
  <2>4. ASSUME NEW j \in Logins, Leaves(j) PROVE JobsOK'
    BY <2>4 DEF Leaves, Working
  <2>5. ASSUME NEW j \in Logins, startLogin(j) \/ checkWaiting(j) PROVE JobsOK'
    BY <2>5, <2>3, JobSteps DEF Working
  <2>6. ASSUME NEW j \in Logins, NEW c \in Codes, startEnrolment(j, c) PROVE JobsOK'
    BY <2>6 DEF startEnrolment, Inv, TypeOK, Job, Working
  <2>7. ASSUME NEW j \in Logins, startEnrolmentLost(j) PROVE JobsOK'
    BY <2>7 DEF startEnrolmentLost, Inv, TypeOK, Job, Working
  <2>8. ASSUME NEW j \in Logins, NEW r \in Reqs, pollApproved(j, r) PROVE JobsOK'
    <3>1. Working(j)
      BY <2>8 DEF pollApproved, Working
    <3> QED
      BY <2>3, <2>8, <3>1, JobSteps
  <2>9. ASSUME NEW j \in Logins, pollAnswered(j) PROVE JobsOK'
    <3>1. Working(j)
      BY <2>9 DEF pollAnswered, Working
    <3> QED
      BY <2>3, <2>4, <2>9, <3>1, JobSteps
  <2>10. ASSUME NEW j \in Logins, pollLost(j) \/ enrolAccepted(j) \/ syncApps(j) \/ snapshot(j)
         PROVE  JobsOK'
    <3>1. Working(j)
      BY <2>10 DEF pollLost, enrolAccepted, syncApps, snapshot, Working
    <3>2. MovesOn(j) /\ job'[j].at \in {"polling", "sync", "snapshot", "save"}
      BY <2>10, JobSteps
    <3> QED
      BY <2>3, <3>1, <3>2
  <2> HIDE DEF JobsOK
  <2>11. ASSUME NEW j \in Logins, awaitApproval(j) PROVE JobsOK'
    BY <2>4, <2>6, <2>7, <2>8, <2>9, <2>10, <2>11, JobSteps DEF awaitApproval
  <2> QED
    BY <2>1, <2>2, <2>5, <2>11, OtherSteps
<1> QED
  BY <1>1, <1>2 DEF PointsOK, Working

(* What a step may do to a code: an answer stays what it is, and a code    *)
(* that is spent stays spent.                                              *)
CodesKeep ==
  \A c \in Codes :
    /\ code[c].status = "approved" => code'[c].status = "approved" /\ code'[c].by = code[c].by
    /\ code[c].used => code'[c].used

(* What a step other than a mint does to a token, and what it does to the  *)
(* bindings: a token that is minted stays so and remembers where from.     *)
TokensKeep ==
  \A k \in Tokens :
    /\ token'[k].from = token[k].from /\ token'[k].acct = token[k].acct
    /\ token'[k].state = "unminted" <=> token[k].state = "unminted"
    /\ token[k].state = "used" => token'[k].state = "used"

BindingsKeep ==
  \/ bound' \subseteq bound
  \/ \E k \in Tokens : token[k].state # "unminted" /\ bound' = bound \cup {token[k].acct}

(* The guard of pollConsume and its mint are one transaction, so the code  *)
(* it spends has no token yet.                                             *)
LEMMA MintSteps ==
  ASSUME Inv, NEW r \in Reqs, NEW k \in Tokens, pollConsume(r, k)
  PROVE  /\ CodesKeep /\ AnsweredBy' /\ MintedFrom' /\ OneMinted'
         /\ \A m \in Tokens : token[m].state = "used" => token'[m].state = "used"
<1> DEFINE c == poll[r].code
<1>0. /\ code \in [Codes -> Code] /\ token \in [Tokens -> Token]
      /\ AnsweredBy /\ MintedFrom /\ OneMinted
  BY DEF Inv, TypeOK
<1>1. c \in Codes /\ Approved(c)
  BY DEF pollConsume, Inv, PointsOK
<1>2. code' = [code EXCEPT ![c].used = TRUE]
  BY DEF pollConsume, Mint
<1>3. token' = [token EXCEPT ![k] = [acct |-> code[c].by, from |-> c, state |-> "fresh"]]
  BY DEF pollConsume, Mint
<1>4. token[k].state = "unminted"
  BY DEF pollConsume, Mint
<1>5. ~code[c].used /\ code[c].status = "approved"
  BY <1>1 DEF Approved, Open
<1> HIDE DEF c
<1>6. \A d \in Codes : /\ code'[d].status = code[d].status /\ code'[d].by = code[d].by
                       /\ d = c \/ code[d].used => code'[d].used
  BY <1>0, <1>1, <1>2 DEF Code
<1>7. CodesKeep /\ AnsweredBy'
  BY <1>0, <1>6 DEF CodesKeep, AnsweredBy
<1>8. \A m \in Tokens : token[m].from # c
  BY <1>0, <1>1, <1>5, EnrolmentAssumption DEF MintedFrom
<1>9. MintedFrom'
  <2> SUFFICES ASSUME NEW m \in Tokens
               PROVE  IF token'[m].state = "unminted" THEN token'[m].from = None
                      ELSE /\ token'[m].from \in Codes
                           /\ code'[token'[m].from].status = "approved"
                           /\ code'[token'[m].from].used
                           /\ code'[token'[m].from].by = token'[m].acct
    BY DEF MintedFrom
  <2>1. CASE m = k
    BY <1>0, <1>1, <1>3, <1>5, <1>6, <2>1
  <2>2. CASE m # k
    <3>1. token'[m] = token[m]
      BY <1>0, <1>3, <2>2
    <3>2. IF token[m].state = "unminted" THEN token[m].from = None
          ELSE /\ token[m].from \in Codes
               /\ code[token[m].from].status = "approved"
               /\ code[token[m].from].used
               /\ code[token[m].from].by = token[m].acct
      BY <1>0 DEF MintedFrom
    <3> QED
      BY <1>6, <3>1, <3>2
  <2> QED
    BY <2>1, <2>2
<1>10. OneMinted'
  <2>1. \A m \in Tokens : token'[m].from = IF m = k THEN c ELSE token[m].from
    BY <1>0, <1>3
  <2> QED
    BY <1>0, <1>1, <1>8, <2>1, EnrolmentAssumption DEF OneMinted
<1>11. \A m \in Tokens : token[m].state = "used" => token'[m].state = "used"
  BY <1>0, <1>3, <1>4
<1> QED
  BY <1>7, <1>9, <1>10, <1>11

(* Consuming a token. *)
LEMMA AcceptSteps ==
  ASSUME Inv, NEW k \in Tokens, Accept(k)
  PROVE  TokensKeep /\ BindingsKeep /\ token'[k].state = "used"
BY DEF Accept, TokensKeep, BindingsKeep, Inv, TypeOK, Token

(* Every other step of the server. *)
LEMMA ServerSteps ==
  ASSUME Inv, [Next]_vars
  PROVE  \/ CodesKeep /\ AnsweredBy' /\ TokensKeep /\ BindingsKeep
         \/ UNCHANGED bound /\ \E r \in Reqs, k \in Tokens : pollConsume(r, k)
<1> USE DEF serverVars, agentVars
<1> DEFINE Quiet == CodesKeep /\ AnsweredBy' /\ TokensKeep /\ BindingsKeep
<1>inv. TypeOK /\ AnsweredBy
  BY DEF Inv
<1>1. UNCHANGED <<token, bound>> => TokensKeep /\ BindingsKeep
  BY DEF TokensKeep, BindingsKeep
<1>2. UNCHANGED code => CodesKeep /\ AnsweredBy'
  BY <1>inv DEF CodesKeep, AnsweredBy
<1>3. ASSUME NEW c \in Codes, code[c].status = "unminted",
             code' = [code EXCEPT ![c].status = "pending"]
      PROVE  CodesKeep /\ AnsweredBy'
  BY <1>3, <1>inv DEF CodesKeep, AnsweredBy, TypeOK, Code
<1>4. ASSUME NEW a \in Accts, NEW c \in Codes, NEW answer \in {"approved", "refused"},
             answerEnrolment(a, c, answer)
      PROVE  Quiet
  <2>1. CodesKeep /\ AnsweredBy'
    BY <1>4, <1>inv DEF answerEnrolment, CodesKeep, AnsweredBy, TypeOK, Code
  <2> QED
    BY <1>1, <1>4, <2>1 DEF answerEnrolment
<1>5. ASSUME NEW c \in Codes, CodeExpires(c) PROVE Quiet
  <2>1. CodesKeep /\ AnsweredBy'
    BY <1>5, <1>inv DEF CodeExpires, CodesKeep, AnsweredBy, TypeOK, Code
  <2> QED
    BY <1>1, <1>5, <2>1 DEF CodeExpires
<1>6. ASSUME NEW k \in Tokens, TokenExpires(k) PROVE Quiet
  <2>1. TokensKeep /\ BindingsKeep
    BY <1>6, <1>inv DEF TokenExpires, TokensKeep, BindingsKeep, TypeOK, Token
  <2> QED
    BY <1>2, <1>6, <2>1 DEF TokenExpires
<1>7. ASSUME NEW j \in Logins, NEW c \in Codes, startEnrolment(j, c) PROVE Quiet
  BY <1>1, <1>3, <1>7 DEF startEnrolment
<1>8. ASSUME NEW j \in Logins, startEnrolmentLost(j) PROVE Quiet
  BY <1>1, <1>2, <1>3, <1>8 DEF startEnrolmentLost
<1>9. ASSUME NEW j \in Logins, enrolAccepted(j) \/ enrolFails(j) PROVE Quiet
  <2>1. job[j].token \in Tokens
    BY <1>9 DEF Inv, PointsOK, enrolAccepted, enrolFails
  <2>2. TokensKeep /\ BindingsKeep
    BY <1>1, <1>9, <2>1, AcceptSteps DEF enrolAccepted, enrolFails
  <2> QED
    BY <1>2, <1>9, <2>2 DEF enrolAccepted, enrolFails
<1>10. ASSUME logout PROVE Quiet
  BY <1>2, <1>10 DEF logout, TokensKeep, BindingsKeep
<1>11. ASSUME code' = code, token' = token, bound' = bound PROVE Quiet
  BY <1>1, <1>2, <1>11
<1> HIDE DEF Quiet
<1>12. ASSUME NEW j \in Logins, awaitApproval(j) PROVE Quiet
  BY <1>7, <1>8, <1>9, <1>11, <1>12
  DEF awaitApproval, pollRefused, pollApproved, pollAnswered, pollLost, loginMaxWait, syncApps,
      syncAppsFails, snapshot, saveState, saveStateFails
<1> DEFINE Consumes == UNCHANGED bound /\ \E r \in Reqs, k \in Tokens : pollConsume(r, k)
<1>13. ASSUME NEW r \in Reqs, pollEnrolment(r) PROVE Quiet \/ Consumes
  <2>1. ASSUME NEW k \in Tokens, pollConsume(r, k) PROVE Consumes
    <3>1. UNCHANGED bound
      BY <2>1 DEF pollConsume
    <3> QED
      BY <2>1, <3>1
  <2>2. ASSUME pollGone(r) \/ pollDropped(r) PROVE Quiet
    BY <1>11, <2>2 DEF pollGone, pollDropped
  <2> HIDE DEF Consumes
  <2> QED
    BY <1>13, <2>1, <2>2 DEF pollEnrolment
<1> HIDE DEF Consumes
<1>14. ASSUME Next PROVE Quiet \/ Consumes
  <2>1. ASSUME NEW j \in Logins, startLogin(j) \/ checkWaiting(j) PROVE Quiet
    BY <1>11, <2>1 DEF startLogin, checkWaiting
  <2>2. ASSUME forgetAccount \/ forgetSnapshot \/ forgetSave \/ Restart PROVE Quiet
    BY <1>11, <2>2 DEF forgetAccount, forgetSnapshot, forgetSave, Restart
  <2> QED
    BY <1>4, <1>5, <1>6, <1>10, <1>12, <1>13, <1>14, <2>1, <2>2 DEF Next
<1>15. ASSUME UNCHANGED vars PROVE Quiet
  BY <1>11, <1>15 DEF vars
<1> QED
  BY <1>14, <1>15 DEF Quiet, Consumes

(* The codes, the tokens and the bindings they led to. *)
LEMMA NextCodes ==
  Inv /\ [Next]_vars => AnsweredBy' /\ MintedFrom' /\ OneMinted' /\ BoundByApproval'
<1> SUFFICES ASSUME Inv, [Next]_vars
             PROVE  AnsweredBy' /\ MintedFrom' /\ OneMinted' /\ BoundByApproval'
  OBVIOUS
<1>inv. MintedFrom /\ OneMinted /\ BoundByApproval
  BY DEF Inv
<1>1. ASSUME CodesKeep, bound' \subseteq bound PROVE BoundByApproval'
  BY <1>1, <1>inv DEF CodesKeep, BoundByApproval
<1>2. CASE CodesKeep /\ AnsweredBy' /\ TokensKeep /\ BindingsKeep
  <2>1. MintedFrom'
    BY <1>2, <1>inv DEF MintedFrom, CodesKeep, TokensKeep
  <2>2. OneMinted'
    BY <1>2, <1>inv DEF OneMinted, TokensKeep
  <2>3. ASSUME NEW k \in Tokens, token[k].state # "unminted",
               bound' = bound \cup {token[k].acct}
        PROVE  BoundByApproval'
    BY <1>2, <1>inv, <2>3 DEF BoundByApproval, MintedFrom, CodesKeep
  <2> QED
    BY <1>1, <1>2, <2>1, <2>2, <2>3 DEF BindingsKeep
<1>3. CASE UNCHANGED bound /\ \E r \in Reqs, k \in Tokens : pollConsume(r, k)
  BY <1>1, <1>3, MintSteps
<1> QED
  BY <1>2, <1>3, ServerSteps

(* A goroutine writes the account only after its own token was accepted,   *)
(* and every later copy is a copy of that.                                 *)
LEMMA NextAccepted == Inv /\ [Next]_vars => (SaysEnrolled => Accepted)'
<1> SUFFICES ASSUME Inv, [Next]_vars PROVE (SaysEnrolled => Accepted)'
  OBVIOUS
<1> USE DEF serverVars, agentVars
<1>typed. TypeOK
  BY DEF Inv
<1>1. Accepted => Accepted'
  BY ServerSteps, MintSteps DEF Accepted, TokensKeep
<1>2. SUFFICES ASSUME ~SaysEnrolled PROVE SaysEnrolled' => Accepted'
  BY <1>1 DEF Inv
<1>3. /\ ~enrolled /\ ~disk /\ ~out.saved
      /\ \A j \in Logins : ~job[j].saved /\ job[j].at \notin {"sync", "snapshot", "save"}
  BY <1>2 DEF SaysEnrolled
<1>4. ASSUME NEW j \in Logins, enrolAccepted(j) PROVE Accepted'
  <2>1. job[j].token \in Tokens
    BY <1>4 DEF Inv, PointsOK, enrolAccepted
  <2> QED
    BY <1>4, <2>1, AcceptSteps DEF enrolAccepted, Accepted
<1>5. ASSUME NEW j \in Logins,
             \A i \in Logins \ {j} : job'[i] = job[i],
             ~job'[j].saved, job'[j].at \notin {"sync", "snapshot", "save"},
             UNCHANGED <<enrolled, disk, out>>
      PROVE  ~SaysEnrolled'
  BY <1>3, <1>5 DEF SaysEnrolled
<1>6. ASSUME NEW j \in Logins, awaitApproval(j) PROVE SaysEnrolled' => Accepted'
  <2>1. ASSUME NEW c \in Codes, startEnrolment(j, c) PROVE ~SaysEnrolled'
    BY <1>3, <1>5, <1>typed, <2>1 DEF startEnrolment, TypeOK, Job
  <2>2. CASE startEnrolmentLost(j)
    BY <1>3, <1>5, <1>typed, <2>2 DEF startEnrolmentLost, TypeOK, Job
  <2>3. CASE pollRefused(j) \/ loginMaxWait(j) \/ enrolFails(j)
    <3>1. Leaves(j)
      BY <2>3, JobSteps
    <3> QED
      BY <1>5, <2>3, <3>1 DEF Leaves, pollRefused, loginMaxWait, enrolFails
  <2>4. ASSUME NEW r \in Reqs, pollApproved(j, r) PROVE ~SaysEnrolled'
    <3>1. MovesOn(j) /\ job'[j].at = "awaiting" /\ ~job'[j].saved
      BY <1>3, <2>4, JobSteps
    <3> QED
      BY <1>5, <2>4, <3>1 DEF MovesOn, pollApproved
  <2>5. CASE pollAnswered(j)
    <3>1. (Leaves(j) \/ MovesOn(j)) /\ job'[j].at \in {"enrol", "ended"} /\ ~job'[j].saved
      BY <1>3, <2>5, JobSteps DEF Leaves
    <3> QED
      BY <1>5, <2>5, <3>1 DEF MovesOn, Leaves, pollAnswered
  <2>6. CASE pollLost(j)
    <3>1. MovesOn(j) /\ job'[j].at = "polling" /\ ~job'[j].saved
      BY <1>3, <2>6, JobSteps
    <3> QED
      BY <1>5, <2>6, <3>1 DEF MovesOn, pollLost
  <2> QED
    BY <1>3, <1>4, <1>6, <2>1, <2>2, <2>3, <2>4, <2>5, <2>6
    DEF awaitApproval, syncApps, syncAppsFails, snapshot, saveState, saveStateFails
<1>7. ASSUME NEW j \in Logins, startLogin(j) \/ checkWaiting(j) PROVE ~SaysEnrolled'
  <2>1. MovesOn(j) /\ ~Working(j)' /\ ~job'[j].saved
    BY <1>3, <1>7, JobSteps
  <2> QED
    BY <1>5, <1>7, <2>1 DEF MovesOn, Working, startLogin, checkWaiting
<1>8. CASE Restart
  BY <1>3, <1>8 DEF Restart, SaysEnrolled, NoJob, NoLogout
<1>9. CASE NotJobs
  <2>1. ASSUME ~enrolled', ~disk', ~out'.saved PROVE ~SaysEnrolled'
    BY <1>3, <1>9, <2>1 DEF NotJobs, SaysEnrolled
  <2>2. CASE logout \/ forgetAccount
    BY <1>3, <1>typed, <2>1, <2>2 DEF logout, forgetAccount, TypeOK, Logout
  <2>3. CASE forgetSnapshot \/ forgetSave
    BY <1>3, <2>1, <2>3 DEF forgetSnapshot, forgetSave, NoLogout
  <2>4. CASE UNCHANGED <<enrolled, disk, out>>
    BY <1>3, <2>1, <2>4
  <2> QED
    BY <1>6, <1>7, <1>8, <2>2, <2>3, <2>4
    DEF Next, vars, answerEnrolment, CodeExpires, TokenExpires, pollEnrolment, pollConsume,
        pollGone, pollDropped
<1> QED
  BY <1>6, <1>7, <1>8, <1>9, OtherSteps

(* The inductive invariant. *)
LEMMA SpecInv == Spec => []Inv
<1>1. Inv /\ [Next]_vars => Inv'
  BY NextTyped, NextPoints, NextCodes, NextWaiting, NextAccepted DEF Inv
<1> QED
  BY <1>1, InitInv, PTL DEF Spec

(* Codes, tokens, polls, goroutines and the agent's state stay in their    *)
(* types.                                                                  *)
THEOREM EnrolmentTyped == Spec => []TypeOK
BY SpecInv, PTL DEF Inv

(* enrol.go pollEnrolment: however many polls of one code are served at    *)
(* once, no code is worth two enrolment tokens.                            *)
THEOREM OneToken == Spec => []OneTokenPerCode
<1>1. Inv => OneTokenPerCode
  <2> SUFFICES ASSUME Inv, NEW c \in Codes
               PROVE  Cardinality({k \in Tokens : token[k].from = c}) <= 1
    BY DEF OneTokenPerCode
  <2> DEFINE S == {k \in Tokens : token[k].from = c}
  <2>1. CASE S = {}
    BY <2>1, FS_EmptySet
  <2>2. ASSUME NEW k \in S PROVE Cardinality(S) <= 1
    <3>1. S = {k}
      BY EnrolmentAssumption DEF Inv, OneMinted
    <3>2. Cardinality({k}) = 1
      BY FS_Singleton
    <3> HIDE DEF S
    <3> QED
      BY <3>1, <3>2
  <2> QED
    BY <2>1, <2>2
<1> QED
  BY <1>1, SpecInv, PTL

(* enrol.go enrolDevice: an account gets the PC only by approving one of   *)
(* its codes, whatever is lost or repeated in between.                     *)
THEOREM BoundApproved == Spec => []BoundByApproval
BY SpecInv, PTL DEF Inv

(* login.go startLogin: the flag that refuses a second sign in never       *)
(* outlives the goroutine that would clear it.                             *)
THEOREM WaitingWorked == Spec => []WaitingIsWorkedOn
BY SpecInv, PTL DEF Inv

(* enrol.go: memory and agent.json name a server only after it accepted a  *)
(* token, through every failed write, logout and restart.                  *)
THEOREM AcceptedFirst == Spec => []WrittenAfterAccepted
<1>1. Inv => WrittenAfterAccepted
  BY DEF Inv, SaysEnrolled, Accepted, WrittenAfterAccepted
<1> QED
  BY <1>1, SpecInv, PTL

-----------------------------------------------------------------------------
(* The refinement of DeviceGrant. *)

LEMMA InitGrant == Init => Grant!GrantInit
BY DEF Init, Grant!GrantInit, Approval, Refused, Redeemed

(* Codes whose answers stay, and tokens of which none is consumed, are the *)
(* same to DeviceGrant.                                                    *)
LEMMA SameAnswers ==
  ASSUME \A c \in Codes :
           /\ code'[c].status = "approved" <=> code[c].status = "approved"
           /\ code'[c].status = "refused" <=> code[c].status = "refused"
           /\ code[c].status = "approved" => code'[c].by = code[c].by
  PROVE  Approval' = Approval /\ Refused' = Refused
BY DEF Approval, Refused

LEMMA SameTokens ==
  ASSUME \A k \in Tokens :
           /\ token'[k].state = "used" <=> token[k].state = "used"
           /\ token[k].state = "used" => token'[k].from = token[k].from
  PROVE  Redeemed' = Redeemed
BY DEF Redeemed

(* A token that is accepted redeems its code: the code was approved by the *)
(* account the token names, and no other token of it was ever accepted.    *)
LEMMA AcceptRedeems ==
  ASSUME Inv, NEW k \in Tokens, Accept(k), UNCHANGED code
  PROVE  Grant!GrantNext
<1> DEFINE c == token[k].from
<1>0. token \in [Tokens -> Token] /\ MintedFrom /\ OneMinted /\ AnsweredBy
  BY DEF Inv, TypeOK
<1>1. token[k].state = "fresh" /\ bound' = bound \cup {token[k].acct}
      /\ token' = [token EXCEPT ![k] = [token[k] EXCEPT !.state = "used"]]
  BY DEF Accept
<1>2. /\ c \in Codes /\ code[c].status = "approved" /\ code[c].by = token[k].acct
      /\ token[k].acct \in Accts
  BY <1>0, <1>1 DEF MintedFrom, AnsweredBy
<1>3. /\ \A m \in Tokens : token'[m].from = token[m].from
      /\ \A m \in Tokens : token'[m].state = "used" <=> m = k \/ token[m].state = "used"
  BY <1>0, <1>1 DEF Token
<1> HIDE DEF c
<1>4. Approval[c] = token[k].acct /\ Approval[c] # None
  BY <1>2, EnrolmentAssumption DEF Approval
<1>5. Approval' = Approval /\ Refused' = Refused
  BY SameAnswers
<1>6. c \notin Redeemed
  <2> SUFFICES ASSUME NEW m \in Tokens, token[m].from = c, token[m].state = "used" PROVE FALSE
    BY DEF Redeemed
  <2>1. c # None
    BY <1>2, EnrolmentAssumption
  <2>2. m = k
    BY <1>0, <2>1 DEF OneMinted, c
  <2> QED
    BY <1>1, <2>2
<1>7. Redeemed' = Redeemed \cup {c}
  BY <1>2, <1>3 DEF Redeemed, c
<1>8. Grant!Redeem(c)
  BY <1>1, <1>4, <1>5, <1>6, <1>7 DEF Grant!Redeem
<1> QED
  BY <1>2, <1>8 DEF Grant!GrantNext

(* Every step of the server, the agent and the people who answer is a step *)
(* of DeviceGrant, or nothing to it.                                       *)
LEMMA NextGrant == Inv /\ [Next]_vars => [Grant!GrantNext]_(Grant!grantVars)
<1> SUFFICES ASSUME Inv, [Next]_vars PROVE [Grant!GrantNext]_(Grant!grantVars)
  OBVIOUS
<1> DEFINE Same == UNCHANGED Grant!grantVars
           Goal == Grant!GrantNext \/ Same
<1>inv. TypeOK /\ code \in [Codes -> Code] /\ token \in [Tokens -> Token]
  BY DEF Inv, TypeOK
<1>1. ASSUME Approval' = Approval, Refused' = Refused, Redeemed' = Redeemed, bound' = bound
      PROVE  Same
  BY <1>1 DEF Grant!grantVars
<1>2. ASSUME code' = code PROVE Approval' = Approval /\ Refused' = Refused
  BY <1>2, SameAnswers
<1>3. ASSUME token' = token PROVE Redeemed' = Redeemed
  BY <1>3, SameTokens
<1>4. ASSUME NEW c \in Codes, code[c].status = "unminted",
             code' = [code EXCEPT ![c].status = "pending"]
      PROVE  Approval' = Approval /\ Refused' = Refused
  <2>1. \A d \in Codes : IF d = c THEN code'[d].status = "pending" ELSE code'[d] = code[d]
    BY <1>4, <1>inv DEF Code
  <2> QED
    BY <1>4, <2>1, SameAnswers
<1>5. ASSUME NEW a \in Accts, NEW c \in Codes, NEW answer \in {"approved", "refused"},
             answerEnrolment(a, c, answer)
      PROVE  Grant!GrantNext
  <2>1. /\ code[c].status = "pending" /\ token' = token /\ bound' = bound
        /\ code' = [code EXCEPT ![c].status = answer, ![c].by = a]
    BY <1>5 DEF answerEnrolment
  <2>2. \A d \in Codes : IF d = c THEN code'[d].status = answer /\ code'[d].by = a
                                  ELSE code'[d] = code[d]
    BY <1>inv, <2>1 DEF Code
  <2>3. Approval[c] = None /\ c \notin Refused
    BY <2>1 DEF Approval, Refused
  <2>4. CASE answer = "approved"
    <3>1. \A d \in Codes : Approval'[d] = IF d = c THEN a ELSE Approval[d]
      BY <2>2, <2>4 DEF Approval
    <3>2. \A d \in Codes : d \in Refused' <=> d \in Refused
      BY <2>2, <2>3, <2>4 DEF Refused
    <3>3. Refused' = Refused
      BY <3>2 DEF Refused
    <3>4. Approval' = [Approval EXCEPT ![c] = a]
      BY <3>1 DEF Approval
    <3>5. Grant!Approve(c, a)
      BY <1>3, <2>1, <2>3, <3>3, <3>4 DEF Grant!Approve, Grant!Unanswered
    <3> QED
      BY <3>5 DEF Grant!GrantNext
  <2>5. CASE answer = "refused"
    <3>1. \A d \in Codes : Approval'[d] = Approval[d]
      BY <2>2, <2>3, <2>5 DEF Approval
    <3>2. \A d \in Codes : d \in Refused' <=> d \in Refused \/ d = c
      BY <2>2, <2>5 DEF Refused
    <3>3. Refused' = Refused \cup {c}
      BY <3>2 DEF Refused
    <3>4. Approval' = Approval
      BY <3>1 DEF Approval
    <3>5. Grant!Refuse(c)
      BY <1>3, <2>1, <2>3, <3>3, <3>4 DEF Grant!Refuse, Grant!Unanswered
    <3> QED
      BY <3>5 DEF Grant!GrantNext
  <2> QED
    BY <2>4, <2>5
<1>6. ASSUME NEW c \in Codes, CodeExpires(c) PROVE Same
  <2>1. \A d \in Codes : code'[d].status = code[d].status /\ code'[d].by = code[d].by
    BY <1>6, <1>inv DEF CodeExpires, Code
  <2>2. Approval' = Approval /\ Refused' = Refused
    BY <2>1, SameAnswers
  <2> QED
    BY <1>1, <1>3, <1>6, <2>2 DEF CodeExpires
<1>7. ASSUME NEW k \in Tokens, TokenExpires(k) PROVE Same
  <2>1. \A m \in Tokens : /\ token'[m].from = token[m].from
                          /\ token'[m].state = "used" <=> token[m].state = "used"
    BY <1>7, <1>inv DEF TokenExpires, Token
  <2>2. Redeemed' = Redeemed
    BY <2>1, SameTokens
  <2> QED
    BY <1>1, <1>2, <1>7, <2>2 DEF TokenExpires
<1>8. ASSUME NEW j \in Logins, NEW c \in Codes, startEnrolment(j, c) PROVE Same
  BY <1>1, <1>3, <1>4, <1>8 DEF startEnrolment
<1>9. ASSUME NEW j \in Logins, startEnrolmentLost(j) PROVE Same
  BY <1>1, <1>2, <1>3, <1>4, <1>9 DEF startEnrolmentLost
<1>10. ASSUME NEW j \in Logins, enrolAccepted(j) \/ enrolFails(j) PROVE Goal
  <2>1. job[j].token \in Tokens /\ code' = code
    BY <1>10 DEF Inv, PointsOK, enrolAccepted, enrolFails
  <2>2. CASE Accept(job[j].token)
    BY <2>1, <2>2, AcceptRedeems
  <2>3. CASE UNCHANGED <<token, bound>>
    BY <1>1, <1>2, <1>3, <2>1, <2>3
  <2> QED
    BY <1>10, <2>2, <2>3 DEF enrolAccepted, enrolFails
<1>11. ASSUME NEW r \in Reqs, NEW k \in Tokens, pollConsume(r, k) PROVE Same
  <2> DEFINE c == poll[r].code
  <2>1. /\ c \in Codes /\ token[k].state = "unminted" /\ bound' = bound
        /\ code' = [code EXCEPT ![c].used = TRUE]
        /\ token' = [token EXCEPT ![k] = [acct |-> code[c].by, from |-> c, state |-> "fresh"]]
    BY <1>11 DEF pollConsume, Mint, Inv, PointsOK
  <2> HIDE DEF c
  <2>2. \A d \in Codes : code'[d].status = code[d].status /\ code'[d].by = code[d].by
    BY <1>inv, <2>1 DEF Code
  <2>3. \A m \in Tokens : IF m = k THEN token'[m].state = "fresh" ELSE token'[m] = token[m]
    BY <1>inv, <2>1
  <2>4. Approval' = Approval /\ Refused' = Refused
    BY <2>2, SameAnswers
  <2>5. Redeemed' = Redeemed
    BY <2>1, <2>3, SameTokens
  <2> QED
    BY <1>1, <2>1, <2>4, <2>5
<1>12. ASSUME logout PROVE Grant!GrantNext
  <2>1. Grant!Release
    BY <1>2, <1>3, <1>12 DEF logout, Grant!Release
  <2> QED
    BY <2>1 DEF Grant!GrantNext
<1>13. ASSUME code' = code, token' = token, bound' = bound PROVE Same
  BY <1>1, <1>2, <1>3, <1>13
<1> HIDE DEF Same
<1>14. ASSUME NEW j \in Logins, awaitApproval(j) PROVE Goal
  BY <1>8, <1>9, <1>10, <1>13, <1>14
  DEF awaitApproval, pollRefused, pollApproved, pollAnswered, pollLost, loginMaxWait, syncApps,
      syncAppsFails, snapshot, saveState, saveStateFails, serverVars
<1>15. ASSUME NEW r \in Reqs, pollEnrolment(r) PROVE Goal
  BY <1>11, <1>13, <1>15 DEF pollEnrolment, pollGone, pollDropped, serverVars
<1>16. ASSUME NEW j \in Logins, startLogin(j) \/ checkWaiting(j) PROVE Goal
  BY <1>13, <1>16 DEF startLogin, checkWaiting, serverVars
<1>17. ASSUME forgetAccount \/ forgetSnapshot \/ forgetSave \/ Restart PROVE Goal
  BY <1>13, <1>17 DEF forgetAccount, forgetSnapshot, forgetSave, Restart, serverVars
<1>18. ASSUME UNCHANGED vars PROVE Goal
  BY <1>13, <1>18 DEF vars
<1>19. Goal
  BY <1>5, <1>6, <1>7, <1>12, <1>14, <1>15, <1>16, <1>17, <1>18 DEF Next
<1> QED
  BY <1>19 DEF Same

(* enrol.go and login.go implement DeviceGrant: whatever polls, lost       *)
(* answers, late goroutines and restarts do, a code is answered once, an   *)
(* account gets the PC only through a code it approved, and a code gives   *)
(* the PC away once.                                                       *)
THEOREM EnrolmentIsGrant == Spec => ImplementsGrant
<1>1. Spec => [][Grant!GrantNext]_(Grant!grantVars)
  BY SpecInv, NextGrant, PTL DEF Spec
<1>2. Spec => Grant!GrantInit
  BY InitGrant DEF Spec
<1> QED
  BY <1>1, <1>2, PTL DEF ImplementsGrant, Grant!GrantSpec
=============================================================================
