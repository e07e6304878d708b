---------------------------- MODULE ServicePlan ----------------------------
(***************************************************************************)
(* The agent as a user-level service (device/agent/service.go, menubar.go, *)
(* menubar_items.go): install, uninstall, Quit in the tray menu and        *)
(* opening the app again are lists of commands for launchd, for the        *)
(* Windows task scheduler or for systemd, run one by one.  Quit is run by  *)
(* the tray, which one of its own commands may stop.  The schedulers are   *)
(* modelled by what their commands do to a job.                            *)
(***************************************************************************)
EXTENDS Naturals, Sequences

CONSTANT MaxPlans  \* bound: plans that are started

ASSUME PlanAssumption == MaxPlans \in Nat

VARIABLES
  goos,
  other,  \* another user's agent answers on the port
  files,  \* the manifests are on disk
  job,    \* each job: known to the scheduler, started at logon, running
  plan,   \* what is left to run: of the person at a terminal, of the tray's Quit
  doing,  \* what the person is doing: "nothing", "install", "uninstall", "open"
  quit,   \* "no", "asked", "done": Quit, while nobody opens the app again and
          \* no command of it fails
  plans

serviceVars == <<goos, other, files, job, plan, doing, quit, plans>>

Jobs == {"agent", "tray"}
Job == [known : BOOLEAN, enabled : BOOLEAN, running : {"no", "yes", "crashed"}]

ServiceTypeOK ==
  /\ goos \in {"darwin", "windows", "linux"} /\ other \in BOOLEAN /\ files \in BOOLEAN
  /\ job \in [Jobs -> Job]
  /\ \A j \in Jobs : job[j].running = "yes" => job[j].known
  /\ DOMAIN plan = {"person", "tray"}
  /\ plan["tray"] # <<>> => job["tray"].running = "yes"
  /\ doing \in {"nothing", "install", "uninstall", "open"}
  /\ quit \in {"no", "asked", "done"}
  /\ plans \in 0..MaxPlans

NoJob == [known |-> FALSE, enabled |-> FALSE, running |-> "no"]

ServiceInit ==
  /\ goos \in {"darwin", "windows", "linux"} /\ other \in BOOLEAN
  /\ files = FALSE
  /\ job = [j \in Jobs |-> NoJob]
  /\ plan = [p \in {"person", "tray"} |-> <<>>]
  /\ doing = "nothing" /\ quit = "no" /\ plans = 0

-----------------------------------------------------------------------------
(* The plans.                                                              *)

Must(do, j) == [do |-> do, job |-> j, optional |-> FALSE]
May(do, j) == [do |-> do, job |-> j, optional |-> TRUE]

darwinPlan ==
  [install   |-> <<May("unload", "agent"), Must("load", "agent"),
                   May("unload", "tray"), May("load", "tray")>>,
   uninstall |-> <<May("unload", "agent"), May("unload", "tray")>>,
   quit      |-> <<May("unload", "agent"), May("unload", "tray")>>,
   reopen    |-> <<May("load", "agent"), May("load", "tray")>>]

(* loginctl and daemon-reload change neither job.                          *)
linuxPlan ==
  [install   |-> <<Must("load", "agent")>>,
   uninstall |-> <<May("unload", "agent")>>,
   quit      |-> <<>>,
   reopen    |-> <<>>]

windowsPlan ==
  [install   |-> <<Must("create", "agent"), Must("create", "tray"),
                   Must("run", "agent"), May("run", "tray")>>,
   uninstall |-> <<May("end", "agent"), May("delete", "agent"),
                   May("end", "tray"), May("delete", "tray")>>,
   quit      |-> <<May("end", "agent"), May("disable", "agent"), May("disable", "tray")>>,
   reopen    |-> <<Must("enable", "agent"), May("enable", "tray"),
                   Must("run", "agent"), May("run", "tray")>>]

servicePlanFor ==
  CASE goos = "darwin" -> darwinPlan
    [] goos = "linux" -> linuxPlan
    [] goos = "windows" -> windowsPlan

(* What a command does to a job, by the scheduler's own rules; the -w of   *)
(* launchctl writes the switch down, and ending a task is taken to call    *)
(* off a restart that is due.                                              *)
Effect(c, b) ==
  CASE c.do = "load"    -> [known |-> TRUE, enabled |-> TRUE, running |-> "yes"]
    [] c.do = "unload"  -> [b EXCEPT !.enabled = FALSE, !.running = "no"]
    [] c.do = "create"  -> [b EXCEPT !.known = TRUE, !.enabled = TRUE]
    [] c.do = "run"     -> [b EXCEPT !.running = "yes"]
    [] c.do = "end"     -> [b EXCEPT !.running = "no"]
    [] c.do = "delete"  -> NoJob
    [] c.do = "enable"  -> [b EXCEPT !.enabled = TRUE]
    [] c.do = "disable" -> [b EXCEPT !.enabled = FALSE]

(* Commands that the scheduler refuses.                                    *)
Refused(c) ==
  \/ c.do = "load" /\ ~files
  \/ c.do \in {"run", "end", "enable", "disable", "delete"} /\ ~job[c.job].known
  \/ c.do = "run" /\ ~job[c.job].enabled

-----------------------------------------------------------------------------
(* The tray is gone: what it was running ends there.                       *)
TrayGone(jobs) == jobs["tray"].running # "yes"

After(jobs, left) ==
  /\ job' = jobs
  /\ plan' = IF TrayGone(jobs) THEN [left EXCEPT !["tray"] = <<>>] ELSE left

(* Quit is over when the tray stops itself, and cut short when another     *)
(* stops it.                                                               *)
QuitAfter(p, jobs) ==
  IF quit # "asked" \/ ~TrayGone(jobs) THEN quit
  ELSE IF p = "tray" THEN "done" ELSE "no"

(* runPlan: one command that works.                                        *)
runPlan(p) ==
  /\ plan[p] # <<>> /\ ~Refused(Head(plan[p]))
  /\ LET c == Head(plan[p])
         jobs == [job EXCEPT ![c.job] = Effect(c, @)]
     IN /\ After(jobs, [plan EXCEPT ![p] = Tail(@)])
        /\ quit' = QuitAfter(p, jobs)
  /\ UNCHANGED <<goos, other, files, doing, plans>>

(* One that fails: the rest is run only when it was optional.  A refusal   *)
(* has nothing to stop; any other failure may leave the agent running.     *)
runPlanFails(p, refused) ==
  /\ plan[p] # <<>>
  /\ refused = Refused(Head(plan[p]))
  /\ plan' = [plan EXCEPT ![p] = IF Head(@).optional THEN Tail(@) ELSE <<>>]
  /\ quit' = IF p = "tray" /\ ~refused THEN "no" ELSE quit
  /\ UNCHANGED <<goos, other, files, job, doing, plans>>

StartPlan(what, cmds) ==
  /\ plans < MaxPlans /\ plans' = plans + 1
  /\ doing = "nothing" /\ plan["person"] = <<>>
  /\ doing' = what
  /\ plan' = [plan EXCEPT !["person"] = cmds]
  /\ UNCHANGED <<goos, other, job>>

installService ==
  /\ StartPlan("install", servicePlanFor.install)
  /\ files' = TRUE
  /\ quit' = "no"

uninstallService ==
  /\ StartPlan("uninstall", servicePlanFor.uninstall)
  /\ UNCHANGED <<files, quit>>

(* With this user's agent stopped, one that answers is another user's.     *)
openCommand ==
  /\ job["agent"].running = "yes" \/ ~other
  /\ StartPlan("open", IF files THEN servicePlanFor.reopen ELSE servicePlanFor.install)
  /\ files' = TRUE
  /\ quit' = "no"

planDone ==
  /\ doing # "nothing" /\ plan["person"] = <<>>
  /\ doing' = "nothing"
  /\ files' = (files /\ doing # "uninstall")
  /\ UNCHANGED <<goos, other, job, plan, quit, plans>>

quitTrayFirst ==
  /\ plans < MaxPlans /\ plans' = plans + 1
  /\ job["tray"].running = "yes" /\ quit # "asked" /\ plan["tray"] = <<>>
  /\ plan' = [plan EXCEPT !["tray"] =
                LET q == servicePlanFor.quit IN <<q[Len(q)]>> \o SubSeq(q, 1, Len(q) - 1)]
  /\ quit' = IF doing \in {"install", "open"} THEN "no" ELSE "asked"
  /\ UNCHANGED <<goos, other, files, job, doing>>

quitFromMenu ==
  /\ plans < MaxPlans /\ plans' = plans + 1
  /\ job["tray"].running = "yes" /\ quit # "asked" /\ plan["tray"] = <<>>
  /\ plan' = [plan EXCEPT !["tray"] = servicePlanFor.quit]
  /\ quit' = IF doing \in {"install", "open"} THEN "no" ELSE "asked"
  /\ UNCHANGED <<goos, other, files, job, doing>>

(* os.Exit(0) at the end of Quit.                                          *)
quitExits ==
  /\ quit = "asked" /\ plan["tray"] = <<>>
  /\ job' = [job EXCEPT !["tray"].running = "no"]
  /\ quit' = "done"
  /\ UNCHANGED <<goos, other, files, plan, doing, plans>>

-----------------------------------------------------------------------------
(* The agent's own job is kept alive, restarted on failure or always; the  *)
(* tray's is not.                                                          *)
agentCrashes ==
  /\ job["agent"].running = "yes"
  /\ job' = [job EXCEPT !["agent"].running = "crashed"]
  /\ UNCHANGED <<goos, other, files, plan, doing, quit, plans>>

KeepAlive ==
  /\ job["agent"].running = "crashed" /\ job["agent"].enabled
  /\ job' = [job EXCEPT !["agent"].running = "yes"]
  /\ UNCHANGED <<goos, other, files, plan, doing, quit, plans>>

(* The person logs on again: jobs that are switched on start, and what was *)
(* running a plan is gone.                                                 *)
RunAtLogon ==
  /\ job' = [j \in Jobs |-> [job[j] EXCEPT !.running =
               IF job[j].known /\ job[j].enabled /\ (goos = "darwin" => files) THEN "yes" ELSE "no"]]
  /\ plan' = [p \in {"person", "tray"} |-> <<>>]
  /\ doing' = "nothing"
  /\ quit' = IF quit = "asked" THEN "no" ELSE quit
  /\ UNCHANGED <<goos, other, files, plans>>

ServiceNext ==
  \/ installService \/ uninstallService \/ openCommand \/ planDone
  \/ quitFromMenu \/ quitExits
  \/ \E p \in {"person", "tray"} : runPlan(p) \/ \E r \in BOOLEAN : runPlanFails(p, r)
  \/ agentCrashes \/ KeepAlive \/ RunAtLogon

ServiceSpec == ServiceInit /\ [][ServiceNext]_serviceVars

-----------------------------------------------------------------------------
(* Properties                                                              *)

(* Quit stops sharing for good: once its commands have worked, the agent   *)
(* neither runs nor starts at a logon or after a crash until the app is    *)
(* opened or installed again, although the tray that runs the commands is  *)
(* stopped by one of them (service.go:49-52, menubar_items.go:25-36).      *)
QuitStaysQuit ==
  quit = "done" => job["agent"].running # "yes" /\ ~job["agent"].enabled
=============================================================================
