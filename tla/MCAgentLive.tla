--------------------------- MODULE MCAgentLive -----------------------------
(* The loops of the agent that must never come to rest for good, in one    *)
(* instance for TLC: they share no state here, and part says which of them *)
(* a behaviour is about while the others stand still.                      *)
EXTENDS ShareRegistry, AgentTunnel, ReportQueue, LanAdvert

VARIABLE part

CONSTANTS n1, p1, p2, t1, t2, s1, s2, w1, w2, a1, a2

MCShares == {n1}
MCPorts == {p1, p2}
MCCallers == {t1, t2}
MCServers == {s1, s2}
MCNetworks == {w1, w2}
MCAppLists == {a1, a2}

agentVars == <<registryVars, tunnelVars, reportVars, lanVars, part>>

(* A component that stands still starts in one of its states only.         *)
AgentInit ==
  /\ RegistryInit /\ TunnelInit /\ ReportsInit /\ LanInit
  /\ part \in {"registry", "tunnel", "reports", "lan"}
  /\ part # "registry" => disk = Empty
  /\ net = w1 /\ shares = a1

Others(p) ==
  /\ p # "registry" => UNCHANGED registryVars
  /\ p # "tunnel" => UNCHANGED tunnelVars
  /\ p # "reports" => UNCHANGED reportVars
  /\ p # "lan" => UNCHANGED lanVars
  /\ UNCHANGED part

In(p, A) == part = p /\ A /\ Others(p)

AgentNext == \/ In("registry", RegistryNext) \/ In("tunnel", TunnelNext)
             \/ In("reports", ReportsNext) \/ In("lan", LanNext)

(* The fairness of each component, asked of the one that runs: part never  *)
(* changes, so that fairness of a disjunction over the components is       *)
(* fairness of each in its own behaviours.                                 *)
AgentSpec ==
  /\ AgentInit /\ [][AgentNext]_agentVars
  /\ WF_agentVars(\/ In("registry", RegistryProgress) \/ In("tunnel", TunnelLoop)
                  \/ In("reports", FlushLoop) \/ In("lan", keepAdvertised))
  /\ WF_agentVars(In("tunnel", signOutForget) \/ In("lan", retryDue))
  /\ \A s \in Servers : WF_agentVars(In("tunnel", signInWritten(s)))
  /\ SF_agentVars(\/ In("tunnel", openTunnelCheck) \/ In("reports", receiveReports)
                  \/ In("lan", advertise))
  /\ SF_agentVars(In("tunnel", openTunnelRegister) \/ In("reports", flushPosted))
  /\ SF_agentVars(In("tunnel", AnswerArrives))

(* Every variable of the four modules keeps its type; in particular the    *)
(* report file never exceeds its cap (reports.go:82-90).                   *)
AgentTypeOK ==
  RegistryTypeOK /\ AgentTunnelTypeOK /\ ReportsTypeOK /\ LanTypeOK
=============================================================================
