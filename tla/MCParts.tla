------------------------------ MODULE MCParts ------------------------------
(* Components that share no state, six of the control plane and four of    *)
(* the agent, in one instance for TLC: part says which of them a behaviour *)
(* is about while the others stand still.                                  *)
EXTENDS Accounts, Routing, AppSync, DeviceNonces, RateLimiter, Migrations,
        ShareRegistry, DeviceKey, ServicePlan, ZipShare, TLC

VARIABLE part

CONSTANTS r1, b1, b2, q1, q2, d1, d2, d3, k1, k2, i1, i2, n1, n2, p1, p2, t1, t2,
          c1, c2, c3, z1, z2, a1, a2, l1, l2

MCPeople == {n1, n2}
MCRemote == {r1}
MCApps == {b1, b2}
MCPushes == {q1, q2}
MCCopies == {d1, d2, d3}
MCClients == {k1, k2}
MCHits == {n1, n2, p1, p2}
MCInstances == {i1, i2}
MCShares == {n1, n2}
MCPorts == {p1, p2}
MCCallers == {t1, t2}
MCCommands == {c1, c2, c3}
MCRuns == {c1, c2}
MCZips == {z1, z2}
MCIds == {a1, a2}
MCPasswords == {p1, p2}
MCLinks == {l1, l2}
MCSessions == {n1, n2}
MCReqs == {t1, t2}
MCOps == {"signup", "signin", "signout", "verify", "reset", "delete", "operator", "expire"}

(* The parts share no state, so they may share their interchangeable       *)
(* values: one small group of permutations reduces several of them.        *)
Symmetry == Permutations(Shares) \cup Permutations(Ports) \cup Permutations(Callers)

(* Fresh account ids and mailed tokens come in one order; any other is the *)
(* same behaviour with the names exchanged.                                *)
DrawnInOrder ==
  /\ acct = a2 => a1 \in spent
  /\ links[l2].state # "unminted" => links[l1].state # "unminted"

partsVars == <<vars, routingVars, syncVars, nonceVars, limiterVars, migrationVars,
               registryVars, keyVars, serviceVars, zipVars, part>>

(* A component that stands still starts in one of its states only.         *)
PartsInit ==
  /\ Init /\ RoutingInit /\ SyncInit /\ NonceInit /\ LimiterInit /\ MigrationInit
  /\ RegistryInit /\ KeyInit /\ ServiceInit /\ ZipInit
  /\ part \in {"accounts", "routing", "sync", "nonces", "limiter", "migrations",
              "registry", "key", "service", "zip"}
  /\ part # "nonces" => stamp = 0
  /\ part # "limiter" => \A h \in Hits : hit[h].key = k1
  /\ part # "registry" => disk = Empty
  /\ part # "key" => keyring /\ locked
  /\ part # "service" => goos = "linux" /\ other
  /\ part # "zip" => hardLinks

Others(p) ==
  /\ p # "accounts" => UNCHANGED vars
  /\ p # "routing" => UNCHANGED routingVars
  /\ p # "sync" => UNCHANGED syncVars
  /\ p # "nonces" => UNCHANGED nonceVars
  /\ p # "limiter" => UNCHANGED limiterVars
  /\ p # "migrations" => UNCHANGED migrationVars
  /\ p # "registry" => UNCHANGED registryVars
  /\ p # "key" => UNCHANGED keyVars
  /\ p # "service" => UNCHANGED serviceVars
  /\ p # "zip" => UNCHANGED zipVars
  /\ UNCHANGED part

In(p, A) == part = p /\ A /\ Others(p)

PartsNext ==
  \/ In("accounts", Next)
  \/ In("routing", RoutingNext) \/ In("sync", SyncNext) \/ In("nonces", NonceNext)
  \/ In("limiter", LimiterNext) \/ In("migrations", MigrationNext)
  \/ In("registry", RegistryNext) \/ In("key", KeyNext)
  \/ In("service", ServiceNext) \/ In("zip", ZipNext)

PartsSpec == PartsInit /\ [][PartsNext]_partsVars

(* Every variable of the parts but Accounts (whose type invariant is       *)
(* TypeOK) keeps its type; in particular no                                *)
(* remote request leaves two samples (routing.go:47-60), the list of       *)
(* shares never exceeds maxApps (state.go:108-117), a key in use is one    *)
(* that was made (identity.go:44-78) and a plan of the tray ends with it   *)
(* (menubar_items.go:25-36).                                               *)
PartsTypeOK ==
  /\ RoutingTypeOK /\ SyncTypeOK /\ NonceTypeOK /\ LimiterTypeOK /\ MigrationTypeOK
  /\ RegistryTypeOK /\ KeyTypeOK /\ ServiceTypeOK /\ ZipTypeOK
=============================================================================
