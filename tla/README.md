# anywhere-file: TLA+ models, checks and proofs

anywhere-file lets a person reach the folders of a PC from elsewhere. The PC
runs an *agent* (`src/device/agent`, Go) that signs in to an account and keeps
one outgoing connection, the *tunnel*, to a *control plane*
(`src/hosted/control-plane`, Go with PostgreSQL). *Clients* (`src/client`,
Kotlin) call the control plane, which checks who may reach the PC and forwards
the request down its tunnel; on the same network they find the PC by mDNS and
call its gateway directly.

The modules here model what decides who may reach which PC, whether that is
still true by the time it is acted on, and whether the agent's loops and files
keep up with what happens to the PC. `PROJECT.json` maps every definition to its
lines and lists the runs, mutants, hazards, findings and theorems.

## Inventory

| Component | State | Operations | Properties that make it correct |
|---|---|---|---|
| Bindings and invites (`bindings.go`, `invite.go`) | `device_users`, `invites`, the lock on the `devices` row | create and redeem an invite, revoke, leave, remove | access is paid for by one token or one invite; no revoke takes the last admin; only an admin revokes; the row lock is given back |
| Enrolment, server (`enrol.go`) | `devices`, `enrolment_tokens`, `device_enrolments` | mint, enrol, disable, unenrol; start, poll, answer | a token and a code are used once; only the account that approved is bound |
| Accounts (`auth.go`, `delete.go`) | `accounts`, `sessions`, mailed links | signup, signin, signout, verify, reset, delete | nothing outlives its account; a link works for its own account and once; a new password ends sessions |
| Subscriptions (`subscription.go`) | `subscriptions` | seed, set, read, gate | only an operator lifts a suspension; the first admin's decides |
| Tunnel registry (`tunnel.go`) | `reg.live`, one goroutine per connection, the gauge | openTunnel, put, drop, get, count, close | one link per device, the newest wins, one recorded end each, a lost link goes down |
| Routing (`routing.go`) | none of its own | route a request | what is sent was allowed, query by query |
| Application list, server (`apps.go`) | `device_apps` | syncApps | a push replaces the list |
| Request authentication (`agent.go`, `devicesig.go`) | `device_nonces` | verify, sweep, claim | a signed request is accepted once |
| Rate limiter (`ratelimit.go`) | hits per key | allow, sweep | the limit holds in every window; idle keys go |
| Migrations (`migrate.go`) | `schema_migrations`, the advisory lock | up, down | the record is the schema; no gap |
| Agent sign in (`login.go`, `enrol.go`) | `agent.st`, `agent.login`, `agent.json` | startLogin, poll, enrol, logout, forgetAccount | a sign in ends; the file, memory and server agree |
| Shares and supervisor (`enrol.go`, `share.go`, `state.go`, `settings.go`, `supervisor.go`, `ports.go`) | the application list, `agent.json`, the routes, child processes | add, remove, move a share; start, stop, restart a program | all copies agree; one copy of a program; nothing deadlocks |
| Agent tunnel (`tunnel.go`) | one connection, the back-off | dial, serve, back off, 410 | a removed PC forgets its account, a signed-in one gets a tunnel to its server |
| Report queue (`reports.go`, both sides) | a file with a cap | add, trim, flush; intake | no report lost without a reason, the queue drains |
| Device key (`identity.go`, `seedstore.go`) | the seed | load, wait, generate, save | a locked store never gives a new identity |
| LAN discovery (`mdns.go`, `responder.go`, `tls.go`) | the record, the certificate | look, register, retry | record and certificate follow the network and the shares |
| Service (`service.go`, `menubar*.go`) | jobs of launchd, systemd, the task scheduler | install, uninstall, open, Quit | Quit lasts |
| Zip of a folder (`compress.go`) | temporary files, the file under the name | write, place | a whole file, and nobody else's replaced |
| Clients (Kotlin), web pages, mail, downloads, audit rows | session, pinned keys | sign in, browse | not modelled, see below |

**How they interact.** Handlers of the control plane share only PostgreSQL, at
Read Committed and mostly without explicit locks, and the in-memory tunnel
registry under one mutex. Agent and server exchange signed requests that may be
lost after they were acted on. Inside the agent, HTTP handlers of the settings
page, the sign-in goroutine, the tunnel loop and the supervisor share `agent.st`
under `a.mu`, which is released around every request and around some of the
writes of `agent.json`. Commands of the agent run as processes of their own next
to `agent run` and share its files, its keystore and the scheduler's jobs.

**What is hard.** Checks and writes in different SQL statements; tunnels that
are replaced, removed and time out at the same moment; answers that are lost
after the server acted; the deadline of a sign in racing its approval; copies of
a list that are set as a whole; file writes out of order and cut short; clocks
that differ; a lock that is lost while its holder works on; restarts between any
two of these.

## Modules

| Module | Models | Run by |
|---|---|---|
| `Bindings` | who may reach one PC: `device_users`, `invites`, tokens, the row lock | `MCBindings` |
| `Bindings_proofs` | theorems about `Bindings` | TLAPS |
| `TunnelRegistry` | `openTunnel` and the registry, with the requests that close tunnels | `MCTunnelRegistry` |
| `DeviceLink` | what the registry promises, abstractly | `TunnelRegistry` refines it |
| `TunnelRegistry_proofs` | theorems about `TunnelRegistry` | TLAPS |
| `Accounts` | one email address: account, sessions, links, subscription | `MCParts`, `MCAccounts` |
| `Accounts_proofs` | theorems about `Accounts` | TLAPS |
| `BrowserEnrolment` | the agent's sign in and sign out against the server | `MCBrowserEnrolment` |
| `DeviceGrant` | what a sign in promises, abstractly | `BrowserEnrolment` refines it |
| `BrowserEnrolment_proofs` | theorems about `BrowserEnrolment` | TLAPS |
| `Routing` | one remote request after another, query by query | `MCParts`, itself |
| `AppSync` | pushes of the application list, and the rows they leave | `MCParts` |
| `DeviceNonces` | copies of one signed request, two clocks | `MCParts` |
| `RateLimiter` | the sliding window | `MCParts` |
| `Migrations` | instances that migrate at once | `MCParts` |
| `ControlPlane_proofs` | theorems about `Routing`, `AppSync`, `DeviceNonces`, `RateLimiter` and `Migrations` | TLAPS |
| `ShareRegistry` | the list of shares in its four places, and the supervisor | `MCParts`, `MCAgentLive`, `MCShareRegistry` |
| `ShareRegistry_proofs` | theorems about `ShareRegistry` | TLAPS |
| `DeviceKey` | processes that load or make the key | `MCParts` |
| `ServicePlan` | install, uninstall, open and Quit on three systems | `MCParts` |
| `ZipShare` | compress requests for one name | `MCParts` |
| `Parts_proofs` | theorems about `DeviceKey`, `ServicePlan`, `ZipShare` and `MCParts` | TLAPS |
| `AgentTunnel` | `runTunnel` against servers that remove the PC | `MCAgentLive`, itself |
| `ReportQueue` | the report file and its flush | `MCAgentLive` |
| `LanAdvert` | `keepAdvertised`, the record and the certificate | `MCAgentLive` |
| `AgentLive_proofs` | theorems about `AgentTunnel`, `ReportQueue`, `LanAdvert` and `MCAgentLive` | TLAPS |

`MCParts` and `MCAgentLive` put components that share no variable into one
instance. The constant-valued variable `part`, chosen in the initial state, says
which component a behaviour is about; the others stand still, so the states are
the sum, not the product, of the components' states. Each component's
specification is the one in its own module.

### Bindings

One action is one SQL statement, or a run of statements that row locks make
indistinguishable from one step at the commit. A handler that reads in one
statement and writes in a later one is several actions, and `req[t]` holds what
it read. `lock` is the row of `devices` taken with `FOR UPDATE` by `revokeBinding`,
`leaveDevice` and `removeDevice`; `UPDATE devices`, and an `INSERT` whose foreign
key points at the row, wait for it (`DeviceFree`). An `UPDATE` of an existing
`device_users` row does not, which is why a re-admission passes a lock that a
first admission waits for.

PostgreSQL re-reads the *target row* of an `UPDATE` at its latest version but
not its subqueries. `revokeBinding` therefore has two actions for its one
statement: `revokeBindingCount` takes the snapshot, `revokeBindingWrite` writes.
The same holds for `disableDevice`.

`intact` is a history variable that no guard reads: it becomes false when an
active admin goes by something that makes no count (`Unseats`: the PC's own
unenrolment, a removal, the deletion of the account, a guest invite that
overwrites the row) and true again when an enrolment seats an admin. It is what
separates the revokes, which must leave an admin, from the rest, which need not.

Left out: names and times, the audit row of each transaction, `used_by` and
`created_by` of a binding. A code is a model value; expiry is an action that may
happen at any moment.

### TunnelRegistry and DeviceLink

A connection is one run of `openTunnel`; `at[c]` is where it is. `reg.mu` makes
`put`, `drop`, `get` and `count` atomic, so these are the actions, and everything
between them interleaves. `ends[c]` counts the disconnects recorded for a tunnel.
`removeDevice` is two actions, its commit and its later `reg.get(...).close()`.
The get and the close are one step: a tunnel that goes in between was closed or lost
already, and a second close does nothing.
`unenrolDevice` changes only `bound`, as the code does. `agentGone` is external:
the PC sleeps, its network goes or the agent hangs up; `watch` notices by a
failed ping or by the closed channel.

`DeviceLink` is the contract stated by the comment on `tunnelRegistry`: at most
one link per device, a new connection replaces it, it goes down only when *its
own* connection was lost or closed, a connection is never a link twice, and a
lost link does go down. The mapping is `link <- live`, `spent <-` the
connections past `put`, `lost <- closed \cup dead`.

### Accounts

Rows of two addresses never meet in one statement, so the module models one
address and the accounts it has had over time (`Ids`, each used once). `signup`
is three statements without a transaction, each of which may fail. `verifyEmail`,
`resetConfirm`, `signin` and `deleteAccount` read first and write later. The
foreign keys are modelled: an insert for a deleted account fails, and deletion
cascades. `sessions[s].pw` is a history variable; no guard reads it.

### BrowserEnrolment and DeviceGrant

`job[j]` is a call of `startLogin` and its goroutine; `poll[r]` the server's side
of a poll, which goes on when the agent gives up on it. Requests and answers can
be lost separately. `enrol` accepts at the server, syncs the list, sets memory,
takes a snapshot and writes the file in separate steps, because the mutex is
released between them. `logout` and `forgetAccount` do the same. `Restart` may
happen anywhere and keeps only `disk`. A write of the file either happens or
fails (`DiskFails`); a torn file is in `ShareRegistry`, and `forgetAccount` on a
410 of the tunnel in `AgentTunnel`.

`DeviceGrant` is what the flow promises the people who answer codes, without polls,
tokens and goroutines: a code is approved by one account or refused, once and for
good; an approved code gives the PC to the account that approved it, once; a
sign out releases the PC from every account. The mapping reads `approval` and
`refused` off the rows of `device_enrolments`, `redeemed` off the tokens that were
used, and `held` is `bound`.

### Routing

`remote[r]` is one call of `remoteRequest`: the session, then the one query for
the binding, the application and the owner, then the owner's subscription, then
the tunnel, then the proxy. Every change of the tables may fall between two of
them. `held` collects what was true at some instant since the request arrived;
it is written by the world's steps and read by no guard. `rows` keeps the order
of `created_at`, because the owner is the oldest row that says admin (`Oldest`).
`first` is the first admin the PC ever had and is read by no guard of a request;
that admin may delete the account, or be revoked and come back with an invite for a
guest, and then no longer stands (`FirstStands`), which `held` notes as "displaced".
Rewriting of paths and headers is left out.

### AppSync

`push[r]` goes from the goroutine that `setApps`, a start or a new tunnel spawns,
over its snapshot, to the server's transaction. `DELETE` fixes its rows when it
begins and takes them one by one, waiting for rows another transaction has
changed; the upsert does the same; a wait for each other ends by a rollback.
`clean` says that no other push was on its way meanwhile.

### DeviceNonces and RateLimiter

Both count time in ticks. `DeviceNonces` has one signed request and its copies:
each is verified against the clock, sweeps, and claims, with at most `Lag` ticks
in between, and the agent's clock is at most `Ahead` of the server's.
`RateLimiter` reads `now` before the lock, as `allow` does, with at most `Wait`
ticks until the lock is held. The slice of times a key holds is the set of requests
that recorded them: two of one instant count twice, and nothing depends on the order
in the slice.

### Migrations

The lock is held on one connection and the work is done on others, so
`lockLost` leaves its holder running. `execMigration` opens the transaction of
one version; statements on a version wait for another transaction on it, and
fail when it is already done or undone.

### ShareRegistry

A list is a function from share names to ports. It is in four places: `disk`,
`list` (`agent.st.Apps`), `routes`, and `children` (the supervisor's loops). A
goroutine takes a copy, then sets it as a whole under `agent.mu`, then calls
`onApps` outside the lock, which sets the routes and the supervisor.
`os.WriteFile` truncates first, so a kill or a failed write can leave `Torn`, which
`loadState` refuses. The supervisor cancels old loops and waits for them before
new ones start; a loop that finds its port taken picks another and calls `moveApp`
from a goroutine, because calling it directly would wait for itself. `excused`
is a history variable: changes that overlapped may leave the four places apart
until a change that nothing overlapped is done.

### DeviceKey

Each command that needs the key is a process: it opens the store, waits while
the store is locked, makes a key when the store says it is empty, writes and reads
it back. Only `agent run` takes the instance lock. `began` records what the store
held when the process started. Whether the machine has a keystore is chosen once:
`seedstore.go:60-64` takes its absence as permanent, although `hasKeystore` asks at each
start. `KeyKept` is about each store on its own.

### ServicePlan

Plans are lists of commands, run one by one; what each command does to a job is
the schedulers' part and marked external. The tray runs Quit's commands and one of
them may stop the tray. Crashes, restarts by the scheduler and logons interleave.

### ZipShare

Each request writes a hidden file of its own and places it under the chosen name:
with a hard link that fails when the name exists, or, where the disk has none, with
a look and a rename. dufs creates and deletes files under the name meanwhile.

### AgentTunnel

`loop` is where `runTunnel` is, `of` the server of the snapshot an attempt works
with, `conn` the connection. A path may die in silence; the read deadline
`tunnelIdle` finds out. The server is only what the handshake answers and whether the PC is bound;
its registry is in `TunnelRegistry`. A 410 calls `forgetAccount` for `of`, which
leaves another server's account alone. Sign in and sign out are what
`BrowserEnrolment` details, in three steps.

### ReportQueue

A report is a number and a length. `add` appends and trims to the cap; `flush`
reads a batch, posts it with the lock released, and cuts it from the file by
comparing with what is there then. Off an account it looks first and removes the file
in a later step, with what was added in between. The agent may be killed at any step;
both rewrites of the file, that of `trim` and that of the cut, empty it first and may
break off there, by a kill or a failing write; the server refuses a body over its limit and may have forwarded a
batch whose answer is lost.

### LanAdvert

`keepAdvertised` looks at the network and the shares, drops the certificate when
the addresses changed and registers when either did; a failed registration is
tried again after `retryAt`. Handshakes make certificates at any time.

## Runs

| Run | Result | What it shows |
|---|---|---|
| `bindings` | pass | with every endpoint and both roles: revokes leave an admin and have one behind them, access is paid for, the lock is well used, every request is answered |
| `bindings_lastadmin` | **violation** | with guest invites the PC can lose its last admin |
| `tunnel_link` | pass | every tunnel is live with no end recorded or gone with exactly one, the registry implements `DeviceLink`, and handlers return |
| `tunnel_remove` | **violation** | a tunnel admitted before a removal is registered after it |
| `accounts_resetlink` | **violation** | one reset link sets two passwords |
| `accounts_sessions` | **violation** | a session with the old password survives the reset |
| `enrolment` | pass | the sign in implements `DeviceGrant`; one token per code, no orphaned waiting flag, nothing written before acceptance; a sign in ends, whoever answers or does not |
| `parts_safe` | pass | the safety of ten components, property by property below |
| `agent_live` | pass | the agent's loops go on and arrive |
| `apps_move` | **violation** | `moveApp` undoes a change of another share |
| `routing_owner` | **violation** | the subscription that decides is not always the first admin's |
| `tunnel_account` | **violation** | a tunnel to the server of before keeps the PC from one to its new server |

`RevokesLeaveAdmin` says what holds of "a device keeps at least one admin"
(`bindings.go:193`): no interleaving of revokes, leaves, invites and enrolments takes
the last one. `bindings_lastadmin` says what does not: the user's redemption of a
guest invite reads "not bound", the user then enrols the PC and is its only
admin, and the redemption overwrites that row with `guest`. Removal, sign out
and account deletion take the last admin away on purpose. `RevokerStands` has the same
exception: what takes no lock may unseat the caller between check and commit.

In the same way `FirstAdminAsked` is what holds of "the first admin the device ever
had, revoked or not" (`routing.go:95`), and `routing_owner` shows the case it excepts;
`TunnelComesBack` is what holds of "keeps one connection to the server open"
(`tunnel.go:38`), and `tunnel_account` shows its exception: a PC that signs out at one
server and in at another goes on serving the first tunnel, which neither end closes,
and dials the new server only after that tunnel ends.

`parts_safe` checks

* `SentWasAllowed`: session, binding, application and tunnel each held at some
  instant since the request arrived, and so did the first admin's subscription unless
  that admin was gone or a guest in that time. It does not say they all held at once,
  and they need not have.
* `FirstAdminAsked`: the subscription that is asked for is the first admin's, with the
  same exception. Deletions and re-admissions as a guest are part of the run.
* `PushReplaces`: a push nothing crossed leaves exactly the list it sent.
* `AcceptedOnce`: no signed request is accepted twice while the agent's clock is
  ahead by less than `NonceTTL - ClockSkew - Lag`.
* `LimiterSound`: no client gets more than `Limit` requests through with times in a
  span of `Window - Wait`, and a key that is in the map has a hit of within a window
  of the last sweep.
* `SchemaSound`: the record is the schema whatever dies, and has no gap unless
  the lock was lost.
* `DeletedLeavesNothing`, `VerifiedByOwnLink`, `PasswordByOwnLink`,
  `SuspensionSticks`: an address that is signed up, deleted and signed up again while
  older requests are still being served; nothing of the first account reaches the
  second, and a password changes only by the request that uses its reset link.
* `OneCopy`, `RegistryAgrees`: one program per share; after a change that nothing
  overlapped the four places agree, whatever overlaps left before.
* `QuitStaysQuit`: after Quit nothing starts the agent until the person does.
* `KeyKept`: a key that was in the store when a command began is never replaced by
  that command.
* `ZipPlaced`: only whole files get the name; with hard links none is replaced.

`agent_live` checks `ChangesFinish` (no deadlock between `agent.mu`,
`supervisor.mu` and the loops), `TunnelComesBack`, `RemovalIsHeeded`,
`NoReportLost`, `QueueDrains` and `LanFollows`.

### What the code does and no property forbids

* Control plane: a redemption in flight while an admin removes the PC may bind
  its user afterwards. A PC that signs itself out leaves its tunnel to the agent.
  The live-tunnel gauge can be wrong at rest (`tunnel.go:236`, `metrics.go:63`).
  An answer that breaks off
  leaves no sample (`routing.go:47`). Crossing pushes may leave an older or mixed
  list until the next one (`apps.go:47`).
* Sign in: two calls of `startLogin` may both find no sign in waiting and poll
  side by side. A sign in that finishes during a sign out can leave `agent.json`
  on an account memory has forgotten (`enrol.go:193`). A 410 forgets an account
  of the same server that was signed in to after the handshake.
* Shares: the copies may disagree while changes overlap (`enrol.go:69` says
  never). A torn `agent.json` keeps the agent from starting.
* Reports: a batch read before the box was unchecked is sent; after a quick sign in
  elsewhere the queue goes to the new server; a server without a collector answers
  ok and drops the batch.
* LAN: a network that changes between the first certificate and the first look is
  noticed only at the next change (`mdns.go:293`).
* Key: two commands on a new PC may each make a key (`identity.go:59`); a torn seed
  file keeps the agent from starting.
* Zip: on a disk without hard links a file that appears after the look is replaced
  (`compress.go:208`).

### Bounds

* `Bindings`: two users and one invite with every endpoint and both roles, liveness
  included; two admins can revoke each other, and the theorems are for any number. Two
  concurrent requests, because every check-then-write race here is between two;
  `MaxTokens = 1`, since tokens of one account are interchangeable.
* `TunnelRegistry`: three connections of one device, so that a replacement is itself
  replaced while the first handler has not yet dropped; handlers of two devices
  touch no common entry of `reg.live`.
* `Accounts`: two account ids (delete and sign up again), two passwords, two
  links (one of each account, or one of each kind), two sessions, two requests; one id
  suffices for the two violations. `DrawnInOrder` has ids and links drawn in one
  order, as `MintedInOrder` below.
* `BrowserEnrolment`: two accounts, two sign ins, two codes, two tokens, two
  polls at a time. The constraint `MintedInOrder` has codes and tokens minted in one
  order. A mint takes any unused name and a minted one stays minted, so a behaviour
  that is left out is one that is kept with the names exchanged, and a mint that is
  possible remains possible, which `LoginEnds` needs.
* `MCParts`: two people and one remote request at a time (requests only read, so
  they do not meet); two applications and two pushes; three copies of a request, with
  `ClockSkew` 3, `NonceTTL` 6, `Ahead` 1, `Lag` 1 and 14 ticks, so that a nonce
  expires and is swept while copies still arrive; two clients, four requests,
  `Limit` 2, `Window` 3, `Wait` 1, 5 ticks, so that sweeps happen with an older
  `now`; two instances, three versions and a lock that breaks; two shares, two
  ports, `MaxApps` 1 (the limit is met), two settings requests, three events from
  outside and failing writes; three commands of which two are `agent run`, four
  starts; four plans of the service; two zip requests and three uploads or deletions.
  Sets of interchangeable values of parts that never meet (shares, people, sessions;
  ports, passwords; goroutines, requests) are one set, so that one small group of
  permutations reduces them all.
* `MCAgentLive`: one share, two ports, two settings requests and two events
  with writes that succeed; two servers, back-off up to 4, four moves of the account;
  lines of length 1, 3 and 4 against a cap of 9, a batch of 4 and a body of 6, so
  that lines over each limit and on it occur, four reports and one kill or failing
  rewrite; two networks
  and two lists.
* `apps_move`: two shares, two ports, `MaxApps` 2, three events. `routing_owner`: two
  people, one request. `tunnel_account`: two servers, three moves of the account.

Symmetry is used only in runs whose properties are invariants or permutation
invariant action properties. Deadlock checking is off where the system may
stop: every invite and account used up, every connection gone, every bound met.

### Fairness

* `Bindings!FairSpec`: strong fairness of each request's later statements. A
  handler runs to its end, and PostgreSQL grants a row to its waiters in order, so
  a waiter is not passed over for ever. Clients owe no request.
* `TunnelRegistry!FairSpec`: weak fairness of each handler after its first query
  and of the close of a removal. Pings and writes have deadlines; agents owe
  nothing.
* `BrowserEnrolment!FairSpec`: weak fairness of the goroutine's local steps and
  requests, which have a timeout, and of `loginMaxWait`. Nobody has to answer and
  no answer has to arrive.
* `ShareRegistry`: weak fairness of the goroutines' own steps
  (`RegistryProgress`); a loop that is cancelled stops, other loops owe nothing.
* `AgentTunnel`: weak fairness of `TunnelLoop`, of writing down an accepted sign in
  and of the forgetting half of a sign out; strong fairness of the server's check,
  its registration and the answer. That is the assumption that the network and the
  server work again and again, without which no tunnel comes back.
* `ReportQueue`: weak fairness of the flush loop; strong fairness of the intake
  and of the answer.
* `LanAdvert`: weak fairness of `keepAdvertised` and of `retryAt` being reached;
  strong fairness of a registration, which may fail but not for ever.

In `MCAgentLive` these are fairness conditions of disjunctions over components.
`part` never changes, so in each behaviour all but one disjunct are disabled for
good, and the condition is that of the component the behaviour is about.

## Proofs

TLAPS checks every step. The theorems hold for all values of the constants that
satisfy the named assumptions next to their declarations: the null values
(`None`, `Nobody`, `NoKey`, `Cut`, `NoOne`, `NoPort` ...) are not elements of the
sets they are added to, goroutines are distinct, bounds are natural numbers, and
`Users` and `Devices` of the first two modules are finite. Further hypotheses stand
in the statement of the theorem.

| Theorem | States | For every |
|---|---|---|
| `Bindings_proofs!TypeCorrect`, `LockHeld`, `AccessIsPaidFor` | `TypeOK`, `LockDiscipline`, `NoFreeAccess` | users, invites, requests |
| `Bindings_proofs!AdminKept`, `RevokerStillAdmin` | `RevokesLeaveAdmin`, `RevokerStands` | the same |
| `TunnelRegistry_proofs!TypeCorrect`, `EndsReconciled`, `RegistryIsLink` | `TypeOK`, `Reconciled`, the safety half of `ImplementsLink` | devices, connections |
| `Accounts_proofs!AccountsTyped`, `NothingComesBack`, `VerifiedByOwn`, `PasswordByOwn`, `SuspensionStays` | `TypeOK` and the four properties of the accounts in `parts_safe` | accounts, links, sessions, requests |
| `BrowserEnrolment_proofs!EnrolmentTyped`, `OneToken`, `BoundApproved`, `WaitingWorked`, `AcceptedFirst`, `EnrolmentIsGrant` | the properties of `enrolment` but `LoginEnds`, and `BoundByApproval` | accounts, codes, tokens, sign ins, polls |
| `ControlPlane_proofs!RoutingTyped`, `SentAllowed`, `FirstPays` | `RoutingTypeOK`, `SentWasAllowed`, `FirstAdminAsked` | people, requests |
| `ControlPlane_proofs!SchemaStaysSound`, `AcceptedOnlyOnce`, `CleanPushReplaces` | `SchemaSound`, `AcceptedOnce`, `PushReplaces` | instances and versions; copies and clocks; applications and pushes |
| `ControlPlane_proofs!LimiterTyped`, `LimiterKeepsCount` | `LimiterTypeOK`; with `Wait < Window`, `LimiterSound` | clients, requests, limits, windows |
| `ShareRegistry_proofs!RegistryTyped`, `OneCopyServes`, `RegistryComesTogether` | `RegistryTypeOK`, `OneCopy`, `RegistryAgrees` | shares, ports, goroutines |
| `Parts_proofs!IdentityKept`, `ZipPlacedWhole`, `QuitStays` | `KeyKept`, `ZipPlaced`, `QuitStaysQuit` | commands; requests; plans |
| `Parts_proofs!PartsTyped` | `PartsTypeOK` | all of these |
| `AgentLive_proofs!ReportsTyped`, `BatchesFit`, `ReportsKept` | the cap of the file, `BatchFits`, `NoReportLost` | lengths and limits |
| `AgentLive_proofs!TunnelTyped`, `ForgetsOnlyLost` | `AgentTunnelTypeOK`, the safety half of `RemovalIsHeeded` | servers, back-off |
| `AgentLive_proofs!AgentTyped` | `AgentTypeOK` | all of these |

Every invariant and every action property that a run checks is a theorem, and both
refinements are proved, `ImplementsLink` in its safety half.

**`Bindings_proofs`.** `TypeCorrect` and `LockHeld` use `Typed`, which is `TypeOK`
with `ReqOK`: a request past its first statement has a caller, and a target or an
invite where its point needs one. Without `ReqOK` the table updates indexed by
those locals have no type. `LockDiscipline` is inductive next to it.
`AccessIsPaidFor` needs no more than `Typed`: only `enrolDevice` and
`redeemInviteWrite` raise a binding, and each spends in the same step.

`AdminKept` and `RevokerStillAdmin` have the inductive invariant `KeepInv`:
`NoRowsYet` (nobody is bound to a PC that has no row), `RevokeSawTruth` (while `intact`,
the caller of a revoke that passed its check is still an admin, and a request between
its count and its write saw more than one admin only if there still is more than one)
and `RevokesLeaveAdmin`. `RevokeSawTruth` is where the row lock does its work: between
count and write no other revoke can run (`LockDiscipline`), an enrolment waits for the
row, redemptions of an admin invite only add admins, and whatever else takes an admin
away ends `intact`.

**`TunnelRegistry_proofs`.** `EndsReconciled` rests on `Ledger`. `Booked` gives
for every connection, at every point of its handler, the ends recorded as a
function of whether it is live, owed to the handler that displaced it, or owed by
itself. `OneDisplacer` says a displaced tunnel is owed by one handler only, and
`DropsClosed` that a handler drops only what is closed. `RegistryIsLink` proves
`Spec => Link!LinkSpec` from the same invariant: `put` is `LinkUp`, `drop` of the
live connection is `LinkDown` (its connection is closed, hence lost), closes and
`agentGone` are `Lose`, all else leaves the link alone.

**`Accounts_proofs`.** `Inv` adds to the properties what a request carries from one
statement to the next: `ReqOK` (the link it follows is still of the account it
read), `LinksNamed` and `SessionsNamed` (rows name the account they were inserted
for) and `SpentOK` (an id is drawn once; links go only with their account). With
`SpentOK` a late insert for a deleted account meets the foreign key, and a link
that a verification follows cannot be of an earlier account. The two action
properties follow from `Inv` step by step. The proof needs `None` not to be a
subscription status, which the assumption now says.

**`BrowserEnrolment_proofs`.** `OneTokenPerCode` counts tokens, which is not
inductive; `OneMinted` (two minted tokens of one code are equal) and `MintedFrom`
(a token names a spent code and the account that approved it) are, because
`pollConsume` spends the code in the transaction that mints. `WaitingIsWorkedOn`
and `WrittenAfterAccepted` need `PointsOK`, what a goroutine holds at each point.
`SaysEnrolled => Accepted` covers every copy of the state, in memory, in the file
and in a goroutine's hands. `EnrolmentIsGrant` follows step by step from the same
`Inv`: `answerEnrolment` is `Approve` or `Refuse`, because it writes a row that is
pending only; a token that is accepted is `Redeem` of the code it was minted from,
which by `MintedFrom` was approved by the account the token names and by `OneMinted`
has no other token that could have been used before (`AcceptRedeems`); a sign out
that reaches the server is `Release`; minting, consuming, expiring and everything the
agent does leaves the grant alone.

**`ControlPlane_proofs`.** Routing: `RemoteOK` says for each point of a request what
it has read, that each thing it read is noted in `held`, and that everything true now
is noted too, which makes `held` grow with the world's steps. `FirstRow` says that
the first admin's row, if it is there, is the first: a row keeps its place when it is
rewritten and the rows close up when another goes. So the owner that the query finds
is the first admin, or that admin does not stand and the request has noted it
(`OwnerIs`); the subscription that is read later is therefore the first admin's, or
the exception of `SentAllowed` and `FirstPays` applies. No hypothesis on what happens
to the first admin is left. `Owner` and `deleteAccount` are written with `Oldest` and
`RemoveAt`, about which the prover can reason.

Migrations: `MigrationInv` is `DoingOK` (which version an
instance works on), `RecordedIsDone`, `NoGaps` and `LockHeld`: while nobody has lost
the lock, whoever works holds it, what it read is still what is recorded, and it
works on the next version. Nonces: `PendingOK` (a copy on its way was verified
within `ClockSkew` of the stamp, and at most `Lag` ago) and `RowOutlives` (once a
copy was accepted, the row is there or it is later than any copy on its way can be).
This needs `LifeSuffices == ClockSkew + Ahead + Lag < NonceTTL`. With the code's five
and ten minutes it says that the agent's clock is ahead by less than five minutes
minus the time from check to claim; a clock ahead by the whole skew, which
`devicesig.Verify` lets pass, is not covered. `NonceAssumption` has
`ClockSkew <= MaxClock`, which only lets the model start. AppSync: `PushOK` and
`CleanOK`: a push that no other crossed has the committed rows to itself,
and each of its statements has done, or has still before it, exactly its part.

RateLimiter: `LimiterInv` has, next to the two halves of `LimiterSound`, `WaitsOK` (a
request waits for at most `Wait`), `RecordedOK` (what a key holds was let through for
that key) and `Remembered`: a request that was let through less than a window before
the clock's time is held. An older `now` keeps more than the clock's time would, so no
late sweep or pruning breaks it. A `now` is at most `Wait` old when the lock is held;
of a span of `Window - Wait` that the new request falls into, the earlier requests are
therefore all in `kept`, whose cardinality is compared with `Limit`. `NoIdleKeys` is
under `Wait < Window` (`SweptOK`): a `now` a whole window older than the last sweep
would be recorded and leave its key idle. The types and the limit hold without it.

**`Parts_proofs`.** DeviceKey: `CommandOK`: what is stored is never taken away; a
command that makes a key began on an empty store and has a key to write; only a file
is written in two steps. ZipShare: a temporary file is whole before it is linked or renamed. ServicePlan:
`QuitOK` gives, for what is left of the tray's plan, what its earlier commands have
done; `PlansOK` says an uninstall holds no command that starts or enables a job, so
that it may run beside a Quit; `JobsOK` says a job the scheduler does not know is
off, which makes a refused `end` or `disable` harmless, and that on Linux there is
no tray to ask for Quit. `PartsTyped` puts nine parts together (`TypeOK` of `Accounts` is a
theorem of its own): a step of `MCParts` is a
step of one part and leaves the others' variables alone (`PartsMove`), so that the
invariant of each part carries over (`PartsAlone`).

**`AgentLive_proofs`.** ReportQueue: `ReportsInv` says the batch was forwarded once
the flush is past the answer, so the cut removes forwarded reports only, and nothing
when the file no longer starts with the batch (`CutIds`). That `trim` and
`FirstBatch` return part of the queue needs that a set of naturals has a least
element, `Least`, from the library's `WFMin`.

The size of some lines is the number of their bytes (`Bytes`), a set, so that it grows
with the lines and the part of a queue is no larger than the queue. `QueueInv` says
that the file is within its cap, that every line in it is short enough for a batch on
its own, which is what `add` refuses longer lines for, and `BatchFits`. Without the
second part `FirstBatch` may find no line that
ends within the limit and send the whole file.

AgentTunnel: `ForgetsOnlyLost` needs `KnownInv`: a server that the account, an accepted
sign in or an attempt is about has the PC bound or is in `unbound`, and the server of an
answer 410 or of a sign out under way is in `unbound`. Then `forgetAccount` takes the PC
off such a server only. `AgentTyped` puts the four together as `PartsTyped` does.

**`ShareRegistry_proofs`.** `RegistryInv` was checked with TLC before it was proved.
`OneLoop` gives `OneCopy`: there is one loop per name, because `setStart` waits for
the loops it cancelled. For `RegistryAgrees`:
* `OverlapsOK`: a change that is alone has every other goroutine idle, and while
  nothing overlapped at most one is busy;
* `StagesOK`: such a change has brought file and list together when it calls
  `onApps`, the loops too when `setStart` is done and the routes when it ends; a
  start and a rewrite of the file keep together what was. `RestOK` is the end of it;
* `DriftOK`: a loop that listens on another port than it was started for has a call
  of `moveApp` coming, or one on its way that will stop that loop. A move to
  the port the loop was started for does not count: it leaves the loop as it is;
* `PlacesOK` and `StopsOK`: which goroutine may be where during the start, and a
  cancelled loop is one that `supervisor.set` waits for under its lock;
* `TypesOK`: every copy that may be written was checked against `maxApps`.

**Only model-checked.** Liveness is outside the prover: `RequestsFinish`,
`HandlersReturn`, `LoginEnds`, `ChangesFinish`, `TunnelComesBack`, `QueueDrains`,
`LanFollows`, the half of `RemovalIsHeeded` that says a removed PC does forget its account
(`RemovedIsForgotten`), and the fairness half of `ImplementsLink`. Some theorems have
hypotheses under which the code was shown right and outside which it is not, or is
not claimed to be: `LifeSuffices` and `Wait < Window`.

## Not modelled

See `components` in `PROJECT.json`. Web pages, mail, downloads, configuration,
log files, menus and consoles, mDNS packets and the probes of `lancheck.go`, TLS,
and `listenWhenFree`, which waits for the agent's own ports, are I/O with no state
that the rest depends on. Audit rows are written in the transaction of what they
record and read by pages only. The Kotlin clients keep their session and pinned
keys on one thread of the user interface; their part of the protocols is the
caller of the modules above. Hashing and signatures are taken as what they are used
for: a token, a password or a device key is itself.

## What could come next

1. An abstract register that `ShareRegistry` implements for changes that do not
   overlap; `StagesOK` is most of the refinement mapping.
2. `AgentTunnel` composed with `TunnelRegistry`, so that the agent's connection is
   the server's link.
3. `Accounts` composed with `Bindings` through account deletion.
