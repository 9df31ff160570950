# A formal model of nodeservice-agent

TLA+ modules of the agent's control flow, TLC configurations that check them on
small instances, and TLAPS proofs of what they guarantee for every instance.
Line numbers refer to the repository's files; `client.go` is
`internal/transport/client.go`, `fallback.go` is in the same directory,
`state.go` is `internal/state/state.go`, `enroll.go` is
`internal/enroll/enroll.go`, `server.go` is `internal/pull/server.go`, `probe.go` is
`internal/vpnprobe/probe.go`, `metrics.go` is `internal/metrics/metrics.go`, and
`install.sh` is `scripts/install.sh`.

## 1. The system

The agent runs on a VPN node and serves its panel in one of two ways. In
*outgoing* mode it keeps a WebSocket session with the panel, or sends HTTPS
"pulses" when no WebSocket can be made. In *incoming* (pull) mode it is an
HTTPS server which the panel polls. It needs one state file, which either the
first run (an enrolment with a one-time token) or `configure-pull` creates.

| Component | State it keeps | Operations |
|---|---|---|
| route list, `internal/state` | `WSURL`, `WSURLs` (at most five) | `SetEndpoints`, `Endpoints`, the cleaning in `Load` and `Save` |
| state file, `internal/state`, `cmd_run.go` | `state.json` and its `.tmp`; the copy in memory | `Load`, `Save`, `mergePanelWSURLs`, `applyWelcome` |
| client loop, `client.go` `Run`, `fallback.go` | round: list, position, two counters, last error; backoff | rounds over both transports, the minute timer of pulses, backoff, the final refusal |
| WebSocket session, `client.go` | the connection, three goroutines, a channel of errors, two contexts | dial, handshake, read, heartbeat, ping, the first error, close |
| enrolment, `internal/enroll`, `cmd_run.go` | the new key, the entrance being tried | one request per entrance, save |
| pull identity, `cmd_configure_pull.go`, `server.go` | `state.json`, the TLS key and certificate, their `.tmp` files | `configure-pull`, `EnsureCertificate`, `writeSecret` |
| pull server, `server.go` `Run` | a channel of four probe slots, connections | `GET /v1/snapshot`, `POST /v1/vpn-probe`, shutdown |
| metrics, `internal/metrics` | the previous sample, under a mutex | `Collect`, `Rates`, `externalCounter` |
| VPN probe, `internal/vpnprobe` | an Xray instance per probe | parse a link, build a configuration, fetch through it |
| protocol, `internal/proto` | none | encode, decode, sign |
| installer, `scripts/install.sh` | binary, environment file, unit, state directory, firewall rule; the backups of the first four | install, roll back, remove duplicates |
| command line, systemd unit | exit code | `Restart=always`, but not after exit code 78 |

How they interact: `run` loads the state, or enrols and saves one, merges the
addresses of the environment into it, and gives a *pointer* to it to
`Client.Run`. Every welcome of a session may replace the list in that same
object and save it, while `Run` goes on with the list it read at the start of
the round. `Run` calls `session` and `fallbackSession` and learns from them whether
they got as far as a welcome and with which error they ended. In incoming mode
`run` calls the pull server instead, whose snapshots share one collector and whose
probes each start an Xray inside the process. The installer stops the service,
calls `configure-pull`, and starts the service again; another copy of the agent
may be running beside all that, and nothing locks the state directory.

### What is hard

Three goroutines share one connection. A signal may come in any phase. The list
of routes changes under a round. Requests arrive after their sender gave up.
Files are replaced one by one by processes that may be killed in between. A
rollback meets failures of its own. Five timeouts of one request overlap.
The agent ends *for good* on the strength of two counters. The full list, line
by line, is under `hazards` in `PROJECT.json`; each names the properties that
watch it or says why none does.

### What correctness means

* **Route list**: never empty, never over the limit, no repeats, the old single
  field is its head; cleaning it twice changes nothing; a restart keeps the first
  route, the addresses given on this start, and as many reserves as fit.
* **Client loop**: it ends for good only on a unanimous refusal; it neither spins
  nor keeps a long backoff after contact; a working route is always reached, and
  a WebSocket wins over pulses; a signal ends it.
* **Session**: its outcome is what the panel said; it leaves no connection and no
  goroutine behind; a path that swallows packets is noticed.
* **Enrolment**: the key saved is the key the panel bound; a token is wasted only
  by an answer that was lost or could not be saved.
* **Pull identity**: a run that was alone leaves exactly what it printed; a
  pinned certificate and the binding of an enrolment survive.
* **Pull server**: a probe slot and its Xray instance come back on every path and
  within the timeouts; a finished result reaches the panel unless the body was
  slow; a stop that reports success cut nobody off; no instance runs that trusts
  any server.
* **Metrics**: over the life of the agent the rates add up to what passed the
  server, and never to more.
* **Installer**: it ends; a rollback that runs to its end restores what was there;
  the binding is never without a copy; no service runs on parts of two
  installations; the mode that was asked for is the mode that runs.

## 2. The modules

| Module | What it is |
|---|---|
| `RouteList` | `SetEndpoints`, `normalize`, the merge: operators on lists, stated with sets of positions |
| `RouteLoop`, `RouteLoopMC` | the loop of `SetEndpoints` (state.go 89-114), one iteration a step |
| `RouteStore` | state variables `mem`, `disk`, `writable`, `lastSave` and the operations on them, shared by the next two |
| `RouteHistory`, `RouteHistoryMC` | the life of the list over starts, welcomes, failed saves and crashes |
| `Transport`, `TransportMC` | the process in outgoing mode: `Client.Run`, systemd, signals, crashes; extends `RouteStore` |
| `RejectionVote` | the abstract specification of a round: a vote which is halted only when unanimous |
| `Session` | one WebSocket session with its goroutines, the panel and the path |
| `SessionContract` | the abstract specification of a session, which `Transport` is written against |
| `Enrollment`, `EnrollmentMC` | first runs against a panel with a one-time token |
| `PullIdentity`, `PullIdentityMC` | runs of `configure-pull`, one file operation a step |
| `VpnProbe` | which links a probe accepts and which outbound it builds of them: operators |
| `PullServer`, `PullServerMC` | the server of incoming mode with its handlers, slots, timeouts and shutdown; extends `VpnProbe` |
| `Collector`, `CollectorMC` | the network rates of the metrics collector, with calls that overlap |
| `Installer` | one run of `install.sh` with its rollback, beside the service, a duplicate agent and systemd |
| `RouteListProofs` | lemmas and theorems about the operators of `RouteList` and the operations of `RouteStore` |
| `RouteProofs` | the theorems about `RouteLoop` and `RouteHistory` |
| `TransportProofs`, `SessionProofs`, `EnrollmentProofs`, `PullIdentityProofs`, `InstallerProofs` | the theorems about the module they are named after |
| `SnapshotProofs` | the theorems about `PullServer` with `VpnProbe`, and about `Collector` |

### How state and actions correspond to the code

`RouteList`. A text is a value of `Text`, `Trim` is `strings.TrimSpace`, `Usable`
the texts that parse as `ws`/`wss` URLs. `SetEndpoints` is written without the
loop: the positions where a usable text is first used, the first `MaxRoutes` of
them. `RouteLoop` has the loop, and its property `LoopIsSetEndpoints` says that
they agree; the loop's `Skip`, `Take`, `Exhausted`, `FallBack` and `Assign` are
its `continue`, `append`, `break`, the fallback to the old field and the final
assignment.

`RouteStore`. `mem` is the `*state.State`, `disk` is `state.json`, `writable` says
whether a save succeeds now, `lastSave` (history) how the last one ended.
`OpenState` is `Load` and `mergePanelWSURLs` (cmd_run.go 41-95), with the save only when there was something to merge.
`ApplyWelcome` is client.go 165-180 as a whole: equality test, assignment in
memory, save whose failure is only logged. A `.tmp` is not visible here because
only one process saves; `PullIdentity` has the files one by one.

`Transport`. `pc` is the place in `Run`: `"round"` (line 58-62), `"ws"` and
`"pulse"` (the tops of the two loops), `"wsLive"` and `"pulseLive"` (inside a
session that got its welcome), `"wsDoomed"` (a session whose welcome makes
`sendLoop` panic), `"decide"` (lines 102-116), `"wait"` (the select),
`"rejected"` (exit code 78), `"stopped"`, and `"down"` (not running, systemd will
start it). `endpoints`, `idx`, `attempts`, `rejected`, `lastErr` are the
variables of the round. An attempt that fails is one step, since dial, handshake
and pulse are bounded by timeouts; one that succeeds is a step in and one out.
`level` counts `NextBackOff` calls since `Reset`, as far as `MaxLevel`. `Panic` is
`time.NewTicker` with an interval that is not positive (client.go 287): while the
environment does harm any WebSocket welcome may carry one, later only those of
the routes in `Malformed`.
`refused`, `contact` and `working` are history: nothing of the agent reads them.

`Session`. `main` is the goroutine of `session` and `Handshake`, `loops[l]` and
`failure[l]` the three loops, `errs` the buffered channel, `loopDone` the
cancellation of the loop context, `conn` the connection (which
`coder/websocket` closes itself when the context of a read or write ends, see
`ConnAfterIO`), `inbox` what the panel sent and nobody read yet, `link` whether
the path works, swallows everything, or is broken, `said` all that the panel
sent on this connection. A payload is its kind.

`Enrollment`. `sent` holds requests on their way, each with its key and entrance;
the panel (external) binds the token to the first key that arrives and refuses
all others. An answer reaches only the process still waiting for it. `TryNext` is
the end of an iteration of `FirstAvailable`; when the list is exhausted `run`
exits with an error and systemd starts another process, which makes another key.

`PullIdentity`. `pc`, `on`, `st`, `id` are the locals of each run; `Open`, `Write`
and `Rename` are the three steps of `Save` and of `writeSecret`, each of which
may be the last one of a run (`Stops`: killed, or failed). `Damage` stands for
any other change of a file. `sole`, `pinned` and `kept` are history, which say for
whom the promises below hold.

`VpnProbe`. A link is a record of what the code tells apart: the scheme, whether
address, user, SNI, key, pin and obfuscation password are there, the security, the
network, whether `insecure` is set. `ParsesVLESS` and `ParsesHysteria2` are the
conjunctions of the checks of `parseVLESS` and `parseHysteria2`; `BuildsConfig` is
the one check of `hysteria2Config`; `Outbound` is the configuration, as far as
somebody could be mistaken about whom it trusts.

`PullServer`. `phase` is where a request is: `"opening"` (TLS and headers),
`"body"` (between the slot and the decoded body), `"fetch"` (the probe with its
instance). `age` and `began` count ticks of five seconds, the unit of all its
timeouts; `Tick` waits for what is due (`Due`), as a timer does. `Leave` is the
end of a handler with its deferred calls. `slots` is the length of the channel,
a variable of its own next to the handlers that hold a slot. `EndAs` is what the
end of the process does to the connections it has. `Quiet` (external) is how
`net/http` decides whom `Shutdown` need not wait for.

`Collector`. The sum of the counters of some interfaces is the number of bytes
counted on them (`Total`, the size of the set `Bytes`), so that facts about it are
facts about finite sets. A call is three steps, since nothing is locked before line 113: read
the counters, read the routes and the clock (`Stamp`), compare and remember
under the lock (`Publish`). `seen` and `cur` are the locals of a call. A rate is
represented by the amount it stands for, rate times interval. `moved`, `first`,
`reported`, `plain` and `smooth` are history; the sums are kept up while calls
take turns and the interfaces counted stay the same, for which alone they are
promised anything. A call whose counters cannot be read changes nothing and is
no action.

`Installer`. `pc` is the place in the script; `file` tells for the binary, the
environment file and the unit which installation wrote it; `state` tells whether
`state.json` has a binding and an incoming channel; `backup`, `oldState`,
`wasActive`, `wasEnabled` are the shell's variables and the copies in `$TMP`.
Every command that may fail has a disjunct that does; once `INSTALL_CHANGED` is 1
it leads into the trap. `set -e` holds in the trap too: a `cp` that fails there
ends it, the place `"stuck"`. `Killed` may come at any step. Beside the script the
service starts, enrols, dies and is restarted, and a duplicate agent saves its own
idea of the state. `systemctl` does what it is told; `/tmp` lasts; a list of
routes saved during an installation is data that `state` does not tell apart.

## 3. What the runs show

| Run | Distinct states | What it checks |
|---|---|---|
| `route_loop` | 157,899 | the loop computes the declarative list, and the result is a fixed point of load and save |
| `route_history` | 648 | the shape of the list in memory and file, when the two may differ, what a restart keeps |
| `transport` | 120,858 | the end is unanimous, no spinning, backoff after contact, refinement of the vote and of the history of the list; a working route is reached, a WebSocket is held, a signal ends the process |
| `session` | 226,504 | outcome, channel of errors, refinement of the contract; no goroutine stays, a dead path and a signal end the session |
| `enrollment` | 5,954 | the saved key is the bound one, no wasted token without a lost answer, enrolment in the end |
| `pull_identity` | 536,500 | a run alone serves, pinned certificate and binding survive |
| `pull_server` | 219,272 | slots and instances are counted and come back, which results are lost, what a clean stop means, no instance without verification |
| `collector` | 2,843,505 | no byte is reported twice, and none is left out |
| `installer` | 632,539 | what a rollback restores, the copy of the binding, no mixed service, the incoming service, termination |
| `transport_every_route`, `transport_bad_route`, `installer_mode` | counterexample | section 6 |

Each property of a passing run has a mutant in `PROJECT.json`: a definition with
a plausible slip, kept in the module beside the right one under a comment that
begins with "A slip", under which TLC finds that very property violated.

The inductive invariants (`LoopInv`, `HistoryInv`, `IInv`, `SessionInv`, `BindingInv`,
`PullInv`, `ServerInv`, `CollectorInv`, `InstallInv`) are in no run: they are proved
(section 4). Added to the INVARIANTS of the run of their module, each holds there
too, `InstallInv` also on the 18 million states of two installations (`MaxInstalls`
2, `MaxTries` 1) that were looked at. Every invariant and every action property of
a passing run is stated by a theorem as well: the run shows that it is about
states that occur, the theorem that the bounds of the run do not matter.

### Bounds, and why they are enough

* `MaxRoutes` (`maxPanelRoutes`, five in the code): 2 in `route_loop` with lists
  of up to 5 texts, so that lists run over the limit by three and every
  combination of blanks, junk, repeats and padded copies occurs; 3 in
  `route_history`, so that first route, environment and reserves compete for
  room; 2 in the runs of `Transport`, where a position is the first one or the
  last one. The proofs are for every limit.
* `Enrolments`, `Extras`, `Lists`: the states of first runs, the values of
  `NODESERVICE_WS_URLS` and the lists of welcomes. They contain clean,
  padded, repeated, overlong, useless and empty lists, and an agent enrolled
  with a text that is no URL.
* `MaxLevel = 2`: `level` is capped, since 2 is already "not the first wait".
* `MaxInbox = 2`: messages the panel may have under way, so that a refusal may
  stand behind another message and a welcome behind a challenge.
* `Keys`: three, so that two runs may have requests on their way while a third
  makes its key. `Start` needs a key that is not in use; a fourth process waits
  until an older request has arrived or is lost.
* `Given`: five texts with a blank and two kinds of repeats, of which two
  entrances remain; only the second one answers once the environment is calm.
* `Runs`, `Ids`: two overlapping runs of `configure-pull` and four identities: the
  two pairs of the runs, the one in the files and the pinned one. Both sets are
  symmetric; no liveness is checked in that run.
* `PullServer`: two slots (four in the code) and three requests, so that one is
  refused while two hold a slot; the deadlines are the code's, in ticks of 5 s:
  `OpenTicks` 2 (5 s for the TLS handshake, 5 s for the headers), `BodyTicks` 2,
  `ProbeTicks` 5, `WriteTicks` 6, `GraceTicks` 1. Body and probe together reach
  seven ticks, past the write deadline of six. `Links`: one accepted link of each
  protocol, and links that differ from one of them in one thing.
* `Collector`: two calls, two physical interfaces and a tunnel, `MaxBytes` and
  `MaxTime` 2: enough for a third sample after two intervals, a byte counted on
  two interfaces, a reset, and a sample that overtakes another. Interfaces of a
  kind and calls are symmetric; no liveness is checked.
* `Installer`: `MaxInstalls` 1, with every installation that may have come before,
  the remains of one cut short included, among the initial states; `MaxTries` 3
  looks at the new service (10 in the code), so that there is a first, a middle
  and a last one.

### Fairness

Weak fairness is assumed of what the code bounds by a timer or does by itself:

* `Transport`: dial has 5 s, the handshake 20 s, a pulse 6 s, pulses give way to a
  WebSocket attempt after one minute, the backoff is at most 60 s, systemd
  restarts after `RestartSec=5`. The end of a session and all that the
  environment does is *not* fair. Liveness of routes is promised from the moment
  the environment is calm: `BecomeCalm` picks what works from there on (one route,
  over one transport), the other routes may refuse, hang or break for ever. The
  agent must know that route: a promise is made while it is in its list.
* `Session`: the goroutines run; a ping is due every 30 s and its pong within
  15 s, so `PingTick` and `Pong \/ PingFails` are fair; reading is fair when there
  is something to read or the connection failed; the heartbeat is *not*
  (`SendTick` may not happen), and the panel and the path are not.
* `Enrollment`: the agent and systemd act, a request has 15 s, each request is
  received or lost in the end. Calm means: no more crashes and failed saves, and
  the entrances in `Answering` answer in time.
* `PullServer`: time passes, what times out ends, and `Shutdown` returns. Nothing is
  assumed of the panel, the route or Xray: a probe ends by its own context.
* `Installer`: the commands of the script end, except the download, for which the
  script sets no timeout. The service, systemd and the duplicate are not fair.

`CHECK_DEADLOCK FALSE` stands where the system may rest: `RouteLoop` ends, the
server of `PullServer` stops, and in `transport` and `transport_bad_route` a
WebSocket session that works goes on for ever without a step of `Run`.

## 4. What is proved

All theorems hold for every value of the constants that satisfies the named
assumptions: `RouteAssumption` (a usable text is not empty and trimming it
changes nothing, the limit is positive), `StoreAssumption` (the values of the
enrolment, the environment and the panel are lists of texts, an enrolled state
has an address), `TransportAssumption`, `SessionAssumption`, `InputsAssumption`,
`EnrollmentAssumption`, `PullAssumption`, `LinkAssumption`, `ServerAssumption` (a probe
is shorter than the write timeout, 25 s and 30 s in server.go 171-183),
`CollectorAssumption` (finitely many interfaces, none both physical and virtual),
`InstallAssumption`. TLC evaluates each of them in a passing run.

**RouteListProofs.** The kept positions are the first ones of a finite set of
positions; `Rank` numbers them from one without gaps. From this `SetEndpointsNormal`
(the result is `Normal`: not empty, within the limit, no repeats, head equals
the old field) and `NormalIsStable` (cleaning such a list changes nothing).

For the operations of `RouteStore`, `StoreInv` (types and normal lists in memory
and file) is preserved by each of them, through these two theorems; the same
lemmas serve `RouteProofs` and `TransportProofs`.

**RouteProofs.** `LoopInv` says that after `at - 1` texts the list of the loop is the one
the declarative definition builds from the positions passed. It is preserved by
`Take` because the new position has the next rank, and by `Skip` because the set
of kept positions does not change. Hence `LoopIsSetEndpoints` and
`SavedListIsStable`, for lists of every length. `HistoryInv` gives `RoutesNormal`,
`FileFollowsMemory`, and the action property `FirstRouteSticky`. `StartKeepsRoutes`
needs the ranks in a merged list: an address of the environment is, in the merged
list, at a rank at most one higher than in the list of the environment alone
(`FreshRank`: before it are only the first route and, one place further, texts
that are before it there), so it is kept unless it is the last of a full list; and a list
with room left has left nothing usable out (`RoomKeepsAll`).

**TransportProofs.** `RejectionIsUnanimous` is not inductive: the code compares two
*numbers*. `CountInv` relates them to sets: while the round runs,
`rejected = Ended` exactly when the refused attempts are all attempts made so
far (`Asked`), and the attempt of a live session is counted before it is over.
`RoundInv` keeps the positions inside the list; `ContactInv` says that a round with
contact has its backoff reset by the time it decides. `IInv` is their conjunction
with the types and `RoutesNormal` (without which an empty list would spin). From
`IInv` follow the three safety properties and `RoundsAreVotes`, the refinement:
every step of the client is a step of `RejectionVote` or none. The other
refinement, `ListHasHistory`, maps a running process to `up` and a process that has
ended to its file: every step of the client is a step of `RouteHistory` or none, so
what is proved of the list there (the first route sticks, a start keeps the
routes, the file follows the memory) holds of the list of the client.

**SessionProofs.** `SessionInv` says where errors come from (`RefusalInv`: an error that
is "refused" was sent by the panel, on each way an error takes: message, loop,
channel, result), how many there are (`ErrsInv`: no more than loops ended,
hence room for one of each) and what exists in which phase (`PhaseInv`). One
lemma, `StepOfOne`, covers the steps of a single loop. From it the safety
properties and `KeepsContract`.

**PullIdentityProofs.** `PullInv`: what the run that has the directory to itself has
achieved by each of its steps (`ProgressInv`), that nobody else is active
(`SoleInv`), and that no active run is about to replace a pinned pair or to save
an unbound state over a binding (`PinnedInv`, `KeptInv`). From it the three
properties of the run, for any number of runs, kills, overlaps and damages.

**EnrollmentProofs.** `BindingInv` says that an answer at hand is the one to the
request being waited for, whose request is therefore no longer on its way, and
that what is about to be saved is what the panel bound (`KeyInv`); and that a
bound token without a file belongs to an answer at hand, unless one was lost
(`SpentInv`). The steps that go on to the next entrance share one lemma, the
panel has one of its own. `FileKeyIsBound` and `TokenSpentForNothing` follow, for
any entrances, any number of keys and requests in any order. `TypeOK` needs that
there is an entrance at all: the first text given is not blank, hence the list
is not empty (`SomeEntrance`).

**SnapshotProofs: the server.** `ServerInv` has the types, `SlotsAreCounted`,
`ResultArrives` and `StopIsClean` among its conjuncts, with what makes them inductive:
no reply before the end of a handler, and none cut off by a process that runs
(`ReplyInv`); a fetch is no older than its own timeout (`AgeInv`), so with
`ProbeTicks < WriteTicks` a result can be too late only if the body took time; an
instance runs a link that passed both checks (`ProbeInv`), from which
`InstancesVerify` follows by the definition of `Outbound`. Most steps concern one
request; `StepOfOne` reduces them to it, and counts the slots once for all of them.

**SnapshotProofs: the collector.** `NoByteTwice` is not inductive, since bytes are on
their way through three places: counted by the kernel, read by a call, stamped
with the interfaces. `BytesInv` says of each place that what was reported, plus all
that the call under way and the one after it can still report, is at most what
passed. While a call has read but not yet chosen its interfaces this must hold
of every choice (`ReadBytes`). `AloneInv` says that calls take turns while `plain`,
`GrowthInv` that sums only grow while `smooth`; from these `ReportsAddUp`. The lemmas
on sums (`TotalMono`, `TotalGrows`) come from cardinalities of finite sets, for any
number of interfaces.

**InstallerProofs.** `InstallInv` says at each place of the script which files are the
new ones (`FileInv`), what the copies in `$TMP` are worth (`BackupInv`), where the
binding is (`BindingInv`: in the state directory except between the erasure and
the copying back, and then in the backup), that the service is off while files
are of two installations (`ServiceInv`), and what the state and the enabled
service are (`StateInv`, `EnabledInv`, `IncomingInv`). One lemma per part, one step per
action of script, service, duplicate and machine. From it the four safety
properties, for any number of installations in a row and any number of looks at
the service; the run has one installation.

Only model-checked, because liveness needs `ENABLED`, which is beyond the prover:
`WorkingRouteIsReached`, `WebSocketIsHeld`, `SignalEndsProcess`, `NoGoroutineLeft`,
`SessionEnds`, `CalmEnrols`, `InstallationEnds` and `SlotComesBack`. That part of
`NoGoroutineLeft` which is an invariant is proved (`NothingLeftOpenTheorem`,
`PostNeverBlocksTheorem`).

## 5. How the parts fit together

`Transport` relies on a session's outcome: at most one welcome phase, and
"refused" only when the panel refused. That is `SessionContract`, and
`KeepsContract` shows that `Session` implements it; the attempt and session
actions of `Transport` are the contract's `Establish` and `End`. `Transport` and
`RouteHistory` share the operations of `RouteStore`, and `ListHasHistory` shows that
`Transport` uses them as `RouteHistory` says. `RouteStore` takes the list operators
from `RouteList`, whose only loop is checked and proved against the code in
`RouteLoop`. `PullServer` is composed with `VpnProbe`: the links a probe may run
with are those its operators accept. `Installer` uses of `configure-pull` what
`PullIdentity` establishes, that it sets the incoming channel and keeps the
binding, and of `run` the order in which it looks at the state.

## 6. Disagreements met while modelling

1. `transport_every_route`: the comment at client.go:106 says that all entrances
   refused. The code asks the list read at the start of the round; a welcome
   heard in that round may have brought a route that is never asked before the
   agent ends with exit code 78.
2. `transport_bad_route`: a welcome over WebSocket with a heartbeat interval that
   is not positive panics in `time.NewTicker`; the restarted process meets the
   same first route again, so the next route is never used, against the promise
   of client.go:4-5. The pulse path checks the interval (fallback.go:159).
3. `installer_mode`: install.sh:288 says that an installation without
   `--listen-port` switches the agent back to outgoing mode. It removes the
   firewall rule, but the incoming channel stays in `state.json`, and `run` goes by
   it (cmd_run.go:68): the service listens on, and its token is ignored.

Seen while modelling, without a run of their own:

* A new list of routes is put in memory before it is saved; if the save fails, the
  panel's repetition of the list compares equal and is not saved either
  (client.go:166-178). `FileFollowsMemory` says when the two may differ.
* A request given up at a slow entrance may have bound the token; the next
  entrance then refuses, for ever, though it is available, and enroll.go:118-119
  gives that very case as the purpose of the reserves. `CalmEnrols` excludes it by
  `wasted`.
* install.sh:165-166 promises that any later error brings the old installation
  back as a whole. The trap runs under `set -e`: where one `cp` of the rollback
  fails (no copy, because the backup failed and counts all the same, a full disk,
  or "text file busy" while a duplicate executes the binary) nothing after it is
  restored, and the service stays stopped. `RollbackRestores` therefore speaks of
  rollbacks that ran to their end. The binding survives in either case, since a
  trap that ends early leaves `$TMP` where it is (`BindingKept`).
* install.sh:257-258 waits for a *stable* active service; the loop ends at the first
  look that finds it active.
* metrics.go:2-3 says that the first tick after a connection has no rates. The
  collector is made once (client.go `New`), so only the first of the process has
  none; after a reconnection the rate is over the whole outage.
* An agent made by `configure-pull` alone has no `PanelURL`, which every probe
  needs (probe.go:325-329): each ends at stage "config".

## 7. What is not modelled, and the plan

Not modelled because it is data or I/O: JSON and HTTP encoding, signatures, the
text of VPN links and Xray configurations, reading `/proc`, the metrics that are
read afresh each time, the rules of the firewall, the arguments of the installer,
logging, flags, hardening. Below the model: `fsync` and the order in which a file
system makes a write and a rename durable; Go's memory model (no two goroutines
of the parts modelled share a variable without a channel or a mutex).

Planned next, in this order:

1. Proofs of the safety parts of the liveness properties: bounds on what each
   place can still do (the age of a handler that holds a slot, the looks an
   installation has left).
2. Two installations at once, and the composition of `Installer` with `PullIdentity`
   step by step.
3. The interval of the pulse ticker, which stays that of the first welcome.
