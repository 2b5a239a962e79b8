# Verification of scd

TLA+ models of **scd**, the daemon that keeps tunnels of subscriptions
configured in running Xray servers, checked with TLC and, where a result should
hold for every size, proved with TLAPS.

## The system

The repository holds four programs: `scd` (the daemon), `wgp` (makes candidate
files for wireguard and masque sources), `sfc` (caches subscriptions) and `gtl`
(serves a static payload). The lasting control logic is in scd.

| part | state | operations | talks to |
|---|---|---|---|
| `scd/state` | per target: tunnels (mapping, monitor), per source: hashes, topology, candidates, selection state; one mutation lock per target | `Update`, `View`, `LockTarget`, `ReplaceSourceTopology`, `ReplaceSourceTunnel`, `DropSourceTunnels` | everyone |
| `scd/syncer` | one running sync | load sources, compare hashes, drift check, full apply, slots of candidate sources, orphans | `apply`, `state`, Xray |
| `scd/apply` | – | `Outbounds` (with rollback), `Inbounds`, `Routing`; `AddTunnel`, `ReplaceTunnel`, `RemoveTunnel`; the outbound cap | Xray |
| `scd/monitor` | monitor fields of the tunnels | tick, probe, `Repair`, `Rejoin`, `ReplaceFailed`, dependency waits, balancer check, remote ping | `state`, Xray, probes |
| `scd/selection` | quarantine, hysteresis series | `Rank`, `Pick`, `Replacement`, `Decide` | sync and monitor |
| `scd/balancer` | last selection of each balancer | selection tick | `state`, Xray |
| `scd/daemon`, `cronloop` | running loops | start, tick, overrun, shutdown | all loops |
| `scd/status` | – | snapshot, aggregation | reads `state` |
| `wgp/provider/warp` | record of devices (key, token, profile, losses, attempt), per process: slots still to rotate | tick: check, register, change key, line | WARP API, store, output |
| `wgp/provider/proton` | record: key generation, slots (key, certificate, server), session; per process: rotation to come, better counts, dead session | tick: generation, certificates, servers, revocation, lines; calls with a refresh | Proton API, store, output |
| `wgp/daemon`, `store`, `output` | status of each provider, record and candidate file, both replaced by rename | tick, save, publish | providers, scd reads the file |
| `sfc` | cache file per subscription, payload per output | refresh, serve | upstream, scd |
| `gtl`, parsers, config, schema | – | pure | – |

What is hard here: scd has no transaction with Xray. Every change is a row of
RPCs, each of which may be refused, or executed without an answer. Xray may
restart between any two of them and silently forget everything; scd may restart
and forget what it did. The sync and several monitor workers want to change the
same tunnels; a lock per target separates their RPCs, but decisions are made on
views taken before the lock, and probes go to ports copied at the start of a
tick. A failed row of calls must leave memory telling the truth about Xray, or
the next repair removes the wrong outbound, exceeds a provider's limit, or
nothing repairs the tunnel ever again.

The providers of `wgp` have the same trouble with their APIs: a registered
device or an issued certificate cannot be taken back by a crash, so what is
saved before and after each call, and in which order, decides whether devices
pile up, keys get lost or certificates are revoked that scd still uses.

What makes each part correct:

* sync and apply: hashes are stored only for what Xray holds; a failure is never
  forgotten; ports are distinct; a restart of either program is healed;
* monitor: a repair never makes a second copy of a tunnel, its mapping names the
  outbound that exists, and the state "repairing" ends;
* candidate sources: never more than `maxActive` outbounds at any RPC, never one
  key on two outbounds, never a pair in quarantine, warnings that fit the slots;
* warp: registrations are paced, a line never mixes two keys, the file is
  emptied by losses only, and every slot heals;
* proton: certificates of older generations are revoked, but not before their
  time; a server serves one slot and slots do not flap; concurrent calls never
  lose the session;
* sfc: what was served stays served, a restart without the upstream serves the
  same, and outputs catch up;
* dependency waits: the monitor never gives a candidate up for the failure of a
  dependency, quarantines that such a failure caused are released, and every wait ends;
* a whole sync: it touches nobody else's resources, the status tells what it
  did, and every source ends up applied once nothing fails any more;
* daemon: ticks of a loop never overlap, a late push is not taken for another
  one, and a shutdown ends the process and is nobody's failure.

## Modules

| module | models | lines it follows |
|---|---|---|
| `Xray` | the Xray API (external) by the contract of `xrayapi/client.go`: outbounds, inbounds and rules of one source, refused calls, lost answers, restarts | `xrayapi/client.go` |
| `Target` | memory of a target, the lock, the outbound cap, tick, probe, repair, rejoin | `state/state.go`, `apply/cap.go`, `monitor/tunnels.go`, `monitor/repair.go` |
| `FullApply` | the full apply of a source with its rollback, drift | `apply/*.go`, `syncer/syncer.go` |
| `VlessSource` | a VLESS source: sync, monitor, edits, restarts | `syncer/syncer.go` |
| `Selection` | choice of candidates, pure operators | `selection/*.go` |
| `CandidateSource` | a wireguard or masque source: sync of slots, replacement by the monitor, quarantine | `syncer/wireguard.go`, `monitor/replace.go`, `apply/tunnel.go` |
| `MCCandidate` | the candidate files of the runs | – |
| `Warp` | the WARP provider with its record, its status and the published file | `wgp/provider/warp/warp.go`, `wgp/daemon/daemon.go`, `store.go`, `output.go`, `transport.go` |
| `Proton` | generations, certificates, revocation, publication, login and logout of the Proton provider | `wgp/provider/proton/tick.go`, `login.go` |
| `ProtonServers` | the assignment of servers to its slots | `tick.go`, `assign` |
| `Balancer` | answers of `GetBalancerInfo`, the selection tick and what it records, as operators | `balancer/*.go`, `xrayapi/balancer.go`, `xrayapi/errors.go`, `state/xray.go` |
| `DependencyWait` | the waits of one candidate source with an own and a foreign dependency | `monitor/wait.go`, `state/wait.go`, `monitor/replace.go` |
| `Gate` | what a wait promises: the abstract specification that `DependencyWait` implements | – |
| `MCWait` | the answers of the run | – |
| `Inputs` | from the text of an input to its tags | `inputsrc.go`, `vless/parse.go`, `manifest/*.go`, `normalize.go` |
| `ConfigRules` | the rules between the parts of a configuration, and tag namespaces | `config/rules.go`, `apply/namespace.go` |
| `SyncRun` | a sync over all subscriptions and sources of a configuration | `syncer/syncer.go`, `syncer/check.go` |
| `StatusView` | what snapshot and report say about the state of `SyncRun` | `status/*.go`, `balancer/selection.go` |
| `MCSync` | configurations and texts of the run | – |
| `Daemon` | loops, balancer check with its push, collection, server, shutdown | `daemon.go`, `cronloop.go`, `monitor/balancer.go`, `monitor/remoteping.go`, `status/aggregate.go`, `httpserve.go` |
| `ProtonSession` | concurrent calls on its session | `wgp/provider/proton/session.go` |
| `Sfc` | refresh, cache file and served outputs | `sfc/*` |
| `TargetProofs`, `VlessProofs`, `CandidateProofs`, `WaitProofs`, `SyncProofs` (with `StatusView`), `DaemonProofs` (with `Sfc`), `WarpProofs`, `ProtonProofs` | lemmas and theorems | – |

`VlessSource` and `CandidateSource` each extend `FullApply`, which extends
`Target` and `Xray`: a composition of one source on one target.
`DependencyWait` composes the tick, its workers, the sync and the selection tick
of another subscription over `Balancer`; `StatusView` reads the state of
`SyncRun`, which runs over `ConfigRules` and `Inputs`. The modules of
`wgp` and `sfc` stand alone: these programs share only files with scd, and a
provider of wgp does not see another.

**State.** A tunnel is a number in tag order. Its outbound tag is
`<<t, "obs">>` (with the observatory prefix, seen by the balancer) or
`<<t, "bare">>`. `outs`, `ins`, `rules` are what Xray has; `port`, `cur`, `mon`,
`repairErr`, `hashes` what memory says. The hashes of the three kinds are stored
and reset together, so they are one value: the ports of the tunnels they were
computed from, or `NoHash`. `pc[p]` is the next step of the sync or of the
worker of a tunnel; one RPC is one step. Memory updates between two RPCs belong
to the step they follow, as `Memory.Update` is atomic.

**Calls.** A failing call is refused (`Refusable`) or executed without an
answer (`Losable`); `faults` counts them and the restarts, bounded by
`MaxFaults`. Calls the contract itself refuses (a duplicate add, the removal of
an unknown inbound) fail without a fault.

**Time.** Quarantine ends by the action `Expire`. The code compares with the
clock at the start of a sync, the model lets it end between two steps too, which
allows more.

In `DependencyWait` the unit of time is one activation of the selection
schedule. Time passes between two ticks of the monitor and while somebody waits
for the target lock; the few calls of a tick and of a worker take none. A late
selection tick loses its activation, which is one of the bounded changes. In
`Daemon` every instant is a slot of every schedule; a slot is kept relative to
now, so that any overrun is one of "due", "past" or "to come".

**Waits.** `wait` is the entry of the source: whether it waits (`since`), for
how long (`age`), the health of each dependency and what is left of its pause.
A tunnel goes by its tag, which stands for a candidate: `active` has the
candidates with a slot, `fails` their counts. The sync takes part with all it
does to them: once `checkSource` has passed, it replaces, removes and fills slots
(`ChangeSlots`: `decide`, `fill`) or sets up all of them anew (`ApplyInFull`),
during a wait as at any other time. It asks neither `SourceWaiting` nor whether a
dependency has an outbound; a dependency that has merely lost its outbounds makes
the source wait and does not stop a sync. So a wait does not freeze the tunnels.
What it promises is about the monitor, which alone puts candidates into
quarantine, and `Gate` says it: it knows whether the gate is closed, the active
candidates, their counts, those about to be given up and those held back. A
candidate is given up only while the gate is open and for failures counted since
it last opened; the sync (`Sync` of `Gate`) passes by the gate, but holds nothing
back and activates nothing that is held back. The refinement mapping is
`closed <- wait.since`, `due <-` the candidates whose worker passed the checks of
`checkTunnel`, and `held <-` the quarantine. Which candidate gets a slot is any
one outside quarantine, and the calls that put it there are one step here and
many in `CandidateSource`.

**A whole sync.** A name is a sequence of words, so that the prefix rules of tags
can be checked as they are written. `Init` takes every configuration of the given
set that `Accepted` (the rules) lets through. `pending` has the sources of a
subscription that the sync still has to visit; `Current` is the next of them, by
`DependencyOrder`: the lowest id of those whose dependencies are done. The apply of one kind is one
step: `FullApply` splits it into calls. The monitor appears by what it does to
the state of the sync, at any moment at which it can get the lock.

**Daemon.** A tick of the sync, tunnel or selection loop is one step that ends
well, fails or is cut off; what it does is in the other modules.

**Providers.** A failed call of a provider API was not executed, or it was and
its answer was lost; a failed save may have replaced the record (only the sync
of the directory failed). A crash is possible between any two steps; a shutdown
that cancels a call is one, since the code returns without saving. In `Warp` a
key is a number that grows with each key change, in `Proton` a certificate is
its serial number and a key the serial of its first certificate. Time passes
between ticks only: a tick reads the clock once. `rested` (`Proton`), `beaten`
(`ProtonServers`) and `lossy` (`Sfc`) are history variables for the properties.
In `ProtonServers` scores are whole numbers (the rounding of the margin in
floating point is abstracted), and `AssignUnsaved` is the tick whose save
failed. In `ProtonSession` the tokens of a session are one number: a refresh
replaces both.

**Left out of the modelled handlers.** Cancelled contexts before an apply
starts (no effect), the fields that only choose log levels or feed the status
page (`FailingSince`, `Flap`, `NoLiveSince`, `Warnings`, `Generation`), errors
of encoding a resource, a changed configuration hash (a candidate source applies
in full after scd restarts anyway) and more lines than the port range has ports.
`VlessSource` and `CandidateSource` leave out what `SyncRun` and
`DependencyWait` have: other sources, fixed tags, `StateLost`, waits. In the
providers: the parsing of answers (a bad answer is a failed call), a lowered
number of candidates (slots cut off at the start of a tick) and the filters of
the server list. In sfc: the report, the log edges and the profile headers.

## Runs

| run | instance | shows |
|---|---|---|
| `vless` | 2 tunnels, 2 parallel workers, 1 fault, 1 failing server, 1 edit | `MemoryMatchesXray`, `NoFalseDrift`, `RepairingIsOwned`, `OnlyRollbackDoubles`, `CommitIsExact` |
| `vless_heals` | 2 tunnels, 1 fault (neither a refused `RemoveRule` nor a lost answer of `AddRule`), 1 failing server, 1 edit | `Heals` under fairness |
| `candidate` | 3 candidates of 2 keys, 2 slots, 1 fault (calls, Xray restart), 1 edit | `CandidatesMatchXray`, `PortsDistinct`, `WarningsFitSlots`, `KeysApart`, `QuarantineHolds` |
| `candidate_heals` | 2 candidates, 1 slot, 1 fault (with the same exception), 1 edit | `SlotsHeal` under fairness |
| `wait` | 1 slot, 2 candidates, 4 answers of the own and 2 of the other balancer, 2 changes | `DeadPairsReleased`, `KeepsGate` (refinement of `Gate`), `ReplacedWhileHealthy` (both of the monitor), and `WaitsEnd` under fairness |
| `sync_run` | 2 sources and up to 2 subscriptions in 192 combinations of dependencies, dialer, fixed tags and names, 4 texts, 1 fault | `StatusTells`, `ReportAgrees`, `OthersLeftAlone`, and `SyncHeals` under fairness |
| `daemon` | a sync loop, a balancer loop with a push, a collecting loop, a server, 1 failure, a signal | `OneTickPerSlot`, `PingOfOnePush`, `ShutdownIsNoFailure`, and `Stops` under fairness |
| `warp` | 2 MASQUE devices, 3 faults of all kinds | `LineOfOneAnswer`, `RegisterPaced`, `EmptiedOnlyByLoss`, and `DevicesHeal` under fairness |
| `proton` | 2 slots, 3 faults of all kinds, 1 renewal, login and logout | `OKIsCurrent`, `RevokeWaits`, and `OldRevoked`, `CandidatesHeal` under fairness |
| `proton_servers` | 2 slots, 4 servers, 3 scores, 3 changes, failed saves or restarts, from any record | `OneSlotPerServer`, `MovesOnlyIfBeaten`, `Settles` |
| `proton_session` | 4 calls, 2 expiries, 2 faults | `OneRefreshPerExpiry`, `SavedBeforeUsed` |
| `sfc` | 2 subscriptions with 2 outputs, 2 edits, 3 faults | `CacheIsServed`, `KeepsServing`, `CatchesUp` |

Bounds. Two tunnels are enough for a worker, another worker and the sync to
meet; three candidates of two keys are the least where a replacement can take a
key that is in use. One fault reaches every call of every row, and the failed
continuation of each; a failure in the recovery from another one, the case the
outbound cap is for, is covered by the proof of `Cap`. Two parallel workers with
two tunnels are all there are. `MaxDowns` is the number of probes that fail
although Xray routes the tunnel; a probe of a tunnel that is not routed fails
without using it up. The candidate file of a source may also become empty.
Providers: a rotation that reaches one slot and not the other needs two slots
and one fault, its repetition after a restart a second one, and a failure in
the recovery a third. `MaxAges` = 1 makes a certificate due for renewal; an expired
one (two renewals missed) is beyond the run, and only the theorems about `Proton`
cover it. Two free servers besides two used ones are the least
where slots can compete and pass a server on. `fails` counts up to `ReplaceAfter`, beyond which the code
does not tell counts apart. In `wait` one slot is enough for every property
but the competition of two workers for the lock, which the sync does as well; a
worker whose tunnel the sync has replaced by the second candidate is reached. The
answers are the least that reach every verdict (healthy, empty, missing, no
answer), and two changes let a dependency fail and return within one wait, or
both fail. In `sync_run` one fault of any kind meets every configuration; what
ends a failure (an API that returns, a usable input) costs none. In `daemon`
`Goroutines` bounds the ticks of one loop at two, one more than the property
allows. No symmetry: tunnels are ordered by tag and port.

Fairness. Weak fairness of the sync, the tick and each worker: the loops are
cron loops that run until shutdown, each RPC has a deadline, and an empty round
is a step of the loop. Strong fairness of the steps that take the target lock:
a Go mutex goes to starvation mode after 1 ms of waiting, so a waiter gets it
although others take it in between. Weak fairness of `Expire`: a cooldown is a
finite time. Faults and edits have none. The providers and sfc: weak fairness of
the tick (their schedule runs until shutdown and every call has a timeout);
`Proton` adds strong fairness of `Advance`, since time passes between two ticks
again and again. `DependencyWait`: weak fairness of the monitor's steps, of the
sync's write and of the selection tick, strong fairness of the steps that take
the lock and of time. `SyncRun`: weak fairness of the sync. `Daemon`: weak
fairness of every loop, tick, push and of the process, because the Go scheduler
runs every goroutine and every probe, push and fetch has a timeout. A rejected Proton session needs a person to log in, so the
liveness of `Proton` is stated up to `dead`.

Limits of the liveness runs. `Heals` and `SlotsHeal` do not promise healing
after every single failure: they hold without refused `RemoveRule` and without
lost answers of `AddRule` (their comments and the two `.cfg` files say so), and
for a VLESS source with one fault. Outside these limits TLC finds behaviours where a tunnel stays
broken: removing a rule is best effort, so a repair can leave the old rule
pointing to the outbound it removed. The rule tag is there, so drift does not
see it; the tunnel counts as withdrawn, so no repair touches it. With two
faults, a restart of Xray in the middle of a repair followed by a failed list of
outbounds in the apply leads there too, because a failed apply of a VLESS source
keeps the old hashes. The documentation promises nothing for these cases; they
end with the next change of the subscription or a restart.

## Observations

Two statements of the documentation that the code does not keep in a corner, both
healed later:

* *A failed repair is retried at the next failed check* (`README.md:665-666`,
  `monitor/repair_test.go:491-492`). Not when its last call, `AddRule`, failed
  (`repair.go:170`): the mapping is then the repaired one, and the next failed
  check takes the tunnel for an already withdrawn one. Drift heals it at the
  next sync, since the rule is missing (`Heals`).
* *A failed rotation of a WARP key is tried again* (`README.md:1462-1464`). Not
  when the save after the key change failed (`warp.go:486`): the slot counts as
  rotated, the record keeps the replaced key, and its line is published as ok.
  `DevicesHeal` names this as its only exception; the history variable `unsaved`
  is for it.

The properties state six more exceptions exactly as the code has them:

* The README says that sync, repair and rejoin never put two copies of a tunnel
  into Xray. Repair and rejoin do not (`OnlyRollbackDoubles`, proved). The
  rollback of a full apply can: an executed but unanswered `AddOutbound` is not
  among the added tags, and the removed copy is restored next to it.
* "Two active candidates never share" a key (`selection.go:25`). `Decide` counts
  the key of an active candidate only while it is in the file
  (`decide.go:143-145`). When several active candidates have left the file at
  once, an earlier slot may get a candidate with the key of a later slot's
  tunnel, which stays in Xray until the action of its own slot runs. `KeysApart`
  states what holds: it is over before the lock is released, or the hashes are
  reset and the next sync applies the source in full.
* A full apply starts the series of a better candidate over, says the README.
  `ReplaceSourceTopology` does, but `full` (`wireguard.go:192`) then stores the
  selection state it read before.
* Until a WARP device is lost its line stays published, says the README. A
  healthy answer that cannot make a line withdraws it; what holds is
  `EmptiedOnlyByLoss`.
* Old Proton certificates are revoked late enough for scd to switch, says the
  README. The time counts from the rotation, not from the publication. When no
  slot finds a free server after a rotation the file stays, and its keys are
  revoked all the same; `OKIsCurrent` excludes it only for a provider that
  reports ok.
* *RotatedAt is when the last slot moved to Gen. The certificates of older
  generations are revoked revokeOldAfterMinutes later* (`tick.go:39-41`). A new
  generation (`tick.go:137`) does not reset `RotatedAt`. When a slot of the
  generation before could not rotate, the old time is still due, and the tick
  revokes at once what a renewal of another slot replaced minutes ago. The proof
  attempt found it (it takes five faults, more than the run allows). It is
  harmless, since the record holds the newer certificate of the same key;
  `RevokeWaits` says so, and that nothing else goes early.

Worth knowing as well: a Proton logout that fails after it revoked certificates
leaves their keys in the record. With `rotateOnStart`, as in the run, the next
process replaces them; without it they would be published until their renewal.
`balancerGroups` (`status/groups.go`) ranks a balancer by the depth of one
source at a time, so a group may stand before one it depends on when several
sources share it; only the order of a page depends on it. And sfc writes the cache before it parses, so a
source without a usable line replaces a good one; the outputs survive in memory
only, and after a restart without the upstream they are not available. After a
failed write of the cache, a failed load puts the older source over the newer
one (the exception in `KeepsServing`).

## Proofs

For every value of the constants: any number of tunnels, slots, workers, calls,
loops, subscriptions, edits and faults, from the named assumptions
(`XrayAssumption`, `TargetAssumption`, `VlessAssumption`, `CandidateAssumption`,
`WaitAssumption`, `DaemonAssumption`, `WarpAssumption`, `ProtonAssumption`,
`SessionAssumption`, `ServersAssumption`, `AnswerAssumption`, `SfcAssumption`,
`SyncAssumption`), which only say that bounds and servers are numbers, that what
there has to be one of is not empty, that an order is one, that an answer about a
balancer, a configuration and a text have their types, and that the free mutex is
no call. Each theorem rests on an
inductive invariant that TLC checked first.

* `CandidateProofs!CapHolds`: `Spec => []Cap`, which no run checks. `Cap` alone is not inductive: the
  list of `CheckCap` and the add are two steps. `CapInv` adds that `outs` is
  finite, that a granted process is at an add (`CapGranted`) and saw a free
  place that is still free, and that whoever is at an add holds the lock
  (`LockHeld`), so no one else can use the place. `CapStep` shows that a
  process that moves and adds only what it was granted keeps `CapInv`; one lemma
  per component shows that its steps are such moves.
* `VlessProofs!CopiesOnlyFromRollback`: `Spec => OnlyRollbackDoubles`. `CopyInv`
  says what each process knows of Xray between two calls: a worker that is about
  to add a tunnel's outbound has seen the other copy removed (`WorkerKnows`);
  a sync that adds has removed all that it listed (`SyncKnows`); and the lock
  keeps the others from changing it.
* `VlessProofs!RepairingHasOwner`: `Spec => []RepairingIsOwned`, from
  `RepairingInv` (a tunnel that is repairing has its worker inside the repair)
  and the lock.
* `VlessProofs!HashesAreExact`: `Spec => CommitIsExact`. A commit is the last
  step of an apply of many calls; the invariant says for each step of the apply
  what it has listed, removed and added so far and that Xray has just that,
  unless a restart happened in between.
* `VlessProofs!MemoryIsXray` and `DriftIsReal`: `Spec => []MemoryMatchesXray` and
  `[]NoFalseDrift`. Both speak of moments at which the lock is free; the
  invariant says what Xray has in the middle of a repair, a rejoin and an apply
  as long as no call has failed, so that the step that releases the lock has put
  everything back.
* `VlessProofs!InboundsApart` and `CandidateProofs!PortsNeverShared`:
  `Spec => []PortsDistinct`. For a VLESS source the ports come from the plan
  (`PlanDistinct`); the rollback restores old ones, so the backups are part of the
  invariant. For a candidate source a slot is filled with the least free port:
  `FreePortFresh` shows by counting that the search ends on a port nobody has, and
  `PortInv` that the ports of memory, of the slot under way (`SlotPorts`) and of
  the saved topology (`SavedPorts`) stay apart. `TargetProofs!ApplyKeepsPorts` is
  the full apply's share of both.
* `VlessProofs!TypeCorrect`: `Spec => []TypeOK`;
  `VlessProofs!LockExcludes`: `Spec => []LockHeld`.

* `CandidateProofs!KeysNeverShared`, `WarningsNeverTooMany`, `QuarantineKept` and
  `CandidateTypes`: `Spec => []KeysApart`, `[]WarningsFitSlots`, `QuarantineHolds`
  and `[]TypeOK`. They need what the choices return, for any file: a ranking gives
  every candidate a place of its own (`SortedRanks`, `RankRanks`); `Pick` returns at
  most `maxActive` candidates, one per key and none in quarantine (`PickFits`, by
  counting seats); and `Decide`, slot by slot, never gives out a tag or a key twice
  nor a pair in quarantine (`DecideGood`). `SlotInv` says that a choice is still
  good when it is carried out, calls later: of the actions of a sync that are left
  (`ActsHold`), of a worker (`WorkerHolds`), of a vacant slot (`FillHolds`), of the
  plan of a full apply (`PlanHolds`). Keys also need what Xray has that memory does
  not: only tunnels of the slot under way, or of a source whose hashes are reset
  (`SlotOuts`, `Covers`, `SavedKeys`). Warnings are counted together with the
  tunnels: a prune or a filled slot keeps `unreplaced \cup Known` within
  `MaxActive` (`WarnedFit`).
* `CandidateProofs!CandidatesAlwaysMatch`: `Spec => []CandidatesMatchXray`. In the
  middle of a replacement or of a filled slot Xray lacks the tunnel that goes and
  has part of the one that comes; `SlotHas` says for each call what, `MatchInv`
  joins it with the repair, the rejoin and the full apply of `TargetProofs`, which
  the proof shares with `VlessProofs!MemoryIsXray`. While nothing fails, no slot
  operation may be refused either: `Room` shows by counting that `CheckCap` finds
  a free place whenever memory and Xray agree. The add of a full
  apply passes it because its plan never has more than `maxActive` tunnels
  (`PlanHolds`).

* `WarpProofs!LinesOfOneAnswer`, `RegistrationsPaced` and `FileEmptiedByLoss`:
  `LineOfOneAnswer`, `RegisterPaced` and `EmptiedOnlyByLoss`. `AnswerInv` keeps the
  profile of a record with its key at every save (`OfItsKey`); `PaceInv` relates
  the recorded time of the last attempt, on disk and in memory, to the real one:
  the attempt is saved before the request is sent; `FileInv` says which devices
  the published lines are of (`Owned`, `Occupied`) and that their records are kept
  until the API reports the loss (`SavedLines`, `Kept`).
* `ProtonProofs!RevocationWaits`: `Spec => RevokeWaits`. `KeyInv` says of every
  valid certificate that no slot holds that it has waited long enough, or at least
  since `RotatedAt`, or that the record has a newer one of its key (`Waits`). A
  save can break this, so the invariant also says by what the copy of the tick
  differs from the record before each save (`CopyInv`), and `Fits` what a record
  must satisfy to be written.
* `ProtonProofs!OKMeansCurrent`: `Spec => []OKIsCurrent`, if `RotateOnStart` or no
  logout begins. A tick without an error has certified every slot it passed
  (`CertifiedInv`); the certificates of the current generation are valid, or the
  next tick rotates (`ValidInv`). The assumption is needed: TLC shows that without
  rotation a provider reports ok after a logout that stopped halfway (see above).
* `DaemonProofs!CacheAlwaysServed` and `ServingKept`: `Spec => []CacheIsServed` and
  `Spec => KeepsServing`. Versions only grow on their way from the upstream to the
  cache file and the payload (`FileInv`, `HandInv`, `OrderInv`), and what a refresh
  has passed, or not reached yet after an earlier one, is served from its file
  (`ServedInv`).
* `ProtonProofs!RefreshOncePerExpiry`, `TokensSavedBeforeUse` and
  `NoSelfRejection` (the API rejects a refresh only after a fault; no run checks
  it): properties of `ProtonSession`, for any number of
  calls, expiries and faults. None is inductive alone.
  `SessionInv` adds that the call that refreshes has the mutex (`MutexHeld`),
  that a call about to refresh the latest tokens saw them expire
  (`RefreshIsDue`), that tokens in use, record and API are in order
  (`TokensOrdered`), and that before the first fault only a refresh under way
  sets record and API apart (`UntilAFault`).
* `WaitProofs!WaitsImplementGate`: `Spec => KeepsGate`, the refinement of `Gate`
  by `DependencyWait` for any number of slots and candidates, any pause and any
  answers of the balancers (`WaitAssumption`). A step maps to a step of `Gate`
  only in states where a worker that has checked the wait under the lock is not
  overtaken by a new wait (`OpenWhileReplacing`); that rests on the lock
  (`HoldsLock`) and on the tick that starts a wait only before its workers run
  (`TickOwnsWorkers`); a tunnel that a sync dropped meanwhile counts no failures
  (`DroppedUncounted`). `WaitInv` is their conjunction. The write of a sync, with
  whatever it did to the tunnels, maps to `Sync` of `Gate` because the quarantine
  it chose by and writes back is the current one (`QuarantineInv`).
* `WaitProofs!DeadPairsAreReleased`: `Spec => []DeadPairsReleased`. The sync
  writes back a copy of the quarantines; `CopyIsCurrent` (under the lock the copy
  is what memory has) is what keeps a release from being undone.
* `WaitProofs!OnlyReplacedWhileHealthy`: `Spec => ReplacedWhileHealthy`, of the
  quarantines and replacements of the monitor: a worker that changes tunnels holds
  the lock, and a sync begins no quarantine (`CopyIsCurrent`). The answer a worker goes by is one the own balancer gave (`HeardInv`); that the client
  reads an answer without an outbound as one without targets is an induction over
  its tags (`NoTargets`).
* `ProtonProofs!NoServerTwice` and `ServersMoveOnlyIfBeaten`: `ServersSpec =>
  OneSlotPerServer` and `MovesOnlyIfBeaten`. A tick is two loops over the slots; by
  induction over their turns (`LoopsFit`) no server is on two slots after any of
  them, and a server that a slot left during the tick is no better than some
  server that was free before (`SwitchInv`): so what makes a slot count a better
  server was visible to everyone, and the count in memory never exceeds the ticks
  that really happened (`ServersInv`), after restarts and failed saves too.
* `DaemonProofs!TicksAreAlone`, `PingsAreOfOnePush` and `ShutdownsAreNoFailure`:
  `Spec => []OneTickPerSlot`, `[]PingOfOnePush` and `[]ShutdownIsNoFailure`, for any
  sets of loops of each kind, any schedules and any number of failures
  (`DaemonAssumption`). `LoopInv` ties the running flag to the one tick that runs
  (`TickAlone`) and makes a loop that fired wait for a later instant (`NoBurst`);
  `PingInv` says that a push is in flight exactly while one is pending, with the
  report that is recorded (`OnePush`); `ErrorInv` that a fetch cut by the
  cancellation is collected after it (`CutAfterCancel`).

* `SyncProofs!OthersAlwaysLeftAlone`: `Spec => OthersLeftAlone`, for every
  configuration that the rules accept, any texts, restarts and failures. The sync
  decides by prefixes of tags what it may remove; that the decision is right
  rests on the rules. `PrefixesApart` derives from `SourcesOK` and
  `TargetSourcesOK` that no prefix of a source starts one of another, with and
  without the observatory prefix; so what one source makes no other owns
  (`MadeApart`), nor is it an orphan (`OwnedNoOrphan`), and nothing fixed is owned
  (`FixedNotOwned`). The proof uses that a source's resources are named by its
  prefixes, and leaves open which tunnels a text yields.
* `SyncProofs!StatusAlwaysTells`: `Spec => []StatusTells`. `EndInv` says for any
  moment of a sync which sources it has ended with (`Handled`): each of them is
  noted, or has no error and no dependency without state (`ResultInv`), those it
  has not reached are not noted yet, those it could not load are noted
  (`FailedInv`), and the source it is at was ready when it was checked
  (`CurrentInv`). A source that has state keeps it till scd restarts
  (`NoNewNil`), so what was true of a dependency at the check still is at the end.
* `SyncProofs!ReportAlwaysAgrees`: `Spec => []ReportAgrees`. `HashInv` adds that an
  applied text is one that its source takes, so that the report, which parses the
  input again, expects the tunnels that the sync looks for (`SameMissing`); the
  rest is the namespaces again: what the report knows is no orphan
  (`SameOrphans`), and no two tunnels have an outbound tag in common
  (`OneTunnel`, `ShownOnce`).

`TargetProofs` holds the lemmas `VlessProofs` and `CandidateProofs` use: every
step moves one process, takes, keeps or releases the lock as the code does, and
keeps the types; a repair, a rejoin and a full apply without a failed call take
Xray from memory by the calls under way and bring it back (`WorkerHas`, `SyncHas`,
`ApplyHas`).

Only model-checked: liveness (fairness and ENABLED are beyond the prover). Every
other property of a run is a theorem. What a definition by induction over data
computes for a given input is not proved either: which tags a text yields
(`Inputs`), whether the search for cycles of `ConfigRules` finds every cycle. The
theorems of `SyncProofs` hold whatever they return; a cycle that the rules let
through would show in the run as sources that never heal.

## Plan

Done: `Xray`, `Target`, `FullApply`, `VlessSource`, `Selection`,
`CandidateSource`; `Balancer`, `DependencyWait`, `Gate`; `Inputs`,
`ConfigRules`, `SyncRun`, `StatusView`; `Daemon`; `Warp`, `Proton`,
`ProtonServers`, `ProtonSession`, `Sfc`; the theorems above.

Open, in this order:

1. A refinement of an abstract tunnel (up, withdrawn, gone) by `VlessSource`.
2. A lowered number of candidates in the providers, a second fault in `sync_run`.

## Not modelled

The encoding of links into Xray resources (`outbound`, `paramcheck`,
`resources`), the schema and the text formats of configuration and candidate
files, cryptography and wire formats: pure data without control. The dashboard,
logs and printed reports: text. The static provider and `gtl`: no state that
changes.
