# k8s-httpcache in TLA+

k8s-httpcache is a controller that runs in the same container as a Varnish
cache.  It watches Kubernetes objects and files, renders a VCL template with
what it sees, loads the result into `varnishd` through `varnishadm`, and ends
gracefully on a signal.  This directory holds a formal model of it: TLA+
modules translated from the Go source, TLC configurations that check them on
small instances, and proofs checked by TLAPS.

    cd tla
    tlc -workers 2 -config ReloadLoopSafety.cfg MCReloadLoop.tla
    tlapm ReloadLoop_proofs.tla

and so on with the other runs of `PROJECT.json` and the other `*_proofs` modules.

`PROJECT.json` lists the components, the runs, the mutants of each property,
the source lines every definition stands for, the findings, the hazards and the
theorems.  Operators commented "Slip" are used by no specification: each is a
plausible bug of one definition, and putting it in that definition's place makes
TLC refute a property, which shows that the property depends on the code.

## 1. The system

| Component | State | Operations | Talks to |
|---|---|---|---|
| Event loop, reload path (`src/main.go` runLoop, handleReload, rollbackReload) | latest inputs, pendingReload, templateChanged, templateSwapped, debounce timers, recovery timer, lastVCLHash, pendingShutdown | one `select` case per event group, handleReload, markRetry, clearPending | Renderer, Manager, watchers (channels), sigCh |
| Event loop, backend table | latestBackends, liveGen, removedGen (tombstones) | apply or drop an update, sweep tombstones | discovery and explicit backend watchers |
| Event loop, certificate path (handleCertReload) | pendingCertNames, tlsRecovery | load each pending certificate off the loop, retry | Manager.LoadCert |
| Renderer | tmpl, prev | Reload, Commit, Rollback, Render, injectDrainVCL | event loop |
| Template and file watchers (watchFile, FileValuesWatcher) | last content, a channel of capacity one | poll, compare, notify | file system, event loop |
| Backend discovery (`internal/watcher/discovery_watcher.go`) | managed backends with generations, initialized, initial state, NameRegistry | syncServices from three goroutines, collectInitialState, forwarding goroutines, shutdown | informers, child BackendWatchers, event loop |
| Backend and EndpointSlice watchers | last sent endpoints, the active child | sync, sendFromChild, coalescing send | informers, the consumer of a channel of capacity one |
| ConfigMap, Secret, TLS certificate watchers | last sent value | sync, coalescing send | informers, event loop |
| Manager, reload (`internal/varnish/manager.go`) | VCL name counter | vcl.load with retries, vcl.use, discardOldVCLs | varnishd through varnishadm |
| Manager, certificates (`internal/varnish/tls.go`) | tlsCertIDs, pending discards | list, load, commit, rollback, discard | varnishd through varnishadm |
| varnishncsa monitor | crash counter, process, event queue | start, restart, give up, stop | varnishncsa, event loop |
| Shutdown (handleDrain, runShutdown, the exits of runLoop) | where the sequence is, the poll in flight | mark sick, wait, poll, drain broadcast, stop varnishncsa, signal and reap varnishd | Manager, broadcast server |
| Broadcast server | frontends, connection count, draining | fan out, Drain, connState | other pods, event loop |
| Writers of subprocess output (`internal/redact`, prefixWriter) | redaction targets, a partial line in each writer | Write, Flush | varnishd, varnishncsa, standard output |
| varnishstat collector (`internal/telemetry`) | the backends that have shown a probe | Collect | varnishstat, the metrics server |
| Start (run up to the loop, awaitInitial, Manager.Start, loadInitialTLSCerts) | what has come in, whether signals are caught, whether varnishd runs | await every watcher's first value, render, spawn, ping, load certificates | watchers, varnishd, signals |
| Configuration, status | - | pure or guarded by one mutex | - |

What is hard here, and to what each part must stick:

- **Reload path.** The loop's goroutine waits for `varnishadm` off the loop, so
  that template edits, inputs and signals arrive during a reload; every step of
  a reload may fail, and a failing template must be rolled back without taking
  any other failure for the template's.  *Correct means*: rollback always has
  the template that varnishd accepted last; a failure is retried and never
  forgotten; at rest varnishd runs what the newest inputs render.
- **Backend table and discovery.** Adds and removals of one name come from
  several goroutines through several queues, in any order.  *Correct means*: one
  owner per name; a removed backend is not resurrected; a live one is not
  deleted; nothing waits for ever.
- **Shutdown.** Two processes, timers, polls, signals and an abandoned
  `varnishadm` call meet.  *Correct means*: it ends, reaps both processes, and
  the exit code tells.
- **varnishncsa monitor.** Stop, restart and crash race.  *Correct means*: the
  breaker trips after exactly the configured number of rapid failures, and no
  process is left.
- **Manager, reload.** Attempts use fresh names, some of which leak. *Correct
  means*: the VCL in use is never discarded, leaks do not accumulate.
- **Manager, certificates.** Staging is shared by all names, and the new id is
  guessed from two listings. *Correct means*: an active certificate is never
  discarded, a failed load leaves no trace.
- **Watchers.** A channel of capacity one is drained and refilled while it is
  read. *Correct means*: the consumer gets the newest value in the end.
- **Broadcast.** The last connection may close while the drain begins. *Correct
  means*: the end of the drain is not missed, and a broadcast reaches every pod.
- **Writers of subprocess output.** The stream is cut anywhere, and buffers are
  bounded.  *Correct means*: no secret comes out whole, no line is torn.
- **Drain-VCL injection.** The template may put its declarations in any order.
  *Correct means*: the result compiles, and the drain sub runs first.
- **Start.** It waits for watchers that may fail, and from some point on it has a
  process that would outlive it.  *Correct means*: it ends, and leaves no varnishd
  behind.
- **Collector.** Several VCL generations coexist.  *Correct means*: every scrape
  exports the newest.

## 2. The plan

The order follows what the program is for.

| # | Modules | Composes | State |
|---|---|---|---|
| 1 | `ReloadLoop`, `MCReloadLoop`, `ReloadLoop_proofs` | Renderer slots, watchFile, recovery timer, one Manager.Reload | done |
| 2 | `BackendUpdates`, `BackendView`, `Discovery`, `MCDiscovery` | watchers, registry, queues and the loop's table; implements `BackendView` | done |
| 3 | `Ncsa`, `Shutdown` | the loop's exits with the monitor | done |
| 4 | `TlsCerts` | LoadCert with handleCertReload | done |
| 5 | `Watchers`, `MCWatchers` | informers, watchers, channels, fan-in up to the loop | done |
| 6 | `VclManager`, `VclContract` | the commands of one reload, retention of old VCLs; implements `VclContract` | done |
| 7 | `FileValues` | volume swap against scan, with the same fan-in as `Watchers` | done |
| 8 | `Broadcast` | Drain with connState, the fan-out and its keys | done |
| 9 | `Debounce` | the deadline of a group and its cap | done |
| 10 | `Redact`, `DrainInjection`, `Collector` | the writers of subprocess output; drain-VCL injection; the generation a scrape exports | done |
| 11 | `Startup` | run up to the loop, with its ways out | done |
| 12 | `MCParts` | `Ncsa` and the modules of 6 to 11, side by side | done |
| 13 | `Discovery_proofs`, `Shutdown_proofs`, `TlsCerts_proofs`, `Watchers_proofs` | theorems about 2, 3, 4 and 5 (`Ncsa` is proved with `Shutdown`) | done |
| 14 | `Parts_proofs`, `Redact_proofs` | theorems about 6 to 11; those about `Redact` have a module of their own | done |
| 15 | `Counting` | lemmas about finite sets of numbers and about recursive functions that 13 and 14 share | done |

Abstract specifications: `BackendView` of one name of the backend table,
`VclContract` of one call of `Manager.Reload`; both refinements are checked and
proved.  So is every invariant and action property of the passing runs.  Liveness stays
with TLC: it rests on fairness and on `ENABLED`, of which the prover knows
nothing.

Three of the invariants are about what a recursive definition makes of a sequence
of any length (a text, a VCL, a walk of a map).  The library's induction theorems
take an operator as parameter, which the installed provers cannot instantiate;
`Counting` therefore has induction in the form of a least counterexample, which is
a set: `UpTo` for a set of numbers, and `IteratesOf`, by which the recursive
functions of these modules exist and go step by step.

## 3. ReloadLoop

State is that of `runLoop` and its closures under the same names; `rend` is the
Renderer's `tmpl`/`prev`, `call` the `Manager.Reload` last started, `active`
what varnishd runs, `proven` a history variable, the template last committed.
`pc` says whether the goroutine selects, waits in `awaitOffLoop` (`"reload"`),
waits inline in one of the two calls of `rollbackReload`, or has begun to shut
down.  Templates, inputs and VCL texts are opaque; the constant `Output` says
what renders to what.  Each `select` case is an action and runs up to the next
wait: `HandleReload` is all of `handleReload` up to `Manager.Reload`,
`ReloadSucceeded`, `ReloadFailed` and `ReloadAbandoned` the rest of it.
`LoadVCL` and `UseVCL` are varnishd's side, in which the attempts of one
`Manager.Reload` are folded into the outcome of the last; section 8 has them one
by one.

| Run | Question | Result |
|---|---|---|
| `ReloadLoopSafety` | all safety properties with every fault, four template files, three inputs | pass |
| `ReloadLoopLive` | `GoodTemplateAdopted`, `Converges`, `SignalHonoured` | pass |
| `UseTimeout` | a `vcl.use` that was obeyed although its client timed out | violated |

*Bounds.* The templates are one for each way a file may fare: in force, good,
bad when rendered or compiled, unreadable; the inputs render alike, differ, or
fail.  Nothing else about them can be told apart by the code.  The backoff is
counted in units of its first delay with a cap of three.  The live run leaves
out temp-file failures and lets the operator wait until the loop has picked an
edit up (`SlowEdits`).  With `SlowEdits = FALSE` TLC refutes
`GoodTemplateAdopted`: `watchFile` compares with its own last poll, not with
what the renderer read, and an edit undone between two polls goes unnoticed.

*Fairness.* Go's `select` picks uniformly among the ready cases, hence strong
fairness for the cases; weak fairness for goroutines that simply run.  The CLI
timeout bounds every call of `varnishadm`; that a fault does not last for ever
is an assumption about varnishd, without which nothing can be promised.

`SignalHonoured` rests on the calls' timeouts in one place only: the reloads of
`rollbackReload` run inline.  Under `LoopFairSpec`, which lets calls hang, TLC
refutes it, and a signal there waits for all attempts of the call.

*Proved* (`ReloadLoop_proofs`, for all templates, inputs and outputs):
`TypeOK`, `ProvenBaseline`, `RetryScheduled`, `SettledIsApplied`,
`RollbackOnEvidence`, and `RunningIsRecorded` where no `vcl.use` takes effect
behind a timeout (the assumption `"useApplied" \notin Faults`).  None of these
is inductive.  The invariant `Control` joins them with what is known while a
call is out (`CallInv`: which VCL it carries and that it is what the template in
force rendered for the newest inputs) and how timer and delay correspond
(`RecoveryInv`); `RunningInv` adds that `active` is the recorded VCL or that of
the call.  One lemma per shared piece of `handleReload` says that it re-establishes
the invariant, and the step lemma has one case per action.

## 4. BackendUpdates, BackendView, Discovery

`BackendUpdates` is the `backendCh` case of `runLoop`: the table with `liveGen`,
`removedGen` and the sweep.  `Discovery` adds everything that feeds it: informer
stores (`listed`, `dirty`), `managed` and `registry`, generations (`lastGen`;
`born` remembers whose they are), child watchers as channels of capacity one,
forwarding goroutines (`fwd`, `hold`), queues to the loop, removals a reconcile
has still to send (`unsent`), and the start of the program up to the merge of
the initial states.  `Reconcile` is `syncServices` up to the point between the
remove pass and the second add pass, `AddPassAgain` the rest under the lock:
the registry has a lock of its own, and another watcher may claim a name in
between.  Endpoints are "none" or "pods"; metadata travels with them.

`BackendView` is what discovery promises of one name: the table shows an
incarnation or nothing, moves on to newer ones only, and hides only one that
owns the name no more.  `Discovery` implements it under the mapping at the
definition of `View`.

| Run | Question | Result |
|---|---|---|
| `DiscoverySafety` | two selectors over two namespaces with one bare name: `OneOwner`, `TableExact`, `MirrorsAtRest`, and `ViewSpec` | pass |
| `DiscoveryStartup` | Services that come and go while the program starts: does the start end, and does the table come to match the cluster? | pass |
| `StartupHandoff` | a name that changes hands during the start | violated |

`TableExact` joins `NoGhost` (nothing removed comes back) and `NoLost` (nothing
live is deleted).  `MirrorsAtRest` is the safety side of `Settles`: where no
goroutine has anything left to do (`AtRest`), nothing is missing.  It is checked
on the large instance, `Settles` on the one with the start of the program.  The
large instance may stutter where it is at rest (`MCSpec`), and TLC looks for
deadlocks: no goroutine is ever stuck with something left to do.

*Bounds.* `MaxChanges` changes of the cluster, `MaxGen` incarnations, and queues
of `ChanCap` entries (a queue here stands for `updateCh` of 16, the fan-in
goroutine and a share of `backendCh`).  A handoff needs two incarnations, a
handoff back three; four candidates for one name reach them with two removals,
and as a name is handed on only by a removal, three incarnations are all that
two changes can bring about.  Capacity one makes every send block; only the
start needs room for all removals, as nobody reads before the loop runs, and the
explicit reconcile of `Run` would wait behind more than sixteen removals: with
`ChanCap = 1` TLC shows two of them blocking the start until `--startup-timeout`.  Two switches fence off what is wrong: `CalmStartup` (Services do
not change before the loop runs; `StartupHandoff` lifts it) and `PromptLoop` (a
tombstone is not evicted while an update of its incarnation may still come).
With `PromptLoop = FALSE` TLC refutes `NoGhost`: a loop blocked for longer than
the tombstone TTL evicts the tombstone before it reads the update it guards
against, although `sweepExpiredTombstones` takes that to be impossible.  For the
same reason as in `StartupHandoff`, `Settles` excludes a Service that is given
up while the program starts.  Deadlock is not checked in the other two runs: the
system stops when the changes are used up.

*Fairness.* Every goroutine runs (weak fairness); `Settles` needs nothing of the
environment as the changes are bounded.

The registry also notifies the watcher that released a name.  With a registry,
as `run` always installs, this alone would adopt a suppressed namesake; the
second add pass does it sooner.

*Proved* (`Discovery_proofs`, for all watchers, Services, names, incarnations,
changes and capacities; `DiscoveryAssumption` asks only that watchers and Services
are finitely many and go by numbers): `TypeOK` and `OneOwner` without any switch,
`NoGhost` under `PromptLoop`, `NoLost` under `CalmStartup`, `TableExact`,
`MirrorsAtRest` and the refinement `ViewSpec` under both.  So each half of `TableExact` needs one switch
only, and the finding of `StartupHandoff` can cost a backend but never brings one
back.  `DiscoveryInv` is what holds unconditionally: an incarnation is the newest of
its Service and an owner the newest of its name (`Owners`), every queue, debt and
goroutine carries incarnations of its own watcher, removals only of cancelled ones
(`Flights`), and `liveGen` and `removedGen` name incarnations of their backend
(`Table`).  `GhostInv` adds that a cancelled incarnation that may still be added is
barred by the table or its removal is yet to come; `LatestInv` that the last add on
its way for a live incarnation carries the value its child sent last; `NeverBack`,
for the refinement, that what was passed over cannot be added again.  `RestInv`,
for `MirrorsAtRest`, says who will still be woken: a managed Service that is not
listed has its informer's callback ahead of it (`Noticed`), and so has a listed
Service of a free name, or a release notification (`Claimed`); hence at rest every
listed name has an owner.  That a pass which frees nothing leaves no such name free
is `NothingFree`.  *Only model-checked*: the liveness properties, and that the
program stops at rest only, which is about `ENABLED`.

## 5. Ncsa, Shutdown

`Ncsa` is `monitorNCSA` with its process; `recent` remembers how the last runs
ended.  `Shutdown` has the loop's goroutine (`pc`), the reason the loop ended
(`path`), varnishd, the drain with its poll goroutine, and the reload that
`awaitOffLoop` may have abandoned (`call`), with VCLs numbered as loaded.

| Run | Question | Result |
|---|---|---|
| `Parts` (section 8) | `MonitorSound`: the breaker trips after exactly three early failures in a row, and no process is left; `StopReturns` | pass |
| `ShutdownSafety` | processes reaped, exit code, drain not cut short, crash explained | pass |
| `ShutdownEnds` | does every way out end, whatever the processes do, and do a second signal and varnishd's exit end a drain whose timers are far off and whose varnishstat hangs? | pass |
| `AbandonedReload` | does the VCL whose drain backend was marked sick stay in use? | violated |

*Bounds.* Two signals (one to start, one to interrupt), one reload, a queue of
two varnishncsa events and a breaker that trips at once in the composition; the
monitor alone runs, in `Parts`, with the breaker of the code and a queue of three,
which overflows.  varnishncsa is taken to be enabled, `StopNCSA` being a no-op
otherwise.  The liveness run leaves the reload out.

*Fairness.* The loop runs; `varnishadm`, the broadcast drain and StopNCSA are
bounded by their timeouts; SIGKILL kills; a `select` that finds the stop ready
again and again takes it.  Nothing is assumed of varnishstat, and of varnishd
and varnishncsa only that SIGKILL ends them.  `Ends` also assumes that the
drain's own timers expire (`DrainTimers`), `DrainInterruptible` does not.  *Assumed of varnishd*: `backend.set_health`
with a bare name applies to the active VCL.

*Proved* (`Shutdown_proofs`, for every limit of the breaker, capacity of the queue,
number of signals and reloads, with or without a drain, polls and escalation):
`MonitorSound` of `Ncsa` alone, and `TypeOK`, `Reaped`, `SuccessMeansAsked`,
`ServedToTheEnd` and `CrashExplained` of the composition.  `MonitorInv` counts the
run of failures at the head of the history with `crashes`; `WaysOut` says which
reason for the end goes with which place of the goroutine and what is over by then;
`DrainInv` that whatever ended the drain is on record.  The composition takes each
step of the monitor as it is, so its invariant carries over, but for the last
reading of the event queue, which the loop does alone.

## 6. TlsCerts

`TlsCerts` is the certificate path of the loop on top of `Manager.LoadCert`:
`pendingCertNames` with its two timers, the loop over the pending names
(`todo`), and `LoadCert` as one step for each `varnishadm` command, with
`tlsCertIDs` and the queue of discards.  It starts with `loadInitialTLSCerts`,
which gives up at the first error (`pc = "dead"`).  varnishd is the environment:
what is staged, what is active, and what is discarded but listed until the next
commit.  A certificate is the number of its load; `issued` remembers for whom and
with what it was loaded, `served` what `LoadCert` last reported for a name, and
`untraced` whether an id was lost in a way the comments of the code accept (a
listing that failed, a rollback that failed, a commit obeyed although it failed,
a full backlog).  Without that history variable `NoLeak` is refuted at once.
`NothingForgotten` joins `NoLeak` (no certificate is left in varnishd for good) and
`NoNameForgotten` (a name that failed is tried again).

| Run | Question | Result |
|---|---|---|
| `TlsCerts` | does every name keep what was loaded for it, is nothing forgotten, and is every good certificate served in the end? | pass |

*Bounds.* Two names, since one certificate can be taken for another's only with
two; two good certificates, one broken, one empty; any three commands fail, in
each way the command can fail, which is enough for a failed load or commit, a
failed rollback after it, and one more failure in the other name's rotation; two
changes of Secrets; a backlog of one, which is full at the second failed
discard.  `ServesLoaded` also holds with three changes, in a run too long to
keep.

*Fairness.* The loop runs and its timers expire, every command returns (its
timeout); failures and changes come to an end as they are bounded.  *Assumed of
varnishd*: a commit activates everything staged and drops everything discarded;
a rollback forgets what is staged and leaves discards alone.  *Not modelled*: a
signal while `LoadCert` is out, which only ends the loop; the file's content; the
gauge of active certificates.

*Proved* (`TlsCerts_proofs`, for every finite, non-empty set of names, any material,
backlog, faults and number of changes): `TypeOK`, `ServesLoaded` and
`NothingForgotten`.  The invariant has to say what `LoadCert` knows at each
command: the id it is about to find is above every id issued (`Fresh`,
`IssuedBefore`), what was served is held by an active certificate that is not
queued for discard (`ServedHeld`), and unless an id was lost the listing taken
before is exactly what is active (`AllTracked`).  `LoadsCounted` ties the loads to
the changes and failures that caused them, so that the numbers of certificates
stay within `Ids`.  *Only model-checked*: `CertsConverge`.

## 7. Watchers

`Watchers` is one watcher of the cluster, of any kind, up to what the loop has.
The cluster is its own history (`objects`, `services`), and everything downstream
carries numbers of versions, so that "older" and "newer" can be said.  A watcher
of objects has an informer (`store`, `dirty`), two goroutines that synchronise
(the informer's handler and `Run`), a mutex that is held from the read of the
store to the send (`read`), and a channel of capacity one.  `BackendWatcher` adds
the Service and starts and cancels watchers of EndpointSlices (`child`), whose
values pass through a forwarding goroutine each (`forward`); what it has still to
send before it gives the mutex back is `out`, because a reader may take the
first of two sends.  The initial collection of `run` and the fan-in goroutines
are the same reader.

| Run | Question | Result |
|---|---|---|
| `Watchers` | is what a watcher compares with what its reader sees last, does a stopped child keep quiet, does nothing go back, and does the newest arrive? | pass |

*Bounds.* Two changes of the cluster: from pods to a host and back, or deleted and
created again, with slices that change instead; that is two children, the first
of which may still deliver.  Two spellings of one value stand for texts that
decode alike, two host names and two sets of metadata for all that
`EndpointsEqual` and `maps.Equal` can tell.  *Fairness*: goroutines and informers
run.  *Not modelled*: address families, ports and names of endpoints, the
annotation filter, the end of the program.

*Proved* (`Watchers_proofs`, for every kind of watcher, all contents and Services,
and any number of changes): `TypeOK`, `ReaderCurrent` and `NeverBack`.  `WatchInv`
follows a value on its way: one goroutine at a time has read the store and it has
read the newest (`Reading`), what is in the channel and in the forwarding goroutine
is in order with the newest last (`Passing`), and when nothing of the active child
is under way the reader has it (`Told`); of the whole, what will have been sent
when the mutex is given back is what the watcher compares with (`FinalOK`).
`OrderInv`, for `NeverBack`, says of every two values between the watcher and the
loop that the later is not older, and of the active child that it has nothing to
send that is older than what was passed on.  *Only model-checked*: `NewestArrives`.

A remark on `BackendState`, which is said never to pair endpoints from one
observation with metadata from another: when an ExternalName Service changes its
host and its labels at once, `syncService` sends the old host with the new labels
first, and the fan-in may take it before the right pair follows.

A watcher's safety is `ReaderCurrent`: what it compares with is what its reader
sees last (`BaselineIsLatest`), and a stopped child is not heard (`OwnerSpeaks`).

## 8. The parts

The modules here share no state with the others, so one run explores them side
by side: `MCParts` picks a `part` at first, which then runs alone.  Each
module keeps a specification of its own (`VclSpec`, `BroadcastSpec`, ...), and the
run checks what each of them promises.

| Module | The code | State and steps | Promise checked |
|---|---|---|---|
| `Ncsa` | monitorNCSA | see section 5 | `MonitorSound`, `StopReturns` |
| `VclManager` | Manager.reload, discardOldVCLs | one step for each `varnishadm` command; the VCLs varnishd holds, labels, failures with and without effect, varnishd's exit | `NewestKept`, `ReloadContract` |
| `Broadcast` | ServeHTTP, fanoutKeys, connState, Drain | connections from Accept to the two halves of the closing callback; pods answer in any order; Drain's store, load and wait | `BroadcastSound` |
| `Debounce` | resetDebounce, the fire cases | two groups on a discrete clock, a loop that may be late | `DueInTime` |
| `FileValues` | FileValuesWatcher, wireValuesFanIn | scan by its system calls against a volume that moves or files edited in place | `Untorn`, `NeverWiped`, `DirectoryDelivered` |
| `Redact` | redactingWriter, prefixWriter | any stream over a small alphabet cut into writes, a change of the targets, both buffers, Flush | `OutputSound` |
| `DrainInjection` | injectDrainVCL | every short VCL of the declarations that matter | `DrainInPlace` |
| `Startup` | run up to the loop, awaitInitial, Start and waitForAdmin, loadInitialTLSCerts | one step for each stretch of run with its early returns; watchers that deliver or fail, varnishd, signals | `NoOrphan`, `StartConcluded` |
| `Collector` | Collect, newestVBEGeneration, observeProbe | VCLs come and go, probes answer, scrapes walk the map in any order | `ScrapeSound` |

**VclManager.**  A VCL is its number, which the code's names carry.  `clean`
remembers that nothing went wrong since the last listing: only then can the
retention be exact, and then `NewestKept` says it is, whatever was left behind by
failures before.  `VclContract` is what one call of `Reload` tells the event
loop, and what `ReloadLoop` builds on: `"ok"` has switched varnishd to a VCL never
used before, `"rejected"` has not, `"failed"` says nothing, because a `vcl.use` may
be obeyed behind a timeout (the finding of `UseTimeout`).  Two retention limits,
two attempts, three calls and two faults or label moves are enough for a leak, a
label on it and the clean-up of both.

**Broadcast.**  The closing callback is split between the decrement and the look
at the flag, Drain between the store and the look at the count: the order in
which they meet is what `DrainToldInTime` is about.  `EveryPodReported` has the
other half: a broadcast reaches every pod it started with though its client has
gone, and pods without a name, or with one name, keep entries of their own.  That
Drain ends at all is its timeout and is not a property.  `Shutdown` keeps the drain of the broadcast
server as one bounded step.

**Debounce.**  A tick is a unit of both settings; nothing in the code depends on
a finer clock.  Caps of nought (off), one (shorter than the debounce time) and
three (longer) are the three ways they can relate.  A loop that is late finds the
deadline passed, which makes the timer due at once.

**FileValues.**  A generation is the number of the change that wrote it, so a
mixture can be told.  A snapshot carries what could not be read forward from an
older one (`carried`); `Untorn` leaves these keys out, and leaves out snapshots
the code itself calls possibly inconsistent (three passes, each disturbed).
`NeverWiped` is about a file that is never deleted.  Two changes and one failing
call disturb all three passes and reach every branch of `scan`.  *Fairness*: the ticker fires, the fan-in goroutine reads, the kubelet
completes an update.

**Redact.**  `input` is all that was written, and a byte further on is its
position in it, so what was lost, doubled or let through can be said without text.
The targets are sets in which one begins as it ends, one lies within another, or
two overlap: the cases `tailHold` and `safeCut` are there for.  The buffers hold
four, and six bytes overflow both; `OutputSound` also holds with seven, in a run
too long to keep.  A Write takes the lock up to four times (`look`), and the loop
may change the targets once, between two writes or between two looks: what was a
target all along, or was one when its first byte came, must still not come out
(`MustNotShow`).  A target of several lines may be cut in two by the flush of
complete lines and is not promised to be caught, as the comment of `Writer` warns:
one of the target sets has such targets, and `MustNotShow` leaves them out.
One remark: an
over-long line that ends with nothing left in the buffers, where the subprocess
dies, is not terminated by `Flush`, so the next process's first line is appended
to it; `LinesWhole` excludes it by name (`TooLong`).

**DrainInjection.**  A VCL is the sequence of its version, imports, backends and
`vcl_deliver` subs, with comments or long strings around some; all that compile,
up to five lines, are checked.  `DrainCompiles` says that the result compiles and
the default backend stays, `DrainFirst` that the drain sub runs before the
operator's or that a warning is due.  The latter leaves out a VCL without a backend
block: there an `import std;` after the operator's `vcl_deliver` takes the drain
sub with it, and no warning is given.

**Collector.**  The generations are `boot`, the controller's and an operator's,
with tags that differ as numbers and as text.  Two remarks.  Tags of which some are
numbers and others are not have no order: 9 is below 10, 10 below 1b, and 1b below
9, so the generation exported depends on the order of the map, which the comment
of `newestVBEGeneration` means to exclude; `CollectorAssumption` therefore asks that
two foreign tags are both numbers, or that their text orders them as the VCLs were
loaded.  And
`probeSeen` is never forgotten: on Varnish 6 a backend whose probe an operator
removed from the template is reported as down, which is why `ScrapeSound` asks only
that the backend *ever* had a probe.

**Startup.**  `upc` says which stretch of `run` is next; the ways on from one are
those of its early returns.  The watchers deliver or fail at any time while
`awaitInitial` waits, and its three cases may be ready together.  A signal before
`notifySignals` ends the program on the spot, one after it is kept for the loop.
`NoOrphan` is why `notifySignals` stands before `Manager.Start` and why a start that
fails after it kills and reaps varnishd.  Two watchers show that the order in which
they are awaited does not matter, two certificates a failure after a success.
*Fairness*: run goes on, a killed varnishd dies, and where `--startup-timeout` is
off every watcher delivers or fails; where it is on, nothing is assumed of the
watchers.  What a discovery watcher needs for its first value is in section 4.

*Not modelled* of these parts: see their components in `PROJECT.json`.

*Proved.*  `MonitorSound` (section 5); in `Parts_proofs` the type invariants of the
others, `NewestKept`, `ReloadContract`, `NoOrphan`, `DueInTime`,
`BroadcastSound`, `Untorn`, `NeverWiped`, `DrainInPlace` and `ScrapeSound`; in
`Redact_proofs` that of `Redact` and `OutputSound`; each for every value of the
constants.

- `NewestKept` counts: it says nothing while a clean-up is under way, so the
  invariant adds that what is then still to be discarded is spare and older than
  the `VCLKept` that stay (`KeptInSweep`); `Counting` has the lemmas on
  cardinalities.  The refinement maps a call to three steps of the contract, and
  most commands to stutters; it needs that the VCL in use is the call's own exactly
  from its `vcl.use` on (`Progress`).
- `DueInTime`: while a group is armed, its timer is what is left of the quiet time
  or of the cap, whichever comes first (`OnTime`).
- `BroadcastSound`: the counter is the number of open connections
  (`ConnsCounted`), and the keys of two pods of one list differ, whatever their
  names and addresses are.
- `Untorn`: what a pass has read lies between the generation it began with and the
  one the link names now (`PassIsRecent`), so that they are one if the link has not
  moved; `NeverWiped`: of a file that stays, every snapshot has a value or says that
  it could not be read, and then the older one is carried forward (`LastingSeen`).
- `NoOrphan`: nothing runs before the start listens to signals (`ChildKept`).
- `OutputSound`, for any alphabet, targets, buffers and cuts: a scan of a stretch
  shows no byte at which a target begins and every byte that is in none
  (`ReplacedIs`), the prefixes go in front of lines and nowhere else
  (`PrefixedIs`), and what is held back is enough for every target that may have
  begun (`Progress`), through the four looks of a Write and a change of targets.
- `DrainInPlace`, for VCLs of any length: an insertion is a map from the user's
  lines to their new places that keeps the order (`Grown`, `Shifted`), so that of
  each of the three insertions only its place has to be looked at (`Injected`).
- `ScrapeSound`, for any generations held, in whatever order the map is walked:
  what has been met so far and its newest (`Met`, `Walked`); and a bitmap that does
  not say "up" is that of a backend which has had a probe (`ProbeInv`).

*Only model-checked*: liveness.

## 9. Findings

| Run | What the code does |
|---|---|
| `UseTimeout` | a `vcl.use` obeyed behind a timeout is not recorded, and the dedup then keeps the wrong VCL |
| `StartupHandoff` | the merge of initial states loses the generations |
| `AbandonedReload` | an abandoned reload undoes the drain |

Each is a sentence of the source or the README that the code does not keep; they
are quoted in `PROJECT.json`.  Two more are described with the bounds of
sections 3 and 4, and one was met while modelling: inputs rejected by varnishd
under both templates cost the new template (`RollbackFailed`), whereas inputs
that fail to render under both lead to the template being read again.

## 10. What is not modelled

- Configuration (`internal/config`): flags are parsed and validated once, in a
  straight line; the result is the CONSTANTS of these modules.
- The varnishstat parser, metric and label names, the decoding of values, the
  annotation filter, template execution and deep copies: functions of their
  input, with no state and no order of events, which the repository's tests and
  fuzzers reach better than a bounded enumeration would.
- The event recorder, the detection of the zone, the metrics and health servers,
  the status store: counters behind a mutex and calls whose failure is logged, on
  which no decision of the program depends.  Of the start only the way out that
  they may take is modelled.
- The arguments of processes, the admin socket's handshake, quoting, HTTP headers:
  I/O.
- The Helm chart and CI.

Type invariants are stated in every module but `DrainInjection`, whose one
variable of interest is any VCL that compiles, and all are proved.  The proofs rest on
the assumptions of the modules about their constants and on nothing else, but for
the switches and the fault named in sections 3 and 4: settings are natural numbers,
capacities positive, sets that are counted finite, marks such as "none" no values,
a target of redaction not empty (`RedactAssumption`), and the tags of VCL
generations as section 8 has it (`CollectorAssumption`).  TLC evaluates them in the
runs.  Liveness is out of the prover's reach and only model-checked.
