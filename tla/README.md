# Verification of meshtastic-mcp

TLA+ models of the parts of `meshtastic-mcp` whose correctness depends on the order of events:
who may use a serial port, how a test suite and a nightly run start and end across deaths of
their process, what threads, callbacks and clients do to the state they share, and what files
and processes are left with when a step in the middle fails. The models are written from the
Python code; paths below are relative to `src/meshtastic_mcp/` unless they start with `docs/`.

Check a configuration with `tlc -config X.cfg M`, a proof with `tlapm M.tla`; the table of
section 3 says which module goes with which configuration.

## 1. The system

`meshtastic-mcp` drives a bench of Meshtastic radios. It has two processes a user starts: an
**MCP server** (tools called by an agent, worker threads, in-process locks per port) and
**FleetSuite**, a web application (`web/app.py`) on one asyncio event loop with a SQLite
database, an embedded pytest harness and a nightly pipeline. Beside them there are command-line
programs, of which the terminal test runner and the ATAK fleet keep state of interest.

In FleetSuite all state changes happen on the event loop. A coroutine keeps the processor from
one `await` to the next, so **a step of a model is what the loop runs between two awaits**; what
the code checks before an `await` may no longer hold after it. Outside FleetSuite the actors are
threads, and a step is what one does between two places where another can be seen: a lock, a
blocking call, a shared field.

### Inventory

| Component (sources) | State | Operations | Hard part | What makes it correct |
|---|---|---|---|---|
| Port arbitration (`web/services/portlock.py`, `serial_monitor.py`) | a FIFO lock and a claim per device; references, suspended flag and reader thread of its monitor | `guard`, `claim`, `wait_clear`; `acquire`, `release`, `suspend`, `resume` | an operation queued before a claim; two awaits inside the monitor's lock; a reader that outlives its close | one exclusive user; references = subscribers; no orphaned suspension |
| Test runner (`test_runner.py`) | run flag, process handle, drive task, tail cursor, rows | `start`, `_drive`, `stop`, `reset`, watchdog, `_tail_report` | check and act apart; pytest is another process; cancellation | the flag always comes down; the report is read whole, once, in order |
| Nightly orchestrator (`nightly.py`, `web/db/repo_nightly.py`) | rows of nights; pipeline task, launch lock, cancel event | `_tick`, `_maybe_resume`, `run_now`, `cancel`, steps, `_finalize` | the process may die anywhere, restarts itself on purpose, resumes | no slot twice; a bounded number of suites; no false green; every night ends |
| Nightly soak (`nightly_soak.py`) | claims, suspended monitors, open observers, the file of sends | take a board, preflight, window, hand back | one board fails while the others go on; aborts and restarts | what was taken is given back; numbers never reused |
| Nightly report (`nightly_report.py`, `github_issues.py`) | the report row, the issue at GitHub | publish, repost, deliver | a timeout after the effect; failing writes | one issue per delivery; a posted report is there |
| Soak observer (`soak_observer.py`) | held interfaces, `lost` flags, reconnect counters | open, health tick, close | threads that cannot be cancelled; a loss reported from another thread | the lock held exactly with the interface; bounded reconnects |
| Discovery, recovery (`discovery.py`, `recovery.py`, `repo_devices.py`) | device rows, enrichment gates, backoff, cooldown, active recoveries | scan, enrich, self-heal, recover, pin, forget | what an enumeration said is written after the bench changed | the registry follows the bench; one recovery at a time; a pin is kept |
| Log forwarder (`datadog.py`) | bounded queue, batch in flight, capture set, backoff | submit, flush, post, reconcile | a batch in flight; a cancelled reconcile | nothing shipped twice; losses only where intended; one reference per device |
| Build orchestrator (`builder.py`, `repo_builds.py`) | ledger, in-flight table, artifact directories | enqueue, wait, build | a build that dies; a copy that fails half way | a cached build is whole; one builder; every row is settled |
| Background jobs (`jobs.py`, `flash.py`, `userprefs.py`, `ble_sniffer.py`, `vanity.py`) | job states, the preferences file, port locks, programs | start, stop, override and restore | jobs that overlap on a file; a stop that races the worker | preferences come back; a port is returned; an ended job leaves nothing |
| Port locks and sessions of the MCP server (`registry.py`, `connection.py`, `serial_session.py`) | lock per port, session per port, ring of lines | connect, `serial_open`, `serial_read`, `serial_close`, upload | check and lock in different orders; a ring that moves under a cursor | one owner per port; each line once or counted |
| Replay engine, CoT relay (`replay/engine.py`, `replay/cot_relay.py`) | session, queue of injected packets, threads per connection; peers, capture files | start, stop, accept, stream, inject; save, broadcast | threads of a gone connection share state with the next one | only the own connection is severed; order kept; nothing overwritten |
| Recorder (`recorder/`) | live file, archives, pause flag | write, rotate, mark, pause, stop, query | rotation against writers, queries, failures and a death | no gap before a kept row; silent after stop |
| Message hub, activity (`web/ws/hub.py`, `activity.py`) | connections, topics | publish, started, progress, done | an await per peer inside a walk | the frames of an action arrive in order; the dead are removed |
| Display mirror (`display_mirror.py`) | buffers for frames and colour tables | capture | pieces of two kinds in one stream, some lost | no picture of pieces of two frames |
| ATAK fleet (`emulator/atak.py`, `atak_cli.py`, tools of `server.py`) | clones, snapshots, emulators, the list of the fleet | up, down, command-line down | emulators outlive the server and break mid-way | none orphaned; ready means provisioned |
| Terminal test runner (`cli/test_tui.py`) | counters, tree, tailed report, child process | run, re-run, quit | messages of several threads; the report file replaced | each outcome counted once; quit leaves no pytest |
| Database, instruments, other tools and commands, UI | - | - | I/O, analysis, presentation | see section 9 |

### How the components meet

* In FleetSuite everybody who talks to a device goes through `PortLocks.guard(serial)`, which
  suspends the monitor for its body; the soak instead lays a **claim**, waits the lock clear, and
  suspends the monitor for hours. `SerialMonitor._open` asks the test runner's flag and the claim
  before it starts a reader. `TestRunner.start` and the identify sweep call `suspend_all` /
  `resume_all` on all monitors without going through any guard.
* The nightly pipeline starts suites with `TestRunner.start`, reads their result from the run row,
  runs the soak and has the report published; `tests_start` refuses a manual run meanwhile.
* In one process, the soak's observer, `connect()`, uploads, flashes in the background, serial
  sessions and instruments on serial ports share the lock of `registry.port_lock`; a session keeps
  the port after its call released the lock, and is found through the registry of sessions.
* Builds of the web application and background builds of the MCP server share the build tree of the
  firmware checkout, and the jobs with overrides share `userPrefs.jsonc`.
* Discovery tells the forwarder which devices are online; the forwarder subscribes to their
  monitors. Device actions report through the activity helper and the hub to the browsers.

### The hazards

`PROJECT.json` lists forty at their lines, each with the properties that are about it. The main
groups: what is decided before an `await` or an unlock and used after it; a flag or a file that
stands for several users (`suspended`, `running`, `userPrefs.jsonc`); a resource abandoned alive
(a wedged reader, an interface that does not close, an emulator); a death of the process between
two writes; a file that another process is writing or replacing; a thread that outlives what it
works for; a timeout after the effect.

## 2. Modules

Each component has a module with its state, `Init`, one action per operation or step and its
properties. The TLC modules (`MC*`) put components that share nothing into one instance: a variable
(`which`, `scene`) says which component a behaviour is of, and the others rest.

| Module | Models | Proofs in |
|---|---|---|
| `SerialMonitor`, `PortArbiter` | the monitor of one device; guard, claim and every user of its port over it | `PortArbiter_proofs` |
| `PortOwnership` | abstract: the port passes from nobody to one user and back; `PortArbiter` and `PortRegistry` implement it | - |
| `PortRegistry` | the in-process lock of one port, sessions, `connect()`, uploads | `SoakObserver_proofs` |
| `SoakObserver` | the observer of a soak on one device, over `PortRegistry` | `SoakObserver_proofs` |
| `TestRunner` | overlapping invocations of `start` | `TestRunner_proofs` |
| `NightlyOrchestrator` | the scheduler, the pipeline and its rows across deaths | `NightlyOrchestrator_proofs` |
| `NightlySoak` | the soak over the whole bench | `NightlySoak_proofs` |
| `NightlyReports` | publish, repost and delivery of a night's report | `NightlySoak_proofs` |
| `FleetDiscovery` | discovery, enrichment, recovery and the device rows | `PortArbiter_proofs` |
| `BuildOrchestrator` | the ledger, the builds in flight and their artifacts | `BuildOrchestrator_proofs` |
| `PioJobs`, `ToolJobs` | background builds and flashes; captures and grinds | `BuildOrchestrator_proofs` |
| `AtakFleet` | bring-up and teardown of the emulators | `PortArbiter_proofs` |
| `ReplaySession` | the engine's session over successive clients | `ReplaySession_proofs` |
| `SerialSession`, `RecorderFiles`, `MessageHub`, `DisplayMirror`, `CotRelay` | ring and cursor; log files; publishing; assembly of a screen; relay of events | `Services_proofs` |
| `LogForwarder`, `FleetCapture` | queue and batches; the references on the monitors | `SoakObserver_proofs` |
| `PytestTui` | the terminal runner | `Services_proofs` |
| `MCPortArbiter`, `MCFleet`, `MCNights`, `MCBuilds`, `MCServices`, `MCWatchers`, `MCTui` | the instances for TLC | - |

`PROJECT.json` maps every definition to its lines.

### SerialMonitor and PortArbiter

One device is modelled: locks, claims and monitors are dictionaries keyed by serial, and
nothing but the run flag is shared between devices.

| TLA+ | Code |
|---|---|
| `mon` = [known, refs, suspended, thread] | `_mons.get(serial)`: in the dictionary, `refs`, `suspended`, `thread`; `mon.left` is history: a soak was cancelled inside its `suspend()` |
| `monHolder`, `monStage` | who is inside the per-serial monitor lock, and at which await (`_open`: the database query; `_close`: the join) |
| `alive`, `stopped` | reader threads that hold the tty; those whose stop event is set |
| `claim`, `holder`, `ahead` | `_claims`, the guard's lock, and its FIFO queue (`ahead[p]` = those before `p`) |
| `running` | `_state["running"]` of the test runner |
| `pc[p]` | the position of a coroutine: an `Op` (guarded operation), `Owner` (soak), `Client` (subscriber), `Run`, `Sweep` |

`_open` and `_close` are two steps each, before and after their await. `CallContinues` says
where a caller goes when its monitor method returns. A reader may stop when told, fail by
itself, or wedge: then `CloseAbandoned` leaves it alive with `mon.thread` still set, as the code
does. A member of `Runs` is a request to the test runner, `start()` or `reset()`; a run is "driving" when the
monitor was suspended under its flag and nobody took the flag down since, and "exposed" when
`suspend_all` timed out before the device was reached, or a reset or another run's end took the flag
down under it. `Reset` takes its flag down at once and cancels any run or none. A soak may be cancelled while
it suspends (`SoakCancelled`). The guard's queue is the FIFO of `asyncio.Lock`; the monitor's lock is served in any
order, which includes the FIFO one. `Rechecking` are the operations that test `is_running()`
again inside the guard (keep-alive); all others test it only before.

### PortRegistry and SoakObserver

Here the actors are threads, so a step is what happens under `registry._LOCK` or one call on the
port lock.

| TLA+ | Code |
|---|---|
| `lock` | the `threading.Lock` of the port, with the call that took it |
| `registry` | `_sessions`, for this port |
| `proc`, `closes` | the `pio device monitor` of a session; how often `close_session` was called on it |
| `tty[c]` | the `SerialInterface` of a `connect()`; "stuck" when its `close()` does not return |
| `pc[p]` | where a call is: "swept" after `sweep_dead`, "clear" after a lookup that found nobody |
| `soak`, `job` | the coroutine that drives the observer; the thread it waits for, step by step |
| `iface`, `owns`, `held` | `held.iface`, `held.port_lock`, membership in `_held` and `_by_port` |
| `news` | a lost connection whose callback has not run |

`active_session_for_port` is two steps, `sweep_dead` and the search, since each takes `_LOCK` by
itself. `SoakObserver` uses the actions `OtherSweeps`, `OtherLocks` and `OtherUnlocks` of
`PortRegistry` for its own steps on the port, and `RegistrySpec` checks that it does nothing else.
`Aborts` are the waits at which the soak may be cancelled. `_close_blocking` is one step: it is
bounded by `_CLOSE_TIMEOUT_S`, and an interface whose close was abandoned is forgotten by the
observer as it is by the code.

### TestRunner

A member of `Runs` is one invocation of `start()`: `pc` follows it from the test of the flag to
the end of `_drive`'s finally. `proc` and `task` are the two global handles (`_state["proc"]`,
`_task`), which overlapping runs share. The report is counted in half lines, so that a poll can
meet a line that is not finished; `tail[r]` has the position, the snapshot of `report_done` and
the entries of the last chunk still to be handled; each is saved or, when its handling raises, skipped
(`skipped`). `cancelled` is a cancellation not delivered yet; `DriveCancelled` delivers it wherever the
task is suspended. `PumpFails` takes the flag down while pytest goes on.

### NightlyOrchestrator

`nights` is the table `nightly_runs` and the only thing that survives `Dies`. `tick`, `runNow` and
`pipe` are the three coroutines, `lock` the launch lock, `bench` whose test run has the flag up.
One step is one database write or a decision between two awaits, so a death comes between any
two writes. `suite` is the run row of the current suite before the night is linked to it. The work
within a step (git, build, flash, soak) is the time spent at `"work"`. A slot is a number:
`slot` counts those that came round, and `Due` is the comparison of the latest with the last one
attempted; the catch-up window is the choice of the environment to let a slot pass undone.

### NightlySoak and NightlyReports

`soak` is the coroutine `run()` with its locals: where it is, the boards still to be taken
(`todo`), the one it works on, those it holds. `claims`, `paused` and `held` are what it has of
the others: claims of `PortLocks`, suspended monitors, open interfaces; `file` is
`soak-sends.jsonl`, which a restart finds again, and what was put on the wire is kept as history.
An abort may come at the waits in `Aborts`; the waits "joining" and "resuming" are left out there
(section 6). What one board goes through among its other users is `PortArbiter`'s and
`SoakObserver`'s matter.

`report` is the row of the night, `call` the position and the locals of `publish()` and of each
`repost()`, `made` the issues that exist at GitHub, by the call that made them. `WriteFails`
names the steps at which the database or the analysis may raise.

### FleetDiscovery

| TLA+ | Code |
|---|---|
| `bus` | the USB bus and the hub: where each board is enumerated, whether it is wedged |
| `rows` | the table `devices`: known, online, port, slot, enriched, env, pinned |
| `scan`, `enrich`, `recovery` | `scan_once`, each `_enrich`, each `recover()`: its place and what it read |
| `enriching`, `enriched`, `backoff`, `cooldown` | `_enriching`, `_enriched`, `_failed`, `_unwedge_at` |
| `guardOf`, `active` | the port guard per board; `_active` |

A step is what runs between two awaits, each statement of the database is one by itself, and the
bench changes between any two (`left` bounds how often). `Slots` has one slot, so that a board
may take the place of another. `EnrichRefused` and `RecoveryRefused` are the refusals of the guard (a
claim, a wedged reader), which another module's actors cause; a backoff and a cooldown run out.

### BuildOrchestrator, PioJobs and ToolJobs

A key is a pair of environment and commit. `rows` is the builds table, `phase` the place of each
build's task, `inflight` the table of tasks, `lock` the lock that `enqueue` holds over its awaits.
`made` is `.pio/build/<env>`, which all commits of an environment and any other pio in the checkout
(`OthersLink`) write; `dir` says which build copied each image of a key's directory, `image` whose pio
had made it. `orphans`, `torn` and `spoiled` are history: rows that lost their task, directories whose
copying broke off, builds an image of which was made over while they still needed it. A death leaves
`rows` and the files. A pio that outlives its server is one of the others.

In `PioJobs` the file is the version of its own settings and the set of jobs whose overrides it
carries; `original` is what a job will write back. `clean` in its properties tells the jobs whose
window met no other. In `ToolJobs` the worker thread, the job's dictionary, the program and the
stops are separate actors over one sniffer port.

### AtakFleet

`fleet` and `upPhase` are the two globals of `server.py`; `up`, `kills` and `cli` the threads and
the process that bring up or tear down; `clones`, `snaps` and `emus` what is on the disk and what
runs, which alone survive a death of the server.

### ReplaySession and CotRelay

One variable per thread of a connection (injector, metrics, stream) and its socket, beside the
accept loop `acc`, which is also the reader of the client it serves. The threads of a gone
connection live on until a send fails, and see the `client` and queue of the next. The two
injection queues of the code are alike and are one here.

In `CotRelay` `handler` is the thread of a client and `link` its socket; `files` and the manifest
are the capture directory, which a death leaves; `relay` follows `start()` and `stop()`. An event
is numbered and listed under the lock and its file is written outside of it, as in the code.

### RecorderFiles, SerialSession, MessageHub and DisplayMirror

* `RecorderFiles`: `live` and `fh` are the live file and its handle, `rot` the rotation under way,
  one step per system call, `archives` the compressed files by name. A write may fail: its row stays in
  the buffer of the file object (`unflushed`) or is gone (`lost`). A handler thread takes a
  snapshot of the recorder's files, so one that is "stale" may write after `stop`. A query reads
  the archives and then the live file without a lock.
* `SerialSession`: `ring` and `total` as in the code; `cursor[p]` is the cursor of caller `p`'s last
  answer, `reply[p]` the answer computed under the lock, `handed[p]` what it got so far.
* `MessageHub`: a walk is the copy of `conns` a publisher goes over, with an await per peer.
  `got` keeps of each peer's frames the first and `done` and thins out the beats and lines between,
  which differ in number only.
* `DisplayMirror`: `buf` and its companions are the buffers of the code, by the frame each packet
  came from; the device's side may break off and start again.

### LogForwarder and FleetCapture

`submit` takes a look at the length and an append apart, since readers are threads; `batch` and
`worker` are what has left the queue. `captured` is the forwarder's set, `refs` the references it
really has on the monitors; scan, reload and stop reconcile under the capture lock.

### PytestTui

pytest (`child`, `todo`, `now`), the report log of each spawn (`file`, and `path` for the one at the
path), the tail, the poller, the queue of posted messages, the UI thread with its tree and
counters, and the escalation of a quit.

### The instances for TLC

A component that is not the one of a behaviour is left where nothing of it is due, so that
fairness asks nothing of it and its liveness holds there without saying anything; every behaviour
of the component itself is there. Resting means: the scheduler `tick.at = "off"` and the soak and
report calls over or dead (`MCNights`), `scan.at = "off"` (`MCFleet`), the terminal exited and the
forwarder without a key (`MCWatchers`). `<-` in a configuration gives a constant a value that is
not a model value (`Tests`, `Fleet`, `Wired`, `Stored`, `Budgets`); no definition is replaced.

`MCFleet` has five scenes. "port": a soak, a subscriber and two operations. "bus": a test run,
a subscriber, and a soak or an identify sweep. "wedge": one client stays subscribed
from before the first operation on, another comes and goes, and there is no soak, run or sweep; here
`NeverDoubleOpened` is meant to hold. "discovery": one board plugged in elsewhere than its row says, or
nowhere, and another that may come. "stale": a wedged board off the hub whose row names the slot in
which another board sits. `MCPortArbiter` has "port" (all users, one test run at a time), "runs" (two
requests to the test runner over an operation and two subscribers) and "atak".

## 3. What is checked

| Run | Module | Bounds | Properties |
|---|---|---|---|
| `arb_all` | `MCPortArbiter` | 2 operations (one rechecking), 1 soak, 2 subscribers, 2 requests to the test runner, 1 sweep, 2 readers, wedges; 2 ATAK nodes on 3 consoles, 2 bring-ups, 1 command-line down, 1 death | `GuardExclusive`, `MonitorBooks`, `ReadersKeepOut`, `ExclusiveUse`, `AtakInv` |
| `fleet` | `MCFleet` | the five scenes, with wedges; 2 boards, 3 paths, 1 slot, 2 recoveries; 2 changes of the bench and a forgotten row, a change and a refusal of the guard, 2 pins and a partial answer, or none of them | `NeverDoubleOpenedThere`, `GuardTerminates`, `MonitorComesBack`, `DiscInv`, `DiscoverySettles` |
| `watchers` | `MCWatchers` | 1 `connect()`, 1 upload, 2 sessions, an observer with 2 attempts; 2 submitters, 6 records, a queue of 3; 2 devices; 2 relay clients; 1 test, 2 spawns | `SessionsKeepApart`, `ObserverInv`, `RegistrySpec`, `DatadogInv`, `WatchersSettle` |
| `nightly` | `MCNights` | 2 invocations of `start`, 2 report entries; 2 nights, 1 slot, 1 death, `run_now`; 3 boards, 3 sends, 2 restarts; 2 reposts, failing writes, 1 death | `SuiteInv`, `SlotOnce`, `FailedSuiteNeverGreen`, `NothingUndone`, `SoakInv`, `ReportInv` |
| `nightly_live` | `MCNights` | 2 nights, 2 slots, 2 deaths, no `run_now`; 2 boards | `SuiteCap`, `NightsSettle` |
| `builds` | `MCBuilds` | 2 commits of 1 environment, 2 callers, 2 calls, 2 images, 1 death; 2 jobs, 1 edit, 1 death; 2 captures or one and a grind, 1 stop | `OneBuilder`, `RowHasBuilder`, `ImagesAreWhole`, `OnlyLiveBuildsDefer`, `JobsInv`, `ToolsInv`, `BuildsSettle` |
| `replay` | `ReplaySession` | 2 connections, 2 injected packets, 2 statistics | `ReplayInv`, `SeversItsOwn`, `ReplaySettles` |
| `services` | `MCServices` | 2 peers; 1 handler, 3 rows, files of 1, 1 archive, 1 death; a ring of 2, 5 lines, 2 callers; 2 frames and 2 tables of 3 packets; 2 clients, 2 events, 2 starts; 1 test, 2 spawns | `HubInv`, `RecInv`, `SessionInv`, `DisplayInv`, `CotInv`, `TuiInv`, `ServicesKeep` |

Four more runs show a finding each (section 5). Symmetry is used where no liveness is checked: over
operations that do not recheck, subscribers and readers in `arb_all`, over peers in `services`.

A property that joins several is one sentence about one component:

* **The port.** `GuardExclusive`: no two operations inside one guard, and when a soak has waited the
  port clear no operation is inside or *queued*. The claim is tested before the lock is joined and the
  lock is FIFO; both are needed. `MonitorBooks` = `RefsMatchSubscribers` (references are
  subscribers, so that the port is neither kept open nor closed under a reader) and
  `SuspensionHasOwner` (the suspension is one flag for many users: somebody may be resumed early,
  but never be left suspended, except by a soak cancelled inside `suspend()`). `ReadersKeepOut` =
  `NoReaderMidRun` and `ObserverAlone`: `_open` looks at the run flag and the claim, then waits for the
  database, then starts the thread; it holds, for runs that are "driving", because the run and the
  claimant must still get through the same monitor lock. `ExclusiveUse` is the refinement of
  `PortOwnership`. `GuardTerminates`: if no body of the guard lasts for ever, a queued operation gets its
  turn, over a wedged reader and a claim too. `MonitorComesBack` = `ClaimEnds`, over a body
  that never ends too, and `SuspensionEnds`, if bodies and runs end.
* **One process.** `SessionsKeepApart` = types, `MonitorAlone` (no upload beside a monitor, never two
  monitors), `ClosedOnce` (every lookup sweeps, `serial_close` may come at the same time).
  `ObserverInv` = types, `LockFollowsInterface`, `SoakLetsGo`. `RegistrySpec`: the observer does nothing
  to the port but what `PortRegistry` allows its users.
* **Tests and nights.** `SuiteInv` = types, `SavedInOrder`, `DrainMissesNothing`, `FlagHasOwner`.
  `SlotOnce`, `SuiteCap`, `FailedSuiteNeverGreen`; `NothingUndone` = `NightNotReplaced` and
  `NoRerunAfterSuite`. `SoakInv` = types, `TakenAreHeld`, `NothingOutlivesSoak`, `PrivateOnly` (nothing
  is sent from a board off the private channel), `NumberedInOrder`. `ReportInv` = types,
  `OneIssueEach`, `PostedIsThere`, `ReportComesOut`. `NightsSettle`: every night that is unfinished, every
  run flag that is up and every soak that runs ends.
* **The bench.** `DiscInv` = types, `RecoveryIsOne`, `RecoveredAnswered`, `GuardIsHeld`.
  `DiscoverySettles`: once the bench is left alone the registry follows it, and a board that stays where it is
  and answers is enriched, provided that no wedged board keeps a row that names the slot of another one.
* **Builds and jobs.** `ImagesAreWhole` = `CachedIsWhole` and `SuccessIsWhole`: what counts as cached was
  copied by one build completely and made by its own pio, unless a copy broke off or is under way there
  or another pio made an image over in the meantime; what is called a success was copied completely.
  `RowHasBuilder`, `OnlyLiveBuildsDefer`: a row in progress has a task, and a call joins only a build
  that lives. `JobsInv` = types, `PrefsRestoredAlways`, `OwnOverrides`, `PortHeldByFlash`. `ToolsInv` =
  types, `OneSnifferOwner`, `EndedLeavesNothing`, `StopIsNotFault`, `StopsAreHeeded`. `BuildsSettle`:
  every row, call and job ends, and the port comes back.
* **Services.** `ReplayInv` = types, `OneLossPerConnection`, `DeliveredInOrder`, `StatsNumberedOnce`,
  `LoopSurvives` (only stop() or a failing accept() ends the loop); `SeversItsOwn`: a thread shuts no connection but its own. `HubInv` = types,
  `ActionInOrder`, `DoneIsHeard`. `RecInv` = types, `KeptIsSuffix` (no gap in what the files keep but the rows whose own write failed),
  `LiveFileOpen`, `PauseHolds`, `QueryChronological`. `SessionInv` = types, `CursorAccounts`,
  `EachLineOnce`, `LastPageIsLast`. `DisplayInv` = types, `FrameIsWhole`, `ColoursAreWhole`. `CotInv` =
  types, `CaptureIsListed`, `RelayedInOrder`. `TuiInv` = types, `CountersMatchLeaves`,
  `ShownAsReported`, `NoOrphan`. `DatadogInv` = types, `ShippedOnce`, `NothingLostOnTheWay`,
  `DroppedIsEvicted`, `OneHoldEach`. `ServicesKeep` = `DeadAreRemoved`, `SilentAfterStop`,
  `NeverOverwritten`. `AtakInv` = types, `NothingOrphaned`, `OneAtATime`, `ReadyIsProvisioned`,
  `FleetHasWorker`. `WatchersSettle` = `LockIsReturned`, `LossIsSettled`, `QueueDrains`,
  `CaptureSettles`, `StopReturns`, `DevicesRefreshed`, `QuitEnds`.

### The bounds and why they are enough

The bounds limit how many of a thing there are, never what it may do. Two operations, two
subscribers and one of each other user let every pair of users of a port overlap with a third party
in the queue; two readers let an abandoned one meet its successor; two requests to the test runner let a run
overlap another or be reset. Two commits of one environment and two calls let the builds of two commits
follow one another through `.pio/build/<env>` and a call join the build of another. One upload and two sessions meet
in every order. Two report entries of two halves give a chunk with several entries, an unfinished
line and a write during the handling. One death splits a night at every write; two are needed to
reach the limit on suite attempts and to kill a resumed night, and two nights let a night meet its
successor in the resume. Two boards and one slot let a board come back in the place of another. Three
rows in files of one with one archive give two rotations, a discarded archive and a row after it; handlers meet
at the lock of the file only, so one of them does, and the theorem is about any number. A ring
of two with pages of two ages lines out between two pages of a caller. Two connections let the
threads of the first meet the second. The proofs remove these bounds where there are proofs.

Deadlock is checked, except in `services`, `watchers` and `tui_v_rerun`: there the services really
stop (a capture is over, the app has quit, a ring has had its last line).
`BuildOrchestrator`, `PioJobs`, `ToolJobs`, `NightlyReports` and `AtakFleet` end too; there the last
state stutters explicitly, so that a deadlock before the end is found.

## 4. Fairness

* *Port.* A coroutine that can go on does (weak fairness per coroutine); a caller of the monitor is
  not overtaken for ever (the code's lock is FIFO, the model's is not, hence strong fairness, for the
  operations as one, since one of them at a time is inside the guard). A soak has a deadline and a
  sweep is a bounded number of calls with timeouts, so both end. **Nothing is assumed of a guarded body or
  of pytest**: a body can be arbitrarily long or leaked (`portlock.py:95-99`; `_port_action` runs its thread
  without a timeout, `app.py:277-287`) and so can a suite. Where an end of theirs is needed it is a
  hypothesis of the property: `GuardTerminates` and `SuspensionEnds` have it, `ClaimEnds` does without,
  because `wait_clear` gives up. Without wedges a reader whose stop event is set exits, since its read has
  a timeout; with wedges this is not assumed, and the joins of `_close` time out instead.
* *Registry and observer.* Threads and the coroutine go on; uploads and the bodies of `connect()` have
  timeouts. Nobody has to close a session, and a stuck interface may stay stuck. A soak may
  last for ever.
* *Test runner.* `start` and `_drive` go on, and so does the tail, each as one coroutine. The watchdog fires
  for a launch that writes nothing. That a pytest which has begun to report exits is an assumption about
  the suite; only the end of the run flag rests on it.
* *Nightly and soak.* The scheduler loop, the pipeline and the soak go on while the process lives;
  launchd restarts it (`docs/nightly.md`, `KeepAlive`). Nothing is assumed of operators, slots or
  deaths, except that the number of deaths is bounded.
* *Discovery.* The scan, the enrichments and the calls of `recover()` go on, a backoff runs out and a
  test run ends. What changes the bench or refuses a guard is bounded by `Budgets`. A cooldown may run out at any
  time, as often as it likes, and need not.
* *Builds and jobs.* Calls, build tasks and the threads of jobs go on: compilers and programs are run
  with timeouts. `ToolJobs` and `AtakFleet` are checked for safety only.
* *Replay.* The accept loop, `stop` and the threads of a connection go on; one whose connection is
  closed sends again and fails. No client has to connect, ask or leave.
* *Forwarder and capture.* The flush loop and its worker go on; a post ends (it has a timeout); the
  backoff runs out. A reconciler that waits for the lock gets it in the end (strong fairness, an asyncio
  lock), and the scan repeats.
* *Relay and terminal.* The threads of the clients, a `stop()` under way and the threads of the terminal
  runner go on; a client may stay silent for ever, and pytest may run for ever until it is signalled.
* The message hub, the recorder, the serial session and the display mirror are checked for safety only.

`NightsSettle` is checked without `run_now`: with it a resume can lose to `run_now` (`_launch` raises,
nothing retries before the next boot) and leave its night `running` until some later boot. That is
listed as a hazard; no text of the repository promises otherwise.

## 5. Findings

Each is a counterexample of TLC to what a text of the repository says.

| Run | What the code does |
|---|---|
| `nightly_v_green` | a night that broke before its suite and dies while it recovers the bench is finished as `passed` (`nightly.py:762`) |
| `nightly_v_ids` | a message is written to the file of sends after it was transmitted: after a death or an abort between the two the resumed soak sends its number again (`nightly_soak.py:397`) |
| `fleet_v_pin` | an env pinned between the two statements of `update_enrichment` is overwritten by the detected one, while the row stays locked (`repo_devices.py:170`) |
| `tui_v_rerun` | the tail reads one file for the life of the app, and a focused re-run replaces the file: its results are not shown (`test_tui.py:596`) |

## 6. Refuted by TLC, without a run

These properties were written, refuted and are not part of a run, since the limits of a run keep
only what is asked of every behaviour. Each names the configuration in which TLC finds the
counterexample.

* **A first subscriber beside a guarded operation** (`serial_monitor.py:81`). `suspend()` on a device
  without monitor leaves no trace and `_open` does not ask for the guard. `PortArbiter`, `Readers = {t1,
  t2}`, `Ops = {a}`, `Clients = {c}`, all other sets empty, `CanWedge = FALSE`: `NeverDoubleOpened`,
  stated by the head of the file (lines 11-13), is violated.
* **A wedged reader that is forgotten** (`serial_monitor.py:93`). The last `release()` forgets a monitor
  whose reader was abandoned alive, and the next subscriber opens a second one. The same with
  `Ops = {}` and `CanWedge = TRUE`.
* **Two runs at once** (`test_runner.py:251`). `start()` tests the flag two awaits before it raises it
  (line 97 calls it one run at a time): `OneSuiteAtATime` under `SuiteSpec` with two `SuiteRuns`. A pump that
  raises (line 391) takes the flag down with pytest alive, to the same effect with one run after another.
* **A monitor that holds a port in the middle of a run** (`serial_monitor.py:131-136`, "must never hold a port
  mid-run"). `NoReaderMidRun` with "exposed" beside "driving" is violated in `arb_all`: the 10 seconds that
  `suspend_all` has for *all* monitors in turn may be used up by wedged readers of other devices before
  this one is visited, and pytest is launched anyway (`test_runner.py:278-282`); and a reset, or the end of a
  run that overlaps, takes the flag down and resumes the monitors under a pytest that drives.
* **A soak cancelled inside `suspend()`** (`nightly_soak.py:361-366`). The device is suspended and not yet in the
  list of those to resume, which `finally` goes through (422-437), while `nightly.py:652` relies on it:
  the monitor stays suspended until somebody else resumes it. `SuspensionHasOwner` without `mon.left`, in
  `arb_all`.
* **A wedged board with a stale slot** (`discovery.py:250`, "cooldown-limited so it can't loop"). A board that
  left the hub and wedged elsewhere keeps the slot in its row (`set_hub_port` is called with a slot only,
  `discovery.py:124-126`). Its self-healing power-cycles whatever sits there now, and again after every
  cooldown of 300 s: the other board need not stay enriched or at its path. `DiscoverySettles` without
  `<>[]WedgedSlotsTrue`, in `fleet`.
* **A cached directory that is not one build** (`builder.py:57-60`: an image in the directory is the evidence
  of a successful build). A copy that breaks off leaves some images, which are served as cached; a call meets
  a directory that is being copied into; and since `.pio/build/<env>` is one for all commits and for every pio
  in the checkout, another pio (one that outlived its server, or one started by hand or by an MCP
  tool) may make an image over before it is copied. `CachedIsWhole` without `torn`, `HalfCopied` or `spoiled`,
  in `builds`.
* **A query between the copy and the removal of the live file** (`log_query.py:75-82`) reads the same rows
  from the archive and from the live file. `QueryChronological` without `quiet`, in `services`.
* **`connect()` beside a session** (`connection.py:253`). It looks for a session before it takes the
  lock, so a `serial_open` fits between; `server.py:1531-1533` and `flash.py:100-102` take that for
  excluded. `PortRegistry`, `Connects = {c}`, `Sessions = {s}`, the others empty: `NotBothOwners`.
* **A soak cancelled while a thread opens an interface** (`soak_observer.py:129`, `nightly.py:826-829`).
  Nobody closes what the thread opens, and the port stays locked for the life of the process
  (against lines 177-178). `SoakObserver`, `Aborts = {"opening", "reopening"}`, `MaxAttempts = 2`, `Connects =
  {c}`, `Others = {o}`: `SoakLetsGo`.
* **The same over the whole bench** (`nightly_soak.py:363-364`, `418-420`). With "joining" or "resuming" among
  the `Aborts` of `NightlySoak` a board stays suspended: `NothingOutlivesSoak`.
* **A delivery that fails after the issue was made, otherwise than by a timeout**
  (`github_issues.py:207-211`). It is repeated without labels: `OneIssueEach` with `Lossy = TRUE`.
* **A failing re-read erases the stored report.** With "reread" among `WriteFails` and reposts, the
  error row that the reporter then writes replaces the stored body.
* **Nodes that point at another relay** (`emulator/atak.py:686-687`, `646-653`, `696-703`). A second
  bring-up with another relay port takes the snapshots of the first: `NodesPointAtRelay`, `AtakFleet`
  under `AtakSpec` with the constants of `arb_all` and `CHECK_DEADLOCK FALSE` (depth 19). And a kill
  that times out orphans its emulator (lines 705-707); `NothingOrphaned` excepts these (`abandoned`).

## 7. What is proved

The proofs hold for every value of the constants under the named assumptions of the modules
(kinds of users are disjoint, `None` is none of them, bounds are natural numbers, sets of
subscribers are finite where a count is a cardinality): any number of users, boards, nights, deaths,
rows, clients. Some theorems have a hypothesis of their own, which is the border between what holds
and what section 6 refutes; in the others that border is in the property itself (`ReadersKeepOut`,
`MonitorBooks`, `ImagesAreWhole`, `QueryChronological`), as its comment says:

* `stays \in Clients` (`NeverDoubleOpenedAlways`): the scene has the client that keeps the monitor known.
* `Aborts` has neither "opening" nor "reopening" (`SoakAlwaysLetsGo`, `ObserverInvAlways`), and neither
  "joining" nor "resuming" (`NothingOutlivesSoakAlways`, `SoakInvAlways`): the waits at which a
  cancellation leaks.
* `~Lossy` and "error" not among the `WriteFails` (`ReportInvAlways`): a delivery that fails after it made
  the issue makes another when it is repeated, and where the error row cannot be written either,
  publish() leaves none. `PostedIsThereAlways` needs neither.

### PortArbiter

| Theorem | Statement |
|---|---|
| `TypeCorrect`, `GuardInvariant`, `GuardIsExclusive` | `Spec => []TypeOK`, `[]GuardInv`, `[]GuardExclusive` |
| `ImplementsOwnership` | `Spec => ExclusiveUse`, the refinement of `PortOwnership` |
| `MonitorBooksAlways` | `Spec => []MonitorBooks` |
| `ObserverAloneAlways`, `ReadersKeepOutAlways` | `Spec => []ObserverAlone`, `Spec => []ReadersKeepOut`, for any number of overlapping runs and resets |

*Argument.* `GuardExclusive` is not inductive: it says nothing of who is queued when a claim is laid.
`GuardInv` adds `QueueOrder` (the waiters are totally ordered by `ahead`), `ClaimantIsLast` (nobody is
queued behind a claimant, because a claimed device is refused before the lock), `HolderInGuard`,
`ClaimByOwner` and `PortCleared`. When the claimant is next in line its `ahead` is empty, so every
other waiter has it in its own `ahead`, which `ClaimantIsLast` excludes. For the refinement,
`GuardExclusive` gives that at most one process uses the port, so each step that changes who does is a
`Take` or a `Drop`. For the books, the references are a cardinality: the invariant counts those that have
clients that count (`Counted`: those subscribed and those whose `acquire` or `release` is past or before
its write), and each action adds or removes one. `LockInv` says which callers can be inside the
monitor's lock and where, `ThreadInv` what the thread of the monitor is while nobody is inside.
`ReadersKeepOut` rests on `OwnersAlone` and `RunsAlone`: whoever has got through the monitor's lock after
raising the run flag or the claim finds every reader stopped, and none is started while flag or claim is up.

`NeverDoubleOpenedAlways` is `FleetSpec => []NeverDoubleOpenedThere`: it is about the scene "wedge" of `MCFleet`, in
which the code's claim holds because nobody but guarded operations and subscribers uses the port. *Argument.* Who is
absent from the scene stays idle (`AbsentKeep`). The books say that a subscriber keeps the monitor known and that the release of another one does not close it
(`StaysKnown`). Hence a reader that lives is the one the monitor knows, wedged or not (`WedgeStands`), which
is why the poll of the guard sees it; an operation past its suspension keeps the suspension, since only another
one inside the guard could resume, and no open begins under it.

### FleetDiscovery

| Theorem | Statement |
|---|---|
| `DiscInvAlways` | `DiscSpec => []DiscInv` |
| `DiscInvThere` | `FleetSpec => []DiscInv`, as the run checks it |

*Argument.* `RecoveryIsOne` counts the calls that have marked a board, so the invariant `RecoveriesStand` says that
`active` is the set of boards with a marked call and that two marked calls are of different boards. `GuardIsHeld` says
who holds each guard by where each call is. `EnrichStands` adds that the boards marked as `enriching` are those with an
`_enrich` under way, `ScanStands` that a scan works on boards it has found, though rows are forgotten under it, and
`BusStands` that boards plugged in sit at different paths, which `DiscoveryAssumption` asks of the start only.

### AtakFleet

`AtakInvAlways` is `AtakSpec => []AtakInv`, in `PortArbiter_proofs`. *Argument.* `NothingOrphaned` says that
each running emulator is accounted for. `AtakStands` adds who is at work in each phase (`AtWork`); that
the console port a bring-up launches on is free and that what boots there is its node, from a snapshot
that was provisioned if it takes one (`UpStands`); that the nodes before the present one, and all of a
ready fleet, are provisioned (`NodesStand`); and that a bring-up which undoes itself still has to kill those of
its nodes that run (`UndoStands`). The nodes are a sequence in the code; the proofs use its `Range`, with
lemmas on what appending, mapping and taking the tail do to it.

### PortRegistry, SoakObserver, FleetCapture and LogForwarder

| Theorem | Statement |
|---|---|
| `RegistryTypes`, `RegistryInvariant` | `Spec => []TypeOK`, `Spec => []RegistryInv` |
| `MonitorIsAlone`, `SessionsCloseOnce`, `RegistryKeepsApart` | `Spec => []MonitorAlone`, `[]ClosedOnce`, and both with the types |
| `RegistryOwnership` | `Spec => ExclusiveUse` |
| `ObserverImplementsRegistry` | `ObsSpec => RegistrySpec`: what is proved of the registry holds beside an observer, as `ObserverKeepsApart` |
| `ObserverTypes`, `LockIsWithInterface` | `ObsSpec => []ObsTypeOK`, `ObsSpec => []LockFollowsInterface` |
| `SoakAlwaysLetsGo`, `ObserverInvAlways` | `ObsSpec => []SoakLetsGo`, `[]ObserverInv`, under their hypothesis |
| `OneHoldEachAlways` | `CapSpec => [](CapTypeOK /\ OneHoldEach)` |
| `ForwarderAlways` | `FwdSpec => [](FwdTypeOK /\ ShippedOnce /\ NothingLostOnTheWay /\ DroppedIsEvicted)` |
| `DatadogAlways` | the specification of `MCWatchers` implies `[]DatadogInv` |

*Argument.* A monitor that runs outlives the call that made it, so the lock alone says nothing.
`RegistryInv` adds that every live monitor is registered or its session still holds the lock
(`OnRecord`): a caller that holds the lock and finds no live session is alone (`ClearMeansAlone`), and
stays alone because a new monitor needs the lock. A session is registered with no close to its name,
and only the call that pops it closes it. `HoldInv` says that a thread that opens finds nothing open and
that the coroutine starts a thread only when the last one is through; `LetsGoInv` adds where a
cancellation may be. For the capture, `CaptureStands`: one reconcile applies at a time (`OneApplies`),
and references and set differ by what it is about to write at the step at which it is (`HoldsStand`). For the
forwarder, `ForwarderStands`: what Datadog has, what the worker has, the batch and the queue follow one
another in the order of the appends (`OrderStands`); while nothing was evicted or given up, their payloads in
that order are those of all records (`LossStands`); a thread that waits to append has seen the queue as it
is until another overtakes it (`LooksStand`), which is why the number of dropped records is that of the
evicted ones and those about to be (`CountsStand` bounds both). `Payloads` is a recursive function over
sequences: that it distributes over concatenation is shown from `WFMin` of the library, by the least length
at which it fails (`AllNumbers`, `AllSequences`).

### TestRunner, NightlyOrchestrator, NightlySoak and NightlyReports

| Theorem | Statement |
|---|---|
| `SuiteTyped`, `SuiteTypeOKAlways` | `SuiteSpec => []SuiteTypeInv`, `[]SuiteTypeOK` |
| `DrainMissesNothingAlways`, `SavedInOrderAlways`, `FlagHasOwnerAlways`, `SuiteInvAlways` | each `SuiteSpec => []...` |
| `NightTyped`, `NightTypeOKAlways`, `NightStandsAlways` | `NightSpec => []NightTypeInv`, `[]NightTypeOK`, `[]NightStands` |
| `SlotOnceAlways`, `SuiteCapAlways`, `FailedSuiteNeverGreenAlways` | `NightSpec => []SlotOnce`, `[]SuiteCap`, `[]FailedSuiteNeverGreen` |
| `NightNotReplacedAlways`, `NoRerunAfterSuiteAlways`, `NothingUndoneAlways` | the action properties |
| `SoakTyped`, `SoakTypeOKAlways`, `SoakBooks` | `SoakSpec => []SoakTypeInv`, `[]SoakTypeOK`, `[](SoakTypeInv /\ TakenAll)` |
| `TakenAreHeldAlways`, `PrivateOnlyAlways`, `NumberedInOrderAlways` | each `SoakSpec => []...` |
| `NothingOutlivesSoakAlways`, `SoakInvAlways` | `SoakSpec => []NothingOutlivesSoak`, `[]SoakInv`, under their hypothesis |
| `PostedIsThereAlways` | `ReportsSpec => [](ReportTypeOK /\ PostedIsThere)` |
| `ReportInvAlways` | `ReportsSpec => []ReportInv`, under its hypothesis |

*Argument.* For the tail, that the position never passes what was written and that a poll which saw
`report_done` before its read saw the whole file; for the flag, that whoever raised it is at a step
from which `finally` is ahead. For the nights, `NightTypeInv` has where each coroutine can be
(`Whereabouts`) and that the attempts of a row count the suites of its night (`AttemptsCounted`), and
`NightStands` ties each coroutine to the row it carries: what a row says of its run at each step
(`RowStands`), what the pipeline's local verdict has to do with it (`PipeStands`), what a call that will
launch has found (`CallStands`), and what the suite's run row is before it is linked (`LinkStands`). For the
soak, `TakenAll` says, place by place, which boards are claimed, suspended and held, that the boards still
to come are none of them, and that the books of `finally` agree with what is suspended. For the reports,
`CallBooks` ties what a call has as its result to the issues it made, `NoneMade` says that a call that may
still post has made none, and `RowThere` that what publish() wrote stays, whatever a repost writes over it.

### BuildOrchestrator, PioJobs and ToolJobs

`OrchestratorTypes`, `BuildsExclusive` (`[]OneBuilder`), `RowsHaveBuilders` (`[]RowHasBuilder`),
`ImagesAreWholeAlways` (`[]ImagesAreWhole`) and `OnlyLiveBuildsDeferAlways` (the action property), all of
`OrchSpec`. *Argument.* A live task is the one the in-flight table names for its key (`RunsRegistered`), the
lock keeps what a call found there until it registers its own (`Turns`, `CallsRegistered`), and a task that
is past its end has settled its row (`SettledFirst`). A build that runs or is about to be created is the
newest of its key (`Newest`); a directory is whole unless a build is copying into it or broke off there
(`DirsAccounted`), and what was copied is only overwritten by newer builds (`CopiedStays`). A build that
is not `spoiled` finds in `.pio/build/<env>` what its own pio linked, from there to its copying, and what
it copied is its own (`OwnImages`).

`JobsInvAlways` (`JobsSpec => []JobsInv`) and `ToolsInvAlways` (`ToolsSpec => []ToolsInv`) are in the same
module. *Argument.* `JobsStand`: what a job keeps as the original is the file of the last edit, with the
overrides of the others that are between their write and their restoration, as long as no two windows
met (`WindowsStand`); a build that copies finds a tree compiled without overrides (`CopiesStand`). `ToolsStand` goes worker by worker: what its place says
of its program, its lock and its state (`WorkerStands`, `LockStands`), and of a stop, that a pid once known
stays known, a raised flag stays up and a program that is gone does not come back (`StopStands`).

### ReplaySession

`ReplayTypes`, `OnlyStopEndsALoop` (`[]LoopSurvives`), `LossIsBounded` (`[]OneLossPerConnection`),
`StatsAreNumbered` (`[]StatsNumberedOnce`), `DeliveryKeepsOrder` (`[]DeliveredInOrder`),
`OnlyOwnConnectionSevered` (`SeversItsOwn`) and `ReplayInvAlways`. *Argument.* What was delivered, what an
injector has taken and what is queued follow one another in the order of injection; at most one packet
per connection is taken and not delivered; a session that loops ends by `stop()` or by an `accept()` that
fails (`EndsByStop`); a thread severs `client` only under the comparison with its
own socket.

### SerialSession, MessageHub, RecorderFiles, DisplayMirror, CotRelay, PytestTui

| Theorem | Statement |
|---|---|
| `SessionInvAlways` | `SessionSpec => []SessionInv` |
| `HubInvAlways` | `HubSpec => []HubInv` |
| `RecInvAlways`, `SilentAfterStopAlways` | `RecSpec => []RecInv`, `RecSpec => SilentAfterStop` |
| `DisplayInvAlways` | `DisplaySpec => []DisplayInv` |
| `CotInvAlways`, `NeverOverwrittenAlways` | `CotSpec => []CotInv`, `CotSpec => NeverOverwritten` |
| `TuiInvAlways` | `TuiSpec => []TuiInv` |
| `ServicesInvAlways` | the specification of `MCServices` implies all six invariants |
| `ServicesKeepAlways` | the specification of `MCServices` implies `ServicesKeep` |

*Arguments.* `SessionStands`: the ring is the last lines of what was put out (`RingStands`), and what a
caller was handed and was told it missed end at its cursor (`CallerStands`). `HubStands`: which publishers
can be in a walk at each place of the action (`Talking`), and how far the frames of a peer then are
(`PeerStands`). `RecStands`: which files
and handle are there at each step of a rotation, and that nothing is unflushed during one (`FilesStand`);
the rows written since the last rotation are in the live file, unflushed or lost (`RowsStand`);
archives have ascending rows, after any of which each is kept further on or was lost by its own write, and
no row is in two files unless a crash left a file both compressed and live (`ArchivesStand`); a query that
no rotation touched has read the first `m` archives and will read the others (`QueryStands`), and what a
query got is below all it will still read (`OrderStands`). `DisplayStands`: a
buffer has pieces of one frame (`AllAre`) and is only rendered whole (`Whole`). `CotStands`: the directory
and the manifest (`DiskStands`), the numbers given out (`NumbersStand`), what each thread has of its event
(`ThreadStands`), and what each client received (`InboxStands`).
`TuiStands`: the tail is never past the end of its log (`TailStands`); the counters are the cardinalities of
the buckets, so that the floor at zero is never met (`ShowStands`, `LeafMoves`); the last event that the
tail has read of a test of the first run is what its leaf shows, or is in the queue and the last one there
about the test (`Lags`); and whoever escalates a quit asks for the clean-up only when pytest is gone,
killed, or was spawned since (`QuitStands`). `NoOrphan` and `ShownAsReported` follow.

### What is only model-checked

* All liveness, with its fairness: `GuardTerminates`, `MonitorComesBack`, `DiscoverySettles`,
  `WatchersSettle`, `NightsSettle`, `BuildsSettle`, `ReplaySettles`. Fairness and `ENABLED` are out of the
  prover's reach.
* What most recursive definitions compute for every input: the induction theorems of the library take
  an operator as a parameter, which the provers cannot instantiate. Where the statement is one about a
  set of numbers or of lengths, `WFMin` does instead (`Payloads` above). In `CotRelay` the bound `MaxSent`
  counts the events of all clients, a sum; that it is kept is left to TLC, and `CotTypeOK` says natural
  number.

## 8. Choices that a reader should know

* A guarded body is one state: what an operation does with the device is not modelled, only that it
  uses the port. A soak's observer counts as using it from `held` on.
* `SuspendAllTimesOut` may come at any moment of `suspend_all`: its bound is over the monitors of all devices,
  of which one is modelled.
* `Reset` in `PortArbiter` lets a run vanish at any stage of driving or finishing, which is more than the code
  does: a cancelled `_drive` that had begun still goes through its finally.
* A guarded operation is not cancelled: its users are request handlers and tasks that are cancelled at shutdown
  only. A cancellation inside the guard's own `suspend()` (`portlock.py:131`, outside the `try`) would leave the monitor
  suspended as a soak's does.
* After a pump that raises two suites may run at once with one flag (section 6). `NoReaderMidRun` is about the run
  that freed the port; the one that lost its flag is "exposed".
* The fan-out of serial lines, message wording, heartbeats, tiers and progress are left out.
* The tail may find the report gone at the end of `_drive` (it is unlinked); then it reads nothing.
* `finish_run` is queued on the one database connection before the pipeline can ask for the row, so
  `SuiteOver` sees the exit code (`EndRun` is one step).
* An entry of the report that is no JSON, or whose handling or write raises, is skipped
  (`test_runner.py:504-517`). What the properties promise is that it takes no other entry with it.
* The pipeline's timeout or an exception (`StepsAbort`) may come at every step but in the minute in
  which the pipeline waits for the restart it asked for: the code waits there for the signal only.
* `Recovers` waits for a launch that is under way: a resume or `run_now` is a few database writes
  from its launch, a pipeline that was launched meanwhile takes minutes to reach its end. Without
  this timing assumption the resume could launch a night that another pipeline has finished.
* `cfg.enabled` is taken as true. Failing database writes are not modelled: a write in `_finalize`
  that fails leaves the night unfinished until the next boot.
* `connect()` to a TCP endpoint, the pre-flight of a flash (it runs under the lock) and the 1200 bps
  touch (which takes no lock) are left out of `PortRegistry`. `clear_port_lock` is called by tests only.
* A caller of `PortRegistry` whose interface is stuck, or whose monitor is still being terminated, is
  not used again before that is over; other callers meet the stuck interface.
* A soak whose observer leaks is not started again in the model: in the code it fails to open.
* Two threads closing one observer at once (a cancellation while a close is under way) are taken one
  after the other.
* `LossIsSettled` is about recorded losses. A connection that is lost again before `health_tick` has
  cleared `lost` (`soak_observer.py:230`), or before its device is in `_by_port`, is not recorded.
* Time is not modelled: the catch-up window, the soak's remaining window and the timeouts are
  choices.

* *Discovery.* The path of a board is read before the guard and used after it (`discovery.py:193-198`),
  and the power-cycle of the self-healing runs outside of it, after one look at the run flag (238-257);
  an enrichment that is in flight when its board goes offline marks it enriched after the mark was
  taken away; the `AssertionError` of a row forgotten meanwhile breaks that scan; the answer to a recovery
  may come from another board in the same slot, and the slot in a row may be out of date. All of this is
  in the model, which is why `RecoveredAnswered` and `DiscoverySettles` say no more than they do. The head
  of `discovery.py` (14-15) calls enrichments "serialized"; the guard is per device.
* *Keep-alive.* A `PortClaimedError` leaves `_touch` (`keepalive.py:137`) and ends the cycle for the boards
  after the claimed one.
* *Capture.* A reconcile that raises or is cancelled between `acquire` or `release` and the update of the
  set (`datadog.py:541-546`) leaves the two apart by one reference; `OneHoldEach` holds up to the first
  such break (`broken = 0`).
* *Relay.* A death between the manifest line and the file leaves a line without file; `stop()` does not
  close a peer that was accepted and not registered (`cot_relay.py:149-152`).
  Two relays on one directory and failing file writes are not modelled.
* *Terminal.* Reports of failures are the ones that may be read torn; a terminal that dies is not modelled. A line read torn is lost with its event; a second `q` kills the group and asks for the
  clean-up from the UI's own thread, which Textual refuses; `r` is possible during a quit.
  `_history.py` (line 45) speaks of fsync, where the code flushes.
* *Recorder.* A rotation whose reopening fails leaves the recorder without a live file until it is
  started again (`deaf`), and so does a `stop()` that cannot flush, which raises. A write that fails is swallowed
  (`rotating.py:81-84`): its row may still go out with a later one, or leave a gap (`lost`), which is the only
  kind of gap `KeptIsSuffix` excepts. A query that meets an archive half written ends with an `EOFError`, which is no
  `OSError` (`log_query.py:111`); a rotation that breaks off before the `unlink` leaves rows in two files
  (`doubled`), which `QueryChronological` excepts, beside a query that listed the files in mid-rotation.
* *Jobs.* Two jobs may overlap on `userPrefs.jsonc` (`userprefs.py:488-494`): the properties are about
  those that do not, and about what holds anyway. A stop before the worker knows the pid answers
  `stopped: False` (`ble_sniffer.py:845-848`); after a death of the server captures and grinds run on.
* *Builds.* A build is filed under a commit but compiles what is checked out; the checkout is taken to be at the
  commit of the build while it compiles. What is modelled of the tree is `.pio/build/<env>`, into which the
  builds of all commits and every other pio write.
* *Replay.* An `OSError` of `accept()` ends the loop, whether the listener was closed or not
  (`engine.py:480-481`); an exception that is none, as when a thread cannot be started, is left out.
* *ATAK.* An `emu kill` that fails without raising orphans its emulator as one that times out does, and a fleet that the
  command line brings up by itself is not modelled. A clone that was interrupted blocks later bring-ups; `emu kill` returns before the emulator
  has gone; the serial of a boot is not verified; `use_snapshot=False` is not modelled.
* *Reports.* A repost sends the whole stored body (`nightly_report.py:424-430`); concurrent reposts may make
  an issue each or forget a URL; a `gh` that exits with 0 and no output gives a posted report without URL.

## 9. Not modelled

* *Pure I/O or analysis*: instruments but for the display mirror (SDR, cameras, OCR), the analysis and
  rendering of a night, packet synthesis and capture parsing of the replay engine, the doctor, Discord,
  provisioning of emulators beyond their life, the UI and the scripts.
* *The database*: a SQLite connection; each statement is taken as atomic and durable. The tables that
  are written once and read for display are left out.
* *The commands of the recovery ladder and of power control*: they drive hardware; what they do to a
  board is in `FleetDiscovery`.
* *The other MCP tools*: sequential handlers over the components above.
* *Of components that are modelled*: the git and build work inside a nightly step, the ad-hoc soak and
  the retention prune; the telemetry of the soak; the tailing of recorder files by the forwarder; TCP
  targets, the pre-flight of a flash and the 1200 bps touch; filters of a query.

## 10. Plan

The models and runs are complete as far as the list above says, and every invariant that a run
checks has its theorem, some under the hypotheses that section 7 names. What may be added: the parts
of the components that section 9 leaves out, and with them the actions that their theorems then range over.
