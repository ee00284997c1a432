# GenWatch and ATS-Pi in TLA+

The repository holds two programs that together watch, and remotely command, a
standby generator and its automatic transfer switch (ATS):

* **GenWatch** (`GenWatch-main/backend/genwatch`): an asyncio service with a web
  API. It polls the generator's controller and the ATS-Pi over Modbus, derives
  states, alarms and events, stores them in SQLite, tells Slack and MQTT, and lets
  an authenticated operator send commands that need a confirm token.
* **ATS-Pi** (`ats-pi-companion-main/src/atspi`): an asyncio service on a second
  Pi. It serves the ATS as a Modbus TCP register map, reads the switch through an
  ADAM-6060 I/O module and drives the module's relays on command.

The contract between them is `GenWatch-main/docs/integrations/ats-pi-icd.md`
("the ICD"). The ATS-Pi has relays that act on a power switch, so it comes first
here; then the poller with which GenWatch watches the link to it, what its ATS service
makes of that link, who may send a command, what becomes of alarms and of the load
source until they reach a person, and who may sign in to see any of it.

Contents: [inventory](#inventory), [modules](#modules),
[runs](#runs-and-what-they-show), [bounds](#bounds), [fairness](#fairness),
[proofs](#proofs), [finding](#finding),
[stated and refuted](#stated-and-refuted),
[not modelled](#not-modelled), [plan](#plan).

## Inventory

### ATS-Pi

| part | state | operations | interacts with |
|---|---|---|---|
| Modbus server, `server.py` | connection tracker: the commanding connection | FC03/04 read, FC06/16 write, disconnect | asks the store whether a write is permitted, tells the watchdog who spoke |
| comms-loss watchdog, `safety.py` | time of the last read, commander lost, released | note read, note commander lost, a check every second | drives the relays through the driver, clears the store's read-back |
| register store, `state.py` | snapshot of inputs, commands and faults; lifetime count, 24 h window, timestamps | `write_register`, `apply_input_snapshot`, `apply_outputs_readback`, fault setters | called by server, sampling loop, dispatch tasks; reads by the health thread; saves through `persistence.py` |
| state file, `persistence.py` | one JSON file | load, save (temp file, fsync, rename, directory fsync) | on the loop for an increment, in an executor for a retransfer |
| ADAM driver, `io_adam.py` | connection, F1 fail-safe verdict, commanded relays, pulse tasks, debouncers, transferring hold | connect, `read_inputs`, `drive_outputs`, `release_all_outputs`, `check_output_consistency`, close | one client shared by sampling loop, dispatch tasks, pulse tasks and watchdog |
| serial sense and hybrid, `io_asco_serial.py`, `io_hybrid.py` | serial link, last frame | a second source for the position | wraps the ADAM driver's outputs |
| lifecycle, `__main__.py`, `notify.py` | tasks, supervision flags | startup release, sampling loop, dispatch of a command, systemd watchdog, ordered shutdown | creates and cancels all of the above |
| configuration, health page, bench tool, mock | none that outlives a call | parse, report, simulate | |

Everything runs in one asyncio loop; only the health page has a thread of its own,
and saves after a retransfer run in an executor. What makes it hard: code
that looks sequential is cut at every `await`, and every relay write is an `await`
that may time out *after* it landed and be retried later; the connection may be
replaced under a waiting task; the process may be restarted faster than the
module's own host watchdog drops the relays; power may fail between any two
steps of a save.

What makes it correct:

* a maintained command (inhibit, force transfer) is only ever on because this
  process accepted it, in a mode that permits it, and it is taken back when the
  commander falls silent or its connection drops;
* nothing is commanded before the relays inherited from the previous process are
  released; the read-back registers show what the relays are;
* a pulsed command (test, bypass) ends; nothing is asserted on a module whose own
  fail-safe is unverified; an output that is not what was commanded is reported;
* the lifetime transfer count never goes back for its reader, never counts a
  transfer that was none, and agrees with the window and timestamps beside it;
* shutdown leaves no relay on; a lost sense source blinds the position instead of
  freezing it.

### GenWatch

| part | state | operations | interacts with |
|---|---|---|---|
| Modbus client, `modbus/client.py` | connection, lock, backoff | read, write with retries | one per device; polls and commands share it |
| poller, `modbus/poller.py` | register image, per-tier failure counts, comms health (streaks, success window, last good poll) | poll a tier, evict stale registers, classify, watchdog | hands image and health to a callback after each poll |
| register map, `modbus/registers.py` | none | decode, derive | used by poller and services |
| ATS service, `services/ats.py` | previous snapshot, authority, echo window | update from a poll, authoritative?, detect external command edges | emits events and alarms to DB and bus; gates commands |
| remote control, `services/control.py`, `ats_control.py` | lock, confirm tokens, override | issue token, consume, execute | reads snapshots, writes registers, logs |
| state machine and event bus, `services/state.py` | previous snapshot, alarm debounce counts, raised set, subscribers | update from a poll, publish, subscribe | DB, bus; the WebSocket and the notifiers subscribe |
| fuel monitor, `services/fuel.py` | level bands, reminders, drop detector | update | events |
| notifiers, `services/slack.py`, `mqtt.py` | bounded queue, retries, last state published | enqueue, send, retry, drop | Slack's web API, an MQTT broker (retained status) |
| retention, `services/retention.py` | none (in the database) | roll up, prune | DB tables raw, 1 min, 1 h |
| accounts, `services/users.py`, `session.py`, `totp.py`, `ratelimit.py` | users, failures and lockouts, sessions, used codes | authenticate, revoke, renew, enrol, demote, delete | DB, shared with the command line as a second process |
| lifespan, `main.py`, `services/notify.py` | tasks, poll callbacks, systemd watchdog | start, poll callback, stop | wires everything |
| exercise schedule, WebSocket, read-only API, configuration, command line, frontend, deployment | little or none | | |

What makes it hard: two pollers' callbacks and many HTTP handlers interleave at
every `await`; snapshots are read before an await and acted on after it; a mutable
object is shared between a "previous" and a "current" snapshot; retries overtake
newer messages; a second process (the command line) changes accounts.

What makes it correct: a stale link is seen as stale, and authority of the ATS-Pi
over the load source is lost with it and regained only after a good streak; each
alarm raised is cleared once, through suppression and restarts; no command is sent
twice with one token, or on a state that no longer permits it; the retained MQTT
status and the bus end with the newest state; rollups keep what they summarised;
an enabled admin always remains, and a revoked session stays revoked.

`PROJECT.json` lists every component with its status and every hazard at its line.

## Modules

| module | models | composes |
|---|---|---|
| `CommandPath` | `server.ConnectionTracker`, the command gate, `safety.SafetyWatchdog`, `_dispatch_command`, the sampling loop with the startup release, maintained relays, restarts | server, watchdog, store, lifecycle and driver in one module, because the properties relate them |
| `TransferStore` | position sensing, `RegisterStore.apply_input_snapshot`, both save paths, `StateFile`, kills and power cuts | store, persistence and the switch as environment |
| `DurableCounter` | abstract: what ICD 8.2 promises of `transfer_count_lifetime` | implemented by `TransferStore` |
| `AdamOutputs` | `IOAdamDriver` outputs: connection, F1 gate, pulses and their release tasks, stuck check, `OUTPUT_FAULT` | driver, dispatch tasks, sampling loop |
| `Poller` | GenWatch's `Poller`: prime and base loop, seed poll, fan-out, `CommsHealth`, watchdog | one instance per device |
| `LinkHealth` | abstract: what a poller promises the readers of its `CommsHealth` | implemented by `Poller`, an instance inside `AtsLink` |
| `AtsLink` | `AtsService`: authority, fault alarms, comms events, read-back edges; the link gate of `AtsControlService.execute` | `LinkHealth`, the ATS-Pi as environment |
| `RemoteControl` | `ControlService`, `AtsControlService`, the token store they share, the rate limiter, `ack_alarm`, the echo window | both services and the routes before them, both devices' views as environment |
| `Alarms` | `StateMachine.update`'s three alarm pipelines, the table `alarms_active`, `ack_alarm`, `apply_regmap` | state machine, its database rows and the H-100 as environment |
| `Publisher` | the bounded queue, worker and retries of `MqttPublisher`, which `SlackNotifier` has too | extended by `LoadSource` |
| `LoadSource` | position events of `AtsService`, the load source of `StateMachine`, `on_poll`, Slack's debounced alert, MQTT's retained status | all five, with `Publisher` as MQTT's queue |
| `Accounts` | `UserService`, `session`, the routes of `api.auth` and `api.users`, the shell's user commands | two processes over two tables |
| `SignIn` | `UserService.authenticate` with lockout, TOTP and recovery codes | users, totp and their rows |
| `Fuel` | `FuelMonitor`, its settings, `_check_fuel`, `alert_fuel` | state machine, monitor, notifier |
| `Retention` | `RetentionService` and the rollup statements of `db` | task and tables |
| `MCRemoteControl`, `MCAlarms`, `MCAccounts`, `MCFuel` | the instances of these modules whose constants are records or functions, or have symmetry | extend them |
| `CommandPath_proofs`, `TransferStore_proofs`, `AdamOutputs_proofs`, `Poller_proofs`, `Ats_proofs` (AtsLink, LoadSource), `RemoteControl_proofs`, `Alerts_proofs` (Alarms, Fuel), `Users_proofs` (Accounts, SignIn) | theorems and their proofs | |

Where the constants are sets and numbers the `.cfg` gives their values; the other four
have an MC module. The definitions TLC checks are
exactly those the proofs are about. An operator with an underscore and a lower-case suffix
(`Read`'s `NoteRead_anyoneRearms`, for instance) is not part of a specification: it is
the form a plausible bug would give the definition after it, kept to show that the
properties notice it (`mutants` in `PROJECT.json`).

A module has one safety invariant that TLC checks, the conjunction of its type invariant
and of named parts (`RelaySafety`, `CountSafety` and `RecordSafety`, `OutputSafety`,
`HealthSafety`, `AuthoritySafety`, `CommandSafety`, `AlarmSafety`, `LoadSafety`,
`SessionSafety`, `SignInSafety`, `FuelSafety`), and action and temporal
properties beside it. Where one module of proofs extends two components, one of them
prefixes what both would define: `LoadInit`, `FuelNext`, `SignInSpec`, `LoadTypeOK`.

### CommandPath

A step is what the event loop runs between two awaits.

| state | code |
|---|---|
| `commander` | `ConnectionTracker._commander` |
| `silence`, `gone`, `released` | `SafetyWatchdog._last_read_monotonic` (as checks gone by, saturating past the timeout), `_commander_gone`, `_released` |
| `wd`, `wdTries` | where `SafetyWatchdog.run` is suspended, and the attempts left of the write it awaits |
| `sampler`, `seen`, `atsMode`, `assumed` | where `_sampling_loop` is suspended, the coils it read and has not applied, `snapshot.ats_mode`, the configured mode |
| `readBack` | `snapshot.cmd_inhibit_active`, `cmd_force_transfer_active` |
| `tasks` | the tasks `on_command` creates, each awaiting one relay write with so many attempts left |
| `relay` | the physical relays |
| `hung`, `asked` | environment (the commander's peer is gone without closing) and history (what this process accepted an assert for) |

`Read` is any request that is not a command write; `WriteCommand` is a single or a
multi-register command write with all its consequences (the commander changes even
when the write is refused; the gate is all or nothing; each accepted register
becomes a task); `Disconnect` and `Hang` end a commander with and without a closed
socket. A dispatched write ends by `DispatchAck`, `DispatchTimeout` (which may have
landed, and may be retried: the Modbus client's lock is released between attempts,
so that others' writes fall in between) or `DispatchError`. `WatchdogCheck`,
`WatchdogAck`, `WatchdogTimeout`, `WatchdogError` are `SafetyWatchdog.run`;
`TimePasses` lets the clock go on while it waits. `ResetAck` and `ResetFail` are
the startup release, `SampleRead` and `SampleApply` the sampling loop, whose read
and application are separated by an await. `Restart` is a crash and a new process,
with the relays as they were or dropped by the module's host watchdog, and possibly
another configuration.

### TransferStore

`at`, `phase` and `strokes` are the switch: it pulses its Load Disconnect contact,
moves, and arrives. `held` is the driver's transferring hold, `position`
`snapshot.position`. `store` is the persisted part of `RegisterStore`; `loop` says
which blocking save the event loop is in, `jobs` holds executor saves. `file` is what
the file system shows and `onDisk` what a power cut could leave: every version
renamed since the last directory fsync. `Sample` is a whole
`read_inputs` + `apply_input_snapshot`, its save included: an increment blocks the
loop (`loop`), a retransfer starts an executor job. `Restart` and `PowerCut` start a
new process from `file`, or from any version in `onDisk`. `served` is what GenWatch
last read; `failed` remembers that some save did not work; `counted` remembers when
each transfer that still counts was counted.

`DurableCounter` is the promise without any of this: increments, reads, and crashes
that may lose only what no read has shown, until a save fails: `_save_blocking` swallows
`OSError`, and what was not saved is served all the same. `TransferStore`
implements it with `count <- store.count`.

### AdamOutputs

`link` and `verified` are `_connected` and `_hw_watchdog_ok`; `commanded` and
`settling` are `_commanded_do` and the settling time beside it; `pulse` holds
`_test_release_task` and `_bypass_release_task`. `task` are the dispatch tasks, which
become the release task of the pulse they started, and the sampling loop while it
reconnects (job `sample`). A task is `idle`, about to
`connect`, connected and reading the fail-safe back (`verify`), waiting for its `write`, its
connection was replaced under it (`lost`), in
the pulse's window (`pulsing`), or waiting to `retry` a release. Whoever finds the link down
closes the socket under all the others (`Starts`, `Cut`). `Connects` sets the link up at once, and
only `Verifies` changes the verdict: in between every other task finds a live connection and passes
the gate, or does not, on the *old* verdict, and the task that reconnected writes whatever the new
one says. `WriteUnanswered`
may have landed; `AdamResets` is the module dropping its relays while nobody talks to
it. Dispatch tasks and `Sample` both publish `outputFault`.

### Poller

`comms`, `failures`, `successes` are `CommsHealth.state`, `consecutive_failures` and
`consecutive_successes` (each counted as far as `_classify` looks), `window` is
`_results`, `episodes` the entries of `_lost_episodes` that are younger than
`FLAP_WINDOW_S`, `primeGood` what the watchdog makes of `last_prime_good_monotonic`.
`awaits` is the batch each tier's poll waits for, `read` the batches of the prime poll
that brought something, `running` that the seed poll in `start()` is over. `link` is
the environment: all reads succeed, none, those of the base tier, or any.

`Begin` is an iteration of a loop. `Sample` is one batch with its fan-out: read whole,
in part or not at all, recorded (`Record`: counters, window, `_classify`, episode), and
with the last batch the end of the poll with the heartbeat. The two polls interleave
between batches. `SeedTimesOut` cancels the seed poll, `Watchdog` is `_watchdog`,
`PrimeFallsSilent` and `EpisodeAges` are time. The ATS-Pi's map has no engine state
(`StateBatches = {}`), the generator's has: the heartbeat differs.

`comms` and (`failures > 0`) are what `LinkHealth` shows of this to others, who may look
between any two samples: a failed sample is never hidden, a good one never reads as a
loss, a lost link stays lost until a sample is good.

### AtsLink

| state | code |
|---|---|
| `comms`, `failing` | the poller's one `CommsHealth` object, shared by every snapshot |
| `poll`, `core` | the batch the prime poll awaits, and what its first batch read of the fault word |
| `snap` | `AtsService.snap`: position fault, read-back of one maintained command, unit id, `base_poll_completed` (`based`), `last_reading_ts # 0` (`polled`) |
| `echo` | the entries of `_cmd_write_monotonic` younger than `_CMD_ECHO_WINDOW_S` |
| `cmd` | the value `AtsControlService.execute` is writing, under its lock |
| `row`, `acked` | the fault's row among the active alarms, which survives a restart; history: an operator's `ack_alarm` has deleted it since it was raised |
| `toldCmd` | what the last command event (or the operator's own command) said |
| `ats`, `link` | environment: the ATS-Pi's registers, and whether reads succeed |

Each poll is a sequence of samples, each of which changes the health at once, and ends
in `Update`, which is `_update` with what was read. Of the prime poll
two batches are kept, with the fault word in the first and the read-back in the second,
because the update sees both and the health changes in between; of a base poll
the last (`BasePoll`), the others being `BaseSample`. A batch is read whole, without
the register in question, or not at all; a value that was missed is kept, and
the fault word may also be evicted, which `_update` takes for 0. `Command` is the gate of
`execute` (an assert needs authority, a release a link), `Answered` a write with its
answer and `note_command_write`, `Unanswered` an attempt that may have landed and is
repeated or given up. `AutoRelease` is the ATS-Pi's own release, at any time: its watchdog
needs no more than a dropped connection, well inside our echo window. `Acknowledge` is `ack_alarm`
of the fault, which `_update` does not raise again before the bit has gone low. `Restart` is a new GenWatch.

### RemoteControl

| state | code |
|---|---|
| `token` | `ControlService._tokens`; a token that was popped or has expired is `gone` |
| `req` | the requests: who asks for what with which token, and where the handler is suspended: `wait` (for its service's lock), `token` (an ATS command or an ack, for the store's lock), `wire` and `landed` (its write), or how it ended |
| `ctl`, `ats` | who holds `ControlService._lock` and `AtsControlService._lock` |
| `bucket` | the buckets of the ATS commands' `RateLimiter` |
| `h100`, `atsView` | what the gates read of `StateMachine.snap` and `AtsService.snap` |
| `relay`, `shown`, `echo` | the companion's maintained outputs, their read-back in the last snapshot, and `_cmd_write_monotonic` |
| `mover`, `aged` | history: the request that last moved an output, 0 for a stranger; the acknowledged writes whose window is over |

`ExecuteVerb` is `ControlService.execute` up to its write: gates and token in one step,
because nothing is awaited between them, under a lock that is kept for the write.
`ExecuteCommand` passes its gates and then waits for the store's lock if a verb holds it
(`TakeToken`), so polls come between gate and write. `EchoAges` is nothing but time: it does
not wait for a poll to have shown the edge. `CommandLands`
and `EndCommand` cut an ATS write in two: the companion drives its output, then the
answer comes, or does not. No poll of the same device falls between
the two, because `TcpRtuModbusClient` holds one lock for both (`WireFree`).
`AckAlarm` spends a token without any lock of its own service.

### Alarms

`Update` is `StateMachine.update` as far as it touches alarms. Every callback of the poller brings one
here: `image` is what the poller's image holds of the alarm registers, and a poll may have read them
anew (`Poll`), leave them as they were, because it is a base poll or its batch failed (`StalePoll`), or
find them evicted (`EvictingPoll`, where the raw
alarm set is empty and the engine state kept). `count` and `raised` belong to the bit
alarms, `rangeCount` and `rangeRaised` to the numeric ones, `disCount` and `disRaised` to the
disagreement; `shown` is `snap.active_alarms`, `rows` the table. `AckBegins` and
`AckEnds` are the two sides of the awaited write. `Reload` is `apply_regmap` with any rules;
`Restart` keeps `rows` and nothing else. `left` remembers which rows a restart left behind,
`acked` which displayed alarms lost their row to an operator, `streak` for how many polls in a row the image had a bit.

### Publisher and LoadSource

`Publisher` numbers messages as they are queued: `queue`, `sending` (what the worker
awaits), `waiting` (the tasks of `_requeue_after`), `retained` (the broker's). A send may
land and still fail.

In `LoadSource`, `AtsPoll` is the position part of `AtsService._update`, which settles whether the
snapshot is `believed` (the right unit, no position fault); whether the ATS-Pi has authority, `Authority`,
is asked anew of that and of the live health (`rated`) wherever the code asks `is_authoritative`. `PrimePoll` and `TelemetryPoll` (a base poll) are
`on_poll`. The base poll's event is `held` until `TelemetryWritten`, the end of
`asyncio.to_thread(db.write_telemetry)`, and the other loops go on meanwhile.
`FromTelemetry` is the electrical inference over six kinds of evidence; `LoadEvent` leaves
the event to the ATS path while that is authoritative. `Alert` and `DebounceEnds` are
`alert_load_source_change` with its delayed task, `announced` and `pending` its two
fields; `status` is MQTT's deduplication key. `told`, `heard`, `before` and `firmed` are
history: the last event in the log, the last that passed Slack's flags, the authority of
the last poll, and whether a firming from `unknown` was suppressed.

### Accounts and SignIn

In `Accounts`, `users` and `session` are the tables (a session with the token its holder has). `job` is, for each
of the two processes, the list of statements it has still to run: `Statements` is the
body of each operation of `UserService`, and the other process's statements fall between
them. `Begin` is the reading of the row with which each job starts; `Reread`, `Open` and
`Extend` are the second reading, the insertion and the renewal in logins, password
changes and `/api/auth/me`. `ticket` is the principal that
`get_principal` found on its worker thread, which may be stale when its handler runs.
`raced` marks a session whose login overlapped a password change.

`SignIn` is one account whose password does not change. Time is relative to now: a code is
the secret and the period it is of, `last` the counter that was spent last, `lock` what is left
of the lockout.

### Fuel

Time is counted in polls. `FuelUpdate` is `FuelMonitor.update` on a plausible level: `Classify` with
its hysteresis, the reminder (`spoke`), then `CheckDrop` over `samples`. `AlertFuel` posts what the
`alert_on_fuel` flags do not keep back (`Muted`). The lines are any numbers, in any order, and the hysteresis may be 0,
because `FuelConfig` checks neither. `Blind` is a poll
without one, or of a site to which it does not apply. `UpdateConfig` replaces the settings
and keeps the rest; `FuelRestart` forgets all. `isLow` remembers for each tier
whether its line was passed and is still held, `past` what the detector was shown.

### Retention

A rollup row is the set of samples it was made from. `Rollup1m`, `Rollup1h` and `Prune` are the
steps of a tick, with the `now` of its beginning; `Replaced` is what `INSERT OR REPLACE` does.

## Runs and what they show

| run | module, specification | properties | shows |
|---|---|---|---|
| `command_path` | CommandPath, `FairSpec` | `RelaySafety`, `HungCommanderIsReleased`, `ReadBackFollowsRelay` | nothing is commanded before the startup release and no relay is on, or reads back on, that this process did not accept in a mode that permits it; the relays of a commander that hangs for good open and stay open, although another connection keeps reading; the read-back ends up right |
| `transfer_store` | TransferStore, `Spec` | `CountSafety`, `RecordSafety`, `CountIsDurable` | the count is durable for its reader, counts no phantom, agrees with its neighbours, and implements `DurableCounter` |
| `adam_outputs` | AdamOutputs, `FairSpec` | `OutputSafety`, `PulseIsReleased`, `StuckIsReported`, `DisarmedIsLeftAlone` | an acknowledged pulse has its release in hand, and ends; a stuck relay keeps being reported; a module that stays without its fail-safe gets no assert any more, once those that passed the gate on the old verdict have run out |
| `poller` | Poller, `FairSpec` | `HealthSafety`, `GoodLinkHeals`, `DeadLinkIsLost`, `SilentPrimeIsLost`, `HealthIsPromised` | a flapping link is healthy only with a window that says so; a failure shows at once, in the middle of a poll; a good link becomes healthy and stays so; a dead one is lost, one that only serves the base tier again and again; `Poller` implements `LinkHealth` |
| `ats_link` | AtsLink, `FairSpec` | `AuthoritySafety`, `FaultEndsAuthority`, `WrongUnitLosesAuthority`, `AuthorityReturns`, `FaultIsRaised`, `AutoReleaseIsTold` | no authority between a failed batch and the next good one, although nothing reads the snapshot's health anew; a fault and a wrong device end authority, a good link brings it back; a lasting fault has its alarm, unless an operator took it away, through restarts and evictions; a command that was told and seen on, and has no write left in the echo window, is not dropped unsaid |
| `remote_control` | MCRemoteControl, `FairSpec` | `CommandSafety`, `OwnEchoIsKnown`, `EveryRequestEnds` | a token pays for one write, on whichever surface, of the operator and action it was issued for; a command is alone on its surface between gates and end; locks are not left behind; the limiter bounds what reaches the wire; an edge that GenWatch caused and knows of is not called external while its window lasts; no two requests wait for each other |
| `alarms` | MCAlarms, `FairSpec` | `AlarmSafety`, `AlarmsAreEarned`, `PersistentAlarmIsShown`, `SettledAlarmIsDropped` | display, table and in-memory sets agree but for acknowledgements and rows of an earlier process; an alarm takes its polls in a row, of whatever tier, whose image has the bit under the map in force; a lasting bit is shown and a bit that went low dropped, through reloads, suppression, outages and restarts |
| `load_source` | LoadSource, `LoadFairSpec` | `LoadSafety`, `MessagesFormAChain`, `SilenceIsExplained`, `SettledIsAnnounced` | the newest status is retained, on its way or known to be dropped, and replaced by an older one only through a retry; Slack's messages form a chain over any flapping and both paths; the load source changes in silence for three reasons only; where the alerts settle is announced, and the queue of publishes empties |
| `accounts` | MCAccounts, `Spec` | `SessionSafety`, `AdminRemains`, `StaysSignedIn` | a session that was ended, by whichever process, is never accepted again; one that is accepted has today's password; an enabled admin remains unless both processes removed one at once; a console in use stays signed in |
| `sign_in` | SignIn, `FairSpec` | `SignInSafety`, `GuessesAreSpaced`, `HolderGetsIn` | no code is accepted twice, across the drift window, logins and enrolments; guesses are a lockout apart once the threshold is reached; the holder gets in again |
| `fuel` | MCFuel, `FuelSpec` | `FuelSafety`, `DropAlerts` | the status is what two lines with a hysteresis each would say, whatever moved and in whatever order they are; a low tank has been told unless a flag keeps it back; a drop is told when it happened in the window, and only then |
| `retention_hour` | Retention, `Spec` | `HourlyRowIsWhole` is violated | the finding |

`adam_outputs`, `poller`, `sign_in` and `fuel` check for deadlock. In the others the check
is off: CommandPath, TransferStore, RemoteControl, Alarms, LoadSource, Accounts and
Retention are bounded by counters (the clock, free slots, requests, moves, bumps), and
AtsLink can always restart, so that the check would say nothing.

Every property is also seen to fail when the definition it guards is changed the way
a bug would change it (a dropped commander test, a release that latches on failure, a window
that is not reloaded, a pulse without its task, a token that is not popped, a lock that a
refusal keeps, a reload that forgets what is raised, a code accepted at the counter
it was spent at, ...).

### Bounds

* CommandPath: `Conn` has two connections, enough for a commander and a second that
  commands or only reads: the code
  only ever compares a connection with the one commander. One task slot with
  two attempts lets a retry land late, beside the watchdog's and the startup release's
  own writes; the theorem `RelaysAreSafe` covers any number of slots. `Timeout = 1` check is
  enough for a release to
  be due both before and after other steps; the counter saturates just past it. Two
  configured modes: one that permits both commands and one that permits only one.
* TransferStore: two strokes (a first count and a second to overtake or lose), three
  clock values with a window of one, so that a stamp is inside, on and past the
  boundary; executor jobs are bounded by what two strokes can start.
* AdamOutputs: one pulsed and one maintained output and two tasks, so that two pulses
  race, or a pulse and a command, or either with the sampling loop's reconnect. A third
  task would only be one more that waits: what a task can meet is another
  task reconnecting, reading the fail-safe back, filling its slot or writing its relay, and one other does each.
* Poller: two batches in a tier, so that the other tier's samples fall inside a poll,
  and one of the two prime batches with the engine state. What counts is the order of
  the thresholds: in the code 3 failures make a link lost, 5 good samples are a streak,
  the window has 60 places and tolerates 5 %, which is 3 failures. With
  `LostAfter = 2`, `Streak = 3`, `Window = 6`, `Ratio = 3` it is the same: the failures
  that lose a link are just tolerated by a full window, and a streak does not refill a
  window. `FlapMax = 2` is the code's, `EpisodesKept = 3` one more.
* AtsLink has no counters. One position fault (the others of `_POSITION_FAULTS` are
  treated alike), one maintained command (each has its own entry in the echo window and
  its own edge), and two devices, the expected and another.
* RemoteControl: two requests and two tokens (`MaxRequest`, `MaxToken`) of an admin and an
  operator: every property is about one request or a pair. One action of each surface
  (a verb, an ATS command that only an admin may give and that an override may force, an
  acknowledgement). One change by
  a poll or a stranger (`MaxPolls`), which can fall between any two steps of either request;
  a bucket of one (`Burst`), refilled once (`MaxRefill`).
* Alarms: a debounced code that one engine state hides, a plain one, one range alarm; the thresholds
  are two. Two events (`MaxEvents`: acknowledgement, reload, restart, outage), so that any two meet.
* LoadSource: three moves (`MaxMoves`) of the switch, its link, its trust and the generator: there and
  back with something in between. A queue of one and two attempts (`MaxQueue`,
  `MaxAttempts`), with one send that fails (`MaxFailures`), so that a retry overtakes and
  a full queue evicts or drops.
* Accounts: two admins, two sessions, and one bump of a `token_epoch` (`MaxBumps`);
  lifetimes of three and four units with an idle timeout of one, so that renewal, idleness
  and expiry are in different units. Demotion and promotion are in the module but not in the instance:
  to the check they are what disabling and enabling are.
* SignIn: a threshold of two, lockouts of two and three units (`Base`, `Cap`), a drift of one period as in the
  code, two secrets (`MaxSecret`), the second for an enrolment in place of the first.
* Fuel: three settings, to be changed into each other: two lines whose bands of hysteresis overlap; the critical line above the
  other, with no hysteresis and no drop detector; the monitor off. One message is `Muted`. Five levels, a window of three polls
  and a deque that fills up within it (`Capacity`). In the code the deque has 2048 places, which at the
  usual 1.5 s cadence is less than the usual 60 minutes, so it fills up there too.
* Retention: four minutes in an hour, three hours (`MaxTime`).

### Fairness

`Fairness` is weak for what the event loop runs by itself: a sleeping coroutine
wakes, a ready one is run, a write under way ends in *some* way (answer, timeout,
error), a timer fires. It is strong for the success of writes that the code retries
for ever (the watchdog's release, the startup release, the end of a pulse): a
module that is asked again and again answers some time. Without it nothing could
be said of a relay behind a dead network, and the code says nothing either.
The environment has none: clients may fall silent, processes need not crash.
In AdamOutputs every task that can go on does (`WF_vars(Steps(t))`); a module that is asked again and again
accepts a connection and lets its fail-safe be read before the link is lost again (`SF_vars(Connects(t))`,
`SF_vars(Verifies(t))`), and takes a release of each output. The sampling loop and the settling times are
weakly fair: `StuckIsReported` speaks of a module that is reached, `<>[](link = "up")`.

In Poller the loops run, reads end (well or badly: the client has timeouts) and the
watchdog wakes. `PrimeFallsSilent` is time, and fair only while no prime poll can
be good: to make it fair always would say that good polls are slow.
`GoodLinkHeals` therefore excepts a link whose prime polls take longer than three
cadences, which the watchdog takes for lost although every read succeeds.
The reappearance of `lost` in `SilentPrimeIsLost` is the most that holds: each good base
batch overrules the watchdog.

In AtsLink the seed poll ends or times out, prime polls go on, and writes end. A base
poll may change nothing (a good sample on a healthy link), and asking
for such a step to be taken again and again would force changes of the health that the
code need not make; fairness is therefore on base polls over a good link that
change the snapshot. The environment and the operator have none.

In RemoteControl some request's handler goes on when one can, and a write is answered or
times out; whose turn it is does not matter for a bounded number of requests. In Alarms prime polls go on being answered,
and an outage ends: without that nothing is promised of what cannot be seen. In LoadSource the
delayed alert and the publish worker go on; nothing is asked of the polls. In SignIn time passes. Accounts, Fuel and Retention
have safety only.

No fairness is put on dispatched commands succeeding: they give up.

## Proofs

All theorems hold for every value of the constants that satisfies the modules'
assumptions; `TLAPS` checks each step.

**`CommandPath_proofs`.** `Invariance`: `Spec => []Inv`, where `Inv` strengthens the
three properties:

* `CommandsWaitForReset` needs `NothingSampled`: before the startup release is over
  the mode is unknown, and no register is writable in an unknown mode
  (`UnknownAcceptsNothing`). This is the whole of the protection: the server is
  listening all the while.
* `NoInheritedCommand` needs `HalfReset` (the release opens force_transfer before it
  turns to inhibit, and no task can turn it on again meanwhile) and `TasksAsked`
  (every task that would assert a relay was accepted in this life).
* `ModePolicy` follows from `NoInheritedCommand` and `AskedPermitted`: a relay that is
  on was asked for, and what was asked for was permitted in the one mode this
  process ever reports.

From it: `TypeCorrect`, `CommandsWait`, `NothingInherited`, `ModePolicyKept`, and their
conjunction `RelaysAreSafe`.
`ReleaseIsReal` is the action property `LatchedOnlyWhenOpen`, that only the
acknowledgement of the last write latches; no run checks it by itself, because `HungCommanderIsReleased`,
which speaks of the relays, says more.

**`TransferStore_proofs`.** Assumes `DiskKeepsUp` (an executor save does not outlast a
stroke of the switch) and `WritesBack` (a rename is on disk before systemd, with
`RestartSec`, starts the service again). Both are needed: without the first, a
retransfer's executor save overtaken by a transfer's blocking save puts the older file
back; without the second, a kill between rename and directory fsync lets the next
process serve a count that a power cut then takes back. `Inv` says how far the disk is
behind at each point of a save (`Durable`), that no executor save runs when a
transfer can be counted (`Quiet`), and which transfers are still owed a count
(`Owed`: a position that precedes a transfer, seen while the switch is already
on the generator, or the hold of a retransfer). From it `ReadsAreDurable`,
`CountsNoPhantom`, `CountIsSafe`, and `ImplementsCounter`: initial states map to initial states and
each step to a step of `DurableCounter` or to a stutter.

`RecordsAgree` (that the fields of the state file agree, `RecordSafety`) is about versions of the
fields, of which there are many at once: in memory, in the file, in the older files a power cut may bring back, in the
executor's jobs. `Records` says the same of each: a `Version` with count `n` has the stamp of the `n`th
transfer, and its deque is what is left of the first `n` stamps when some of the oldest, all of them out of the window, are
dropped (`Follows`). Appending and popping keep that, and saves copy a whole version. That such a deque
has exactly the stamps of the window follows because stamps do not decrease; where the window begins is the least
number of stamps to drop, and the least-number principle (well-foundedness of `<`) takes the place of an induction.

**`AdamOutputs_proofs`.** `TypeOK /\ PulseHasRelease` is
inductive, because `TypeOK` says which job a task may be doing at which place: a pulse's off is
recorded only by the task in its window, and a task that becomes the release of a pulse waits in
that window first. `TypeCorrect`, `PulsesAreReleased`, `OutputsAreSafe`.

**`Poller_proofs`.** `TypeOK /\ FlappingEarnsHealth /\ FailureIsSeen` is inductive. A
sample classifies anew, and of `_classify`'s two ways to `healthy` the short one is
closed to a flapping link while the other looks at window and failures. Between
samples, an episode is added only where the link becomes lost, and forgetting one only
opens the gate. `TypeCorrect`, `FlapGate`, `FailuresShow`, `HealthIsSafe`. `ImplementsHealth` maps each
step to one of `LinkHealth` or a stutter; beside the invariant it needs that a lost
link has failures to show (`LostCounted`), which holds because the watchdog sets the
count that the next good sample resets.

**`Ats_proofs`.** Of AtsLink, `TypeOK` and `FailureShows` (a healthy link has no failure) are
inductive: samples are `LinkHealth`'s steps, and everything else leaves both variables
alone or starts them afresh. `TypeCorrect`, `NoFailingAuthority`, `AuthorityIsSafe`.

Of LoadSource, `StatusIsAccounted` needs to know what a send that ends may replace. Retries go to the tail, so the
queue is not in the order of its numbers; but the messages that never failed are (`FreshInOrder`), each of them is newer than
every message that ever failed, and as long as there is one the newest is behind it or was dropped
(`FreshIsNewer`). A message that reaches the broker has therefore failed before, or the newest still follows it, or it is the newest.
On Slack's side, `PendingIsCurrent` with `LastIsAnnounced` (the last message ended at
`announced`) is inductive and makes the messages a chain. For `SilenceIsExplained`, `AuthorityIsTold`: what the
switch said while it had authority at the last poll is the load already, or was told, or was the
suppressed firming; a poll without authority tells by itself. `LoadIsSafe`, `MessagesAreAChain`, `SilenceHasAReason`.

**`RemoteControl_proofs`.** `TypeOK`, `OneWritePerToken`, `WriteWasConfirmed` and `LockIsInUse`
need three more: `Holders` (the locks as the requests see them: a handler past its gates holds the
lock of its surface), `AskedWithToken` (a request that is under way names a token that was issued, so
no write of an earlier request is paid for by a token that is live), and `Charge` (every ATS
request let in, whether it has written yet or not, has taken from its operator's bucket).
Spending a token and going to the wire are one step, which is why a second write finds the token
spent. From it `WritesAreConfirmed`, `SurfacesExclude` and, with the rate bound, `CommandsAreSafe`.
`EchoesAreKnown` is the action property `OwnEchoIsKnown`. Its invariant `EchoKnown` names the request that moved an
output last: it has driven the output to the value it has, and once it is acknowledged its echo is on record
or has `aged` out. Echoes expire and writes overlap with polls, but no poll of the device falls between a
write and its answer.

**`Alerts_proofs`.** Of Alarms, `AlarmSafety` becomes inductive with `RaisedIsShown`: what the range and
disagreement pipelines have raised is on display, and `RaisedIsRead`: the bits that are raised are in the image,
so that a poll which brings no new reading finds them again. A poll is proved one pipeline at a time
(`BitsAgree`, `RangesAgree`, `DisagreeAgrees`); the argument is that each touches rows of
its own codes only, so what one establishes the next leaves alone (`UpdateInv`).
`AlarmsAreSafe`. `AlarmsAreFair` is the action property `AlarmsAreEarned`: with `Earned`, that
`_alarm_poll_counts` counts the polls in a row whose image had the bit under the map in force, each step is looked at
for one code. They are polls of either tier, answered or not, which is less than the map's text promises (`PrimePollsRaise` below).

Of Fuel, `StatusIsTwoLines` becomes inductive with `LinesAreNested`: the critical line is low only with the
warning line, whatever the settings are changed to, in whatever order the lines are: `_classify` asks for the critical line first, and
leaves `critical` for `ok` only past both. It takes nothing of the settings but that a hysteresis is not negative (`_classify`
raises one that is to 0). The drop detector needs to know
what its deque is. A sample in the window is the reading of as many polls ago as its age says, no burning engine was seen since, and it has as many
samples behind it as there were readings since (`SamplesAreReadings`); and a reading that may be compared
is still among the samples (`ReadingsAreSampled`). With the samples in the order of their ages, eviction at the front loses
only what is out of the window or what the deque has no room for. `FuelIsSafe`, and `DropsAreTold` for the
action property `DropAlerts`.

**`Users_proofs`.** Of Accounts. Any statement of one process may fall between two of the other's, so each part of
`Inv` says what the statements that are left of a job rest on. `EpochsCovered`
and `RowsBelong`: epochs only grow, and no session or job is ahead of its account's.
`EndedIsOver` with `ToldIsEnded`: a session that was declared over is gone or fails validation for good, and one that a job
will declare over is gone, or the job has still to revoke it. `LiveIsCurrent`, `RenewsCurrent` and `RenewalIsTold`: a live
session of today's epoch has today's password, or is about to be revoked by the job that set the password, and no renewal in
progress brings another back. `RemovalIsSafe`: what has passed the last-admin check leaves an admin, or two processes have removed one at
once. `RenewsInTime` and `RenewsEnabled`: a console in use is in the first half of its life, or being renewed, or its account is being disabled.
From it `SessionsAreSafe`, `AnAdminRemains`, `ConsolesStaySignedIn`.

Of SignIn, `SpentIsPast` (the last counter is past every spent code of the secret in force,
and no spent code is of a secret still to be generated) and `SpentIsUsedUp` (no spent
recovery code is unused). Time moves the counter and the codes alike; what falls out of the
drift window matches no more. `SignInIsSafe`. `GuessesWait` is the action property `GuessesAreSpaced`: wrong codes are
among the failures that count, so that at the threshold each locks for the base at least, and lock and time since make a whole lockout
(`GuessInv`). The factor of the lockout is a table of the eleven powers of two the code can reach, because the provers know nothing of
powers but that they are integers.

Only model-checked: everything under fairness (`HungCommanderIsReleased`,
`ReadBackFollowsRelay`, `PulseIsReleased`, `StuckIsReported`, `DisarmedIsLeftAlone`, `GoodLinkHeals`,
`DeadLinkIsLost`, `SilentPrimeIsLost`, `EveryRequestEnds`, `PersistentAlarmIsShown`,
`SettledAlarmIsDropped`, `SettledIsAnnounced`, `HolderGetsIn`, the liveness of `ats_link`), which the
prover does not reach. Every safety invariant and every action property of a passing run is a theorem.
What the code does *not* promise (the finding, and the refuted statements below) is shown by TLC alone.

## Finding

**The hourly rows lose most of their hour** (`retention_hour`). Each tick rolls up the
minutes since `now - 2*3600` into hours with `INSERT OR REPLACE`. The oldest hour the window touches is
cut by it, and its row, which an earlier tick had made from all of its minutes, is replaced by an
average over the last few. As no later tick looks at that hour again, this is the row that
is kept. The comment at `retention.py:70` says re-aggregating is safe. With a window that
starts at a whole hour the property holds.

## Stated and refuted

The modules also state what a document or a comment promises and TLC refutes; a
configuration with the definition as its INVARIANT or PROPERTY shows how. They are not
among the runs.

* `CommandPath!DropReleases` (`server.py:212`: "A drop of the commanding connection
  triggers an immediate release"). `note_disconnect` clears the commander
  and asks for a release at the watchdog's next tick, up to a second later. With no
  commander *any* connection's read counts, and `note_modbus_read` clears the request.
* `CommandPath!SilenceReleases` (ICD 8.3). The watchdog sets
  `_released` after its awaited writes. A command accepted meanwhile, or a delayed
  dispatch that lands after them, is on under a latched watchdog, which releases nothing before the next
  commander falls silent. `HungCommanderIsReleased` therefore speaks of a commander that hangs when the watchdog is
  between its checks, has not latched, and no dispatch is under way.
* `AdamOutputs!PulsedRelayDrops` (`io_adam.py:111`: "A pulsed relay (test, bypass) MUST
  drop when its window elapses"). If the write that starts a
  pulse lands and its answer is lost, `drive_outputs` raises before it creates the
  release task.
* `AdamOutputs!NoUnverifiedAssert` (`drive_outputs`: "never ASSERT an ATS output while the ADAM's hardware
  fail-safe is unverified"). The gate is passed on the last verdict before the await of the connection, and
  `_connected` is set before the new one is read: several asserts may be on their way when the
  verdict turns false.
* `Poller!LostRebuildsStreak` (`poller.py:283`). The first good sample after a loss resets the failure
  count, and `_classify` falls through to the success percentage,
  which a silence without failed samples did not lower: one sample heals the link.
* `AtsLink!CommsIsAnnounced` (ICD 9.1). `_update` compares `comms.state`
  with that of the previous snapshot's health, but the poller passes one mutable
  `CommsHealth` to every callback: from the second poll on
  both are the same object, so that a link that is lost time and again is told of at most once, at the first poll.
  (The same sharing makes `is_authoritative` see a failure at once, which `AuthoritySafety` relies on.)
* `AtsLink!FaultStaysRaised` (`events.py`: a re-raise on the next poll is harmless). The row of an ATS fault that is
  acknowledged while the fault stays is not written again: `_update` raises on the edge only.
  `FaultIsRaised` excepts what an operator took away.
* `AtsLink!EveryReleaseIsTold` (`ats.py:376`: an operator must see that the command dropped). Off, on again and
  the companion's own release within ten seconds: the edge passes for the echo of the first write.
  `AutoReleaseIsTold` excepts an edge for which a write of the same value is in the window.
* `AtsLink!BootIsQuiet`, under `QuietSpec` (`ats.py:497`). The guard in
  `_check_maintained_cmd_edges` spares the first poll, for want of a baseline, but
  the first poll is `start()`'s base poll, which reads no read-back.
* `Alarms!ClearedOnlyWhenLow` (`state.py:414`: "only when the underlying BIT goes low";
  `events.py`: the active set "is held from the last good poll" while the link is lost).
  An outage evicts the alarm registers, and every alarm is cleared.
* `Alarms!AckedAlarmComesBack` (`events.py`: a re-raise on the next poll is harmless). A row
  deleted by an acknowledgement while its bit stays set is not written again, because only
  what is new on the display is raised.
* `Alarms!PrimePollsRaise` (`registers.py:78`: "how many consecutive prime polls the bit must remain set"). Base
  polls end in `update()` too, and a prime poll that read nothing leaves the bits as they were: both count.
* `Alarms!RangeCountIsDropped`: counters of range alarms survive a reload that disables them, so a later
  one that enables them again may raise on its first poll.
* `RemoteControl!OwnEchoIsNeverReported` (`ats.py:82`, the window's "generous slack for a degraded link"). The window is
  ten seconds and nothing else: a link that is lost for longer brings the edge back too late, and our own
  command is reported as external.
* `RemoteControl!GatesHoldAtWrite` (`control.py:234`: the gate "is evaluated against the latest poll result"). A write waits
  for the client after the gates, a command for the token store too; what polls find meanwhile stops nothing.
* `RemoteControl!SecondStartIsRefused` (`control.py`: two operators must not both end up writing the
  start). The second is gated on an engine state that no poll has read since the first was written.
* `LoadSource!HeldIsCurrent` (`mqtt.py`: the retained message is the current state). The event of a base poll that waits for its
  telemetry is overtaken by prime polls and forwarded although the load is elsewhere by then.
* `LoadSource!RetainedIsNewest`: a publish that is tried again goes to the tail of the queue, overtakes a newer one, and is retained.
* `LoadSource!ReturnIsPublished` (`ats.py:543`). The suppressed firming `unknown -> utility` also
  occurs when the switch comes back from the generator through `unknown`: MQTT keeps `on`.
* `LoadSource!OutageIsPublished` (`state.py:492`). While the ATS-Pi is authoritative but says
  `unknown`, an outage that the generator's output shows is told to nobody.
* `Accounts!SomeAdmin` (`api/users.py:5`): two processes may each disable one of two admins,
  because the check and the change are two statements. `StaysSignedIn` with
  `Habit == Long - 1` (`config.py:140`, `session.py:238`): a device used once per
  `remember_me_days` may miss the half of it in which it is renewed.
* `SignIn!EnrollKeepsAccess` with `Required = TRUE` (`api/auth.py`, `totp_enroll`):
  enrolling again takes the factor in force away until the new one is confirmed.
* `Fuel!SpansNoRun` (`fuel.py:275`: "a comparison can never span a period when consumption was
  legitimate"). A run in which no level could be read leaves the level before it in
  the window.

* `Fuel!LineIsQuiet` (`fuel.py`: "a sender oscillating around 25% warns once and then stays quiet"). `hysteresis_pct` may be
  configured as 0, and then a level that rests on a line passes it and clears it at every other poll.

Beside these: a login that overlaps a password change from the shell may open
a session with the old password (`raced` in Accounts); a refuelling during a
restart is not announced.

## Not modelled

`PROJECT.json` gives the status of each component. In the modelled ones:

* the Modbus framing, register encoding and exception codes; what is kept is which
  writes are refused and what a refusal still changes;
* the read-only registers, the health page, and the fault bits other than
  `OUTPUT_FAULT`;
* the mode is the configured one (`assumed_mode`); the switch's real mode is not sensed
  by the ADAM driver;
* in CommandPath, pulsed commands (AdamOutputs has them) and the driver's reconnects
  (an attempt that fails is enough there); in AdamOutputs, who commands;
* in TransferStore, a clock that steps back, a corrupt state file, and a stroke that
  outlasts the transferring hold;
* in Poller, the values read and their eviction (AtsLink and Alarms have what they come to), latencies,
  `stop`, and the Modbus client's retries (an outcome of the read);
* in AtsLink, mode events, the reboot and time-skew detectors. The relay of an
  answered command moves with the answer;
* in RemoteControl, a write's retries (its outcomes are kept), cancellation of a handler, the audit rows;
* in Alarms, the events and messages of an alarm, and severities;
* in LoadSource, restarts and the end of the notifiers, Slack's own queue (MQTT's is the same), a
  change of the notifiers' settings;
* in Accounts, `must_change_password`, creation of accounts and the bootstrap one, the
  WebSocket's revalidation of its session; the two readings of `validate` are one step;
* in SignIn, the limiter of logins per address, and passwords that change;
* in Fuel, `drop_only_when_stopped: false` and `alert_on_fuel_drop: false`, the routing of an alert to channels, and `gaseous` sites
  beyond their being not applicable;
* the ordered shutdown, with dispatch tasks that outlive it; the input debouncer.

Out of reach or not worth a model: the serial protocol's parsing, register decoding,
configuration parsing, the bench tool and mock, HTTP formatting, the frontend,
installation scripts.

## Plan

1. **Proofs** of what the liveness properties rest on: that the steps under fairness are those that make
   progress (a measure that no other step undoes), for the watchdog's release, the delayed alert and the echo
   of a command.
2. **ATS-Pi, the rest**: the ordered shutdown against dispatch tasks in flight, as a stage of
   `CommandPath`; input debouncer and hybrid sense (a lost sense source must blind the
   position).
3. **Event bus and WebSocket**: a dropped subscriber, the revalidation of its session, the
   bus's order against the table's.
4. **Modbus client**: its lock, backoff and retries, as the refinement of what Poller and
   RemoteControl take for the outcome of a request.
5. **More proofs**: what `AtsLink` shows the control services, as an abstract specification of its own that
   `RemoteControl` is then stated over.
