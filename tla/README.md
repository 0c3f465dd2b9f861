# TLA+ models of telenot-esp-bridge

The bridge is Rust firmware for an ESP32 that sits inside a Telenot alarm
control panel, reads and commands it over the serial GMS interface and offers
it to MQTT / Home Assistant and HomeKit.  This directory holds TLA+ models of
the parts of the firmware where the order of events decides what happens, the
TLC configurations that check them on small instances, and TLAPS proofs, for
every value of the constants, of every safety property those runs find to hold.

Paths below are relative to the repository; `lib.rs` without a crate is
`crates/telenot-core/src/lib.rs`.

## The system

```
 panel ──RS232/TCP── PanelTransport ── app_loop (one thread) ── Runtime ── Core
                                          │   │   │              scan, probes
   REST (httpd thread) ── App (mutex) ────┘   │   └── EspMqttSink ── broker
   HomeKit (C callbacks) ── App ──────────────┘   └── NVS flash
```

One thread, the loop of `telenot-esp-bridge/src/app_loop.rs`, owns the panel
line, the core, the MQTT sink and the flash.  Everything else reaches it
through the `App` behind a mutex: REST handlers and HomeKit callbacks push
*intents*, MQTT's event pump sets flags and pushes received commands.  One pass
of the loop checks timers, takes the intents, runs them, reads the line once
(the read times out) and hands the bytes to `Runtime::feed`, or calls
`Runtime::tick` when nothing came.  Both return *actions* (send a frame,
publish, persist the night flag) that the loop then executes; their failures do
not come back to the core.

| Component | State | Operations | Correct when |
|---|---|---|---|
| **Core: command transaction** (`lib.rs`) | `pending`, `in_flight`, `last_ok`, availability and recovery counter, readiness per area | commands from outside; `on_frame` (SEND_NORM, SEND_NDAT, CONFIRM); `on_tick` | bounded repetition; gated arming; a verdict ends the transaction and is the command's own; nothing fired late or forgotten on the line; silence noticed |
| **Core: published state** (`lib.rs`) | arm state, readiness, inputs, bypass, night flag: a cache against which changes are published | status telegrams, sensor deadlines, outage and recovery | what is published is what the panel last said, or "unavailable" |
| **Runtime** (`telenot-app/src/runtime.rs`) | decoder, scan queues, probes, polarity window | `feed`, `tick`, `apply_intent`, `reload` | scans and commands share the line without taking each other's answers |
| **Loop** (`app_loop.rs`) | applied settings, capture mode, setup window, self-test | intents, reads, actions | a capture admits no command; a commit is stored before it is used |
| **MQTT sink** (`telenot-esp-bridge/src/mqtt.rs`, `telenot-app/src/mqtt.rs`) | connection, wipe/subscribe phase, paced republication, retry | publish, connect/disconnect events | retained topics converge; no retained command is executed |
| **Configuration store** (`telenot-config/src/chunked.rs`, `storage.rs`) | chunk sets A/B, meta blob, JSON blob, old partition | save, load, conversion, import | atomic over power failures; newest survives |
| **Deletion journal** (`telenot-app/src/deletions.rs`) | entities still to be removed at the broker | prepare, send, acknowledge, complete | a removed entity disappears, a live one never does |
| **Access** (`security.rs`, `command.rs`, `api/session.rs`, `storage.rs`) | session, failure counters and windows, password and PIN, remote-disarm switch, the core's gate | login, set PIN/password, settings, decide on commands | guesses at the login and with the PIN stay bounded over restarts; settings wait for an owner; a disarming command needs switch, PIN and mode |
| **Edit session** (`app.rs`, `api/*.rs`, `homekit.rs`) | session, panel, pending commit and its status, line of intents, HomeKit accessories | edit, commit, import, HomeKit step, reboot; save in the loop | a selection is never lost; status, reboot and HomeKit follow what was written |
| **Discovery scan, read probes** (`runtime.rs`, `discovery.rs`, `diagnostic_probe.rs`) | stage, queue of addresses, what was found, probe stage | start, cancel, capture; frames, polls, timers; seed | GMS plus leaves no detector of its table unasked and takes no name from an old answer; never both at once; what waits for a silent panel ends at its limit, where the code has one |
| **Firmware update, setup window** (`ota.rs`, `httpd.rs`, `app_loop.rs`) | slots, upload phase, self-test timer, window and its cap | upload, confirm, roll back, button, web extension | there is always an image to boot; the setup closes |
| **Codecs** (`telenot-protocol`, `telenot-config/src/table.rs`) | decoder buffer | feed, next_frame, records, table | resynchronises; round trips |
| Simulator, web UI, fuzz targets, flasher | – | – | tools and presentation |

What is hard to test here, listed line by line as `hazards` in `PROJECT.json`:
the interleavings of commands, panel telegrams and timers; confirmations that
carry no reference to what they confirm; commands, captures, scans and reloads
sharing one line; publications that get lost against a cache that believes them
sent; power failures and failing operations between two flash writes; bytes
that keep the loop from its timers; requests that change what a pass of the
loop has read; intents queued behind each other that settle one status; a panel
that answers late, twice or never; two flash keys that belong together.

## Modules

| Module | Models | Lines of code |
|---|---|---|
| `CommandTx` | the command transaction of the core | `lib.rs` 28–900, 1394–1529 |
| `CommandTxProofs` | theorems about `CommandTx` and `SerialLoop` | |
| `SerialLoop` (extends `CommandTx`) | the loop around it: sources of commands, captures, scans, failing writes, reload, and the line itself | `app_loop.rs`, `runtime.rs`, `app.rs` 402–530 |
| `RetainedState` | published state, sink and broker | `lib.rs` 751–810, 947–1333, both `mqtt.rs`, `app_loop.rs` |
| `RetainedStateProofs` | theorems about `RetainedState` | |
| `AtomicConfig` | what the configuration store promises (abstract) | |
| `ConfigStore` | the store, one flash operation per step; implements `AtomicConfig` | `chunked.rs`, `storage.rs` 323–522 |
| `ConfigStoreProofs` | theorems about `ConfigStore`, the refinement among them | |
| `HaDeletions` | the deletion journal, the commit it belongs to, the client's outbox and the event pump with their locks | `deletions.rs`, `mqtt.rs` 190–400, `app_loop.rs` 372–524 |
| `HaDeletionsProofs` | theorems about `HaDeletions` | |
| `Access` | secrets, lockouts, session, settings, the core's disarm gate and who gets a command past it | `storage.rs` 44–300, `api/session.rs`, `api/security.rs`, `command.rs`, `app_loop.rs` 205–243, 431–456, 572–595 |
| `AccessProofs` | theorems about `Access` | |
| `Scan` | inventory scan and read probes of the three panel kinds | `runtime.rs` 243–436, 600–792, `discovery.rs`, `diagnostic_probe.rs` |
| `ScanProofs` | theorems about `Scan` | |
| `Setup` | edit session, commit, import, HomeKit step, reboot, and the loop that saves | `app.rs` 600–910, `api/`, `homekit.rs`, `app_loop.rs` 458–524 |
| `SetupProofs` | theorems about `Setup` | |
| `Firmware` | upload, slots, self-test, rollback, button and setup window | `ota.rs` (both), `httpd.rs`, `app_loop.rs` 93–204 |
| `FirmwareProofs` | theorems about `Firmware` | |
| `MC…` | constants for TLC | |

`SerialLoop` composes the core with the loop and the line.  The other modules
meet at narrow places, and each takes the other's promise there: `Setup` and
`HaDeletions` take saving from `ConfigStore` (it succeeds, fails, or is cut,
with the old or the new configuration in flash); `Access` decides whether a
command reaches the core, and `CommandTx` what happens to it; `Scan` ends with
the seeding that `Setup` has as `Seed`; `SerialLoop` has a running scan as a
source of queries, and `Scan` the stages of it.

### CommandTx

A variable per field of `Core` that takes part in a transaction.  `pending` and
`inFlight` are records that add history to the code's fields: the identity of
the command, how long ago it was accepted (`born`) and how often it went out
(`sends`).  `sent` and `results` are what the last step put on the line and
published as `command_result`.

The code stores timestamps and only compares differences, so the model keeps
ages.  A unit of time passes in `Tick` (the read timed out, `on_tick` runs) or
in `Busy` (bytes arrived that completed no frame: `feed` runs, `on_tick` does
not).  `MaxBusy` bounds a run of busy units; without it nothing that depends on
a timer could be promised, and the README of a deployment should know that.

`OnCommand`/`OnSetTime` are the `on_command…` handlers with `queue` and, if
`eager_send` permits, the immediate `flush_pending`.  `OnSendNorm`,
`OnSendNdat`, `OnConfirm` and `OnOtherFrame` are the branches of `on_frame`;
each is the whole handler, with the 0x11 scan, `note_alive`, the collision
check, the status (which may change readiness) and `flush_pending` in the
code's order.  A frame arrives decoded: which error records and which blocks it
carries is chosen freely.  The 0x11 scan runs for every frame, before the
function is looked at; in a frame that is neither a SEND nor a confirmation it
is all that happens, and a rejection found there is published while the command
stays in flight (`lib.rs:374`, 453).  `VerdictIsFinal` names this exception: such
a command can still be repeated, or answered a second time.

### SerialLoop

Extends `CommandTx` with the panel's side of the line (`line`: telegrams still
to be answered, in order), a running scan and a capture.  Every source of
commands has its own action with its own guard, as in the code.  `wire` is what
reached the panel in the last step: after the filter of a listen-only capture,
and only if `write_frame` did not fail (`WrittenOf`).  `foreign` remembers that
something other than the current core's commands (a scan query, a command of
the core before a reload) is still unanswered.

### RetainedState

The core's cache of published values, the sink with its paced republication
(`cursor`, `pending`, four messages per pass), `retry`, the wipe/subscribe
phases, and the broker.  To keep the broker small, one topic chosen at the
start (`watched`) is followed; every other publication only matters through the
sink's counters.  `EndRead` hands over a step's publications and any of them may
be refused.  `Spontaneous` is the telegram of a single event; of what it
publishes only the retained fault report matters here.  `skipped` marks that the
republication's list shrank while its cursor was inside.

The list itself, `View`, is the stream of `republish_for_each` as a set of
messages with their places.  What has no value is left out of the stream, so the
place of a bypass or a sensor depends on what was seen before it (`ZonePlace`,
`SensorPlace`), and it moves while a batch is under way.

### ConfigStore and AtomicConfig

`stage` says which flash operation comes next, `job` holds the save under way.
Each operation ends `done`, `refused` or `unverified` (the flash has the value
but the caller got an error).  `Restart` may happen anywhere.  A configuration
is a model value with a number of chunks; a chunk is named by its
configuration, which stands for its CRC.

`AtomicConfig` has one stored configuration that changes only in `Commit`.  It
has one honest exception: a save that could not read the meta blob (`blind`)
starts in set A even if A is active, and may lose what is stored.

### HaDeletions

Three threads: the loop (`stage` says where it is, `decided` and `send` are
`send_deletion` before and after it takes the lock of `deletion_ack`), the MQTT
client with its outbox, and the event pump with the event it has in hand.  The
client's lock is external; from the comments in `mqtt.rs` (88–90, 205–211) it
is known to be held while the pump has an event, so everything the loop asks of
the client waits for `ClientFree`.  The configuration store appears through its
promise: it has the old or the new configuration, whatever it reports.

### Access

A request holds the mutex of `App` and is one step.  A pass of the loop is not:
`BeginPass` reads the switch and the presence of a PIN once and sets the core's
gate if the switch has changed, and the commands of the pass are decided
later, with requests in between.  A write to NVS may fail; `Persist` lets each
of the two keys of a lockout keep its old value, and `StorePassword` each of
the two keys of a password.  At a start a read may fail, too: a key of a lockout
that cannot be read counts as absent (`Read`), and a password that cannot be read
is overwritten with the initial one (`FirstInit`).  A rotation with a wrong
current password (`RotationRefused`) changes nothing, the counter of the login
included.  `wrong`, `chosen` and `touched` are history.  A guess that is not in
the record a start reads, because a write failed, was cut off or cannot be read,
is forgotten by `Restart` (`Held`): the code cannot know of it.

### Scan

The fields of `Runtime` that a scan uses, `DiagnosticProbe`, the selected and
the live panel, and the capture.  `asked` holds the questions the panel may
still answer, whichever scan put them, so late answers are part of the model.
`Poll` is `advance_scan` behind the probe, `Tick` what `Runtime::tick` does for
both, and `Block`, `Text`, `Alarm`, `NotOccupied` are the frames
`ingest_discover` and the probe see.  The panel reports any part of its addresses
in any block at any time (`Reports`).  Time is kept as ages that stop where the
code stops looking; it passes in `Tick` (a read returned nothing, `Runtime::tick`
looks at the limits) or in `Busy` (bytes arrived, nothing looks at them until a
frame is complete, and then only the probe does).  The queue of questions (`todo`) is filled once per scan in
address order and emptied from its head, so a set is enough: the next question
is its smallest address.

### Setup

Requests are one step, the loop takes their intents in the order they came and
handles one per step.  `flash` changes in `Saves`; `SaveFails` is a refusal by
the journal or the store; `PowerFails` may cut a save before or after it landed.
An id stands for the `Arc` of a commit, which is what `finish_commit` compares.
`Boot` is what `main.rs` builds from the loaded configuration.

### Firmware

A point in time is kept as the steps left until then, which lets the device run
for ever.  The HTTP task has one request at a time, and an upload is one that
lasts; stopping the server waits for it, and the loop with it (`http =
"stopping"`).  What esp-idf and the bootloader do is taken from how the code
uses them: an update begins by erasing the other slot and is refused while the
running one is unverified, which leaves the status failed, as does a length no
image has (`UploadBegins`); a boot slot that was started and never confirmed is
given up.

## Runs

| Run | Result | Question |
|---|---|---|
| `command_safety` | pass | `BoundedRepetition`, `InFlightStillArmable`, `VerdictIsFinal`, `SilenceIsNoticed`, `TransmittedNeverForgotten` |
| `command_live` | pass | `EventuallyAnswered` under weak fairness of `Tick`; `NeverSentLate` |
| `serial_loop` | pass | `CaptureAdmitsNothing`, `OkIsOwnAnswer` |
| `retained_state` | pass | `OnlineIsTrue`, `StateIsCurrent`, `ReadinessIsCurrent`, `SensorsAreCurrent`, `BypassNeverHidden` |
| `config_store` | pass | `KeepsPromise` (refinement of `AtomicConfig`), `ReportedSurvives` |
| `ha_deletions` | pass | `NothingForgotten`, `ShowsConfig`, `EventuallyGone` |
| `access` | pass | `GuessesBounded`, `OwnPasswordFirst`, `TakesOnlyAllowed` |
| `scan` | pass | `NoneSkipped`, `ProbesAlone`, `NamesWereAsked`, `ScanEnds` |
| `setup` | pass | `SelectionSurvives`, `SavedIsValid`, `SavedMeansWritten`, `RebootIsSafe`, `ApplyFollowsSave` |
| `firmware` | pass | `WindowIsBounded`, `AlwaysBoots`, `WindowCloses` |
| `pump_standoff` | violated | "the pump only signals": it never keeps the client from the loop |
| `setup_panel` | violated | the selected panel is "carried through seed/commit so a sensor commit can never reset it" |

The type invariant is checked where the module is not already covered by a
refinement or by the typed state of `CommandTx`: in `command_safety`,
`ha_deletions`, `access`, `scan`, `setup` and `firmware`.  The deadlock check is
off in the two runs of `HaDeletions` and of `Setup` and in `firmware`: those
systems are at rest once every request is carried out and the bounds are used
up; the standoff is found by name.

### Bounds

* Times are scaled so that the order of the limits is that of the code:
  acknowledgement (3 s) < queue age = serial deadline (9 s) with the eager guard
  (0.4 s) below all of them; the attempts (3) and recovery frames (2) are the
  real ones in the safety run.  `command_live` uses two attempts, because its
  cost is the product of all ages.  A unit is long enough that everything that
  can happen between two timer runs happens in zero or more steps in between.
* Four command identities, reused once free: one queued, one in flight, one
  confirmed but still rejectable, one arriving.  A fifth would have no slot to
  be in.  Identities are symmetric in the safety runs (no liveness there).
* One area and one representative of each class of commands: gated by intern
  readiness, by extern readiness, disarming, other.  The core treats areas alike
  and has one slot for all of them.
* `SerialLoop`: the line holds at most the few telegrams the bridge can have
  unanswered (the bound is in the model's guards); two identities.
* `RetainedState`: sensors, areas and bypasses are few, but more messages than
  the four of a pass; one reload and two lost connections.
* `ConfigStore`: configurations of one and two chunks in two sets, two failing
  operations and two restarts: one failure to get into a torn state, one while
  recovering from it.

* `HaDeletions`: three entities in four configurations and a journal of two
  entries, so that it can overflow; two commits (an entity can be removed and
  come back while its removal is on the way); one of each failure.  The outbox
  takes two messages; the other topics that share it are left out.
* `Access`: two wrong guesses and a window of two steps for each of the two
  locks, so that one can be in any state of counting, locked and restarted
  while the other is; nothing else is bounded, every history is explored.
* `Scan`: three inputs, one output that is a detection area, and a table of
  three that the four do not all fit into: GMS plus can take two addresses from
  separate blocks and runs over at the third.  A retry of one step, and a limit of
  two that a scan or a probe may meet in any of its stages, or outlive for as
  long as bytes keep coming; two requests, one over the other.
* `Setup`: two detectors with room for one accessory, two panels and three
  requests: a commit behind an import, and a reboot or a third edit behind
  both; power failures and results of scans count as requests here.
  `setup_panel` uses the same instance without scans, imports and restarts.
* `Firmware`: a window of two steps, a cap of four, a self-test of two, two
  presses and three restarts: an update that is started, rolled back and
  uploaded again.

### Fairness

`FairSpec` asks only for weak fairness of `Tick`: the loop never stops, and a
read without bytes runs `on_tick` at once.  No fairness is asked of the panel;
it may stay silent or collide for ever.  `Tick` stays enabled because `Busy` is
bounded by `MaxBusy`: that the line does not carry frameless bytes for ever is an
assumption on the panel, not something the code enforces.

`HaDeletions` assumes that the loop and the pump keep running, and of the
environment that a lost connection is made again (the client reconnects by
itself) and that the broker answers.  `EventuallyGone` needs that and nothing
of `PublishSetup`, `Expire` or `Commit`.

`Scan` asks only that time passes (`Tick` or `Busy`).  The rest are premises of
`ScanEnds` instead of assumptions on every behaviour: that reads return nothing
again and again, so that `Runtime::tick` runs (`app_loop.rs:634-651`), for the
occupancy phase of GMS plus and for the probes; and that the panel polls, for a
scan that asks for names.  The occupancy phase of a complex or GMS lite scan is
in neither part: with a silent panel it never ends, until a user cancels it.

`Firmware` asks for weak fairness of `Pass` (the loop runs; while it waits for
the server, time still passes) and that an upload ends some day: the connection
has a receive timeout, and the handler ends with it.

## What is proved

Eight modules of theorems.  None assumes more of the constants than the `ASSUME`
of its module, which TLC evaluates in every run, and the bounds on requests,
failures and restarts are constants too: a theorem holds for any value of them.
Each safety invariant and action property of the passing runs is the statement
of a theorem here; the property is seldom inductive, and what makes it so is
named below, because it says why the code is right.

### The transaction: `CommandTxProofs`

For any areas, commands, time limits and attempt limit that satisfy
`CommandAssumption` and `TimingAssumption`:

* `TypeCorrect`: `Spec => []TypeOK`.
* `RepetitionIsBounded`.  What is sent does not say how often it was sent before,
  so the invariant (`Counted`) relates history and code: a command's `sends`
  equals its `attempts`, a queued one has attempts left and one in flight does
  not exceed the limit.  A collision hands the counter back to the queue; the
  proof fails if the counter is reset there.
* `RepeatedUnderReadiness`: if the panel is not a hiplex plus, an arming
  command is in flight only while the last reported readiness permits it
  (`Gated`).  The gate is read once, repetitions are not gated; it holds because
  every telegram that can withdraw readiness takes the command off the line
  first (collision), and so does the outage that clears it.
* `NoLateTransmission`: no transmission, first or repeated, comes later than
  `MaxCommandAge` after the command was accepted, as long as reads hold up
  `on_tick` for at most `MaxBusy`.  `OnTime` bounds the total age by the stays
  already spent: each attempt costs at most one stay in the queue and one on the
  line, and each stay is longer than its limit by at most the busy time since the
  last timer.
* `AnswersAreFinal`.  A verdict ends the transaction because the command in the
  queue, the one on the line and the one whose OK a rejection may still withdraw
  (`lastOk`) are three different commands (`Distinct`, `Settled`).  A rejection
  in a frame of another function is the exception the statement names.
* `NeverDroppedSilently` is the action property about a command on the line:
  each handler keeps it, queues it again or answers it.  Of a queued command
  this is not true, see below.
* `SilenceNoticed`: right after an `on_tick` the bridge is not online with a
  line silent beyond the deadline.

The argument is the same each time: `TypeOK` first, then the strengthening, with
one lemma per handler that says what it may do to the two slots (`SlotStep`), so
that the invariants are shown against `SlotStep`, `Tick` and `Busy` only.

And for the loop around the core (`LoopSpec`):

* `LoopKeepsPromises`: bounded repetition, no late transmission and
  `VerdictIsFinal` survive captures that hide frames, scans, failing writes and reloads
  (`CoreInv`).  `SilenceIsNoticed` is not among them: `ReloadConfig` makes a new
  core that is online by default, and says so until its own deadline has passed.
* `CaptureIsClosed`: a frame or the passing of time brings no new command into
  the transaction (`NothingNew`), and each path from outside has its own check.
* `OkForOwnCommand`: confirmations carry no reference, and the order of answers
  is enough to match them only while at most one is outstanding.  `OwnLine` says
  so: as long as nothing foreign used the line, the only telegram on it is that
  of the command in flight.

### Published state: `RetainedStateProofs`

For any sensors, detection areas, topics, any budget of a pass and any number of
refused publications: `OnlineNeverStale`, `ArmStateNeverStale`,
`ReadinessNeverStale`, `SensorsNeverStale` and `BypassNeverLost`.  All speak of a
sink that has nothing left to do; the invariant has to say what it has left to
do meanwhile.  A message of the view is *owed* (`Owed`) if a whole view is due
(retry, reconnect) or the batch has not reached the message's place; and the
broker has the current value or is owed it (`ViewOwed`).  The places move: they
only grow when something is reported for the first time, so a batch meets what
it owed; an outage shrinks the view under a running batch, and there the sensors
may be skipped, which is what `skipped` in `SensorsAreCurrent` excuses.  An arm
state and a readiness stand before everything that moves and need no excuse, and
neither does a bypass, because an outage forgets it and shows it again only when
the panel does.  For "online" the batch must not have begun (`LinkOwed`).

### Configuration store: `ConfigStoreProofs`

For any configurations and numbers of chunks, any number of failing flash
operations and power failures:

* `ImplementsPromise`: `ConfigStore` implements `AtomicConfig`; every step is a
  step of it or a stutter.  What is stored is what a load would find
  (`Loadable`), and the write of the meta blob is the commit.  `StoreInv` says
  that a save that could read the meta blob works on the set that is not active
  (`Apart`), and that the chunks it counts as written are there (`Written`), so
  that the meta blob may follow.
* `RestartsWithReported`.  What was reported may be found in three places, and a
  load tries them in turn.  `Sound` says that the first one that exists holds a
  configuration that was reported or whose save began since (`Known`); `Going`
  and `Finishing` say the same of the save or the conversion under way.  Both
  hold until a failing read excuses the store.

### Deletions: `HaDeletionsProofs`

For any entities and configurations, any size of the journal and the outbox, and
a finite set of message numbers larger than the outbox (so that a number out of
use exists; MQTT numbers have 16 bits):

* `NeverForgotten`: the first entry leaves the journal only when its clear was
  acknowledged, and the argument follows that clear.  `AckMeansGone` says that the
  message the loop waits for is the clear of the first entry, that no document of
  that entity is behind it in the outbox, and that once its acknowledgement is in
  the pump's hand or recorded, neither the broker nor the outbox has the document.
  `SaveCovered` says that while a configuration is being written, what it removes
  is in flash already; the other parts of `Removal` relate the journal in memory
  to the one in flash, and the configuration to the stored one.
* `DeletionTypes`: needs `Removal` too, because the clear is built from the
  head of a journal that must not be empty.  That the journal holds no entity
  twice and at most `LIMIT` is part of it, and so is the copy in flash
  (`FlashFits`), which a restart reads back.
* `ShowsWhatIsConfigured`: that nothing too much is shown in the end follows from
  `NeverForgotten`.  That nothing is missing needs that every clear on its way is
  the one the journal waits for (`Clears`), so that none is left that could wipe
  an entity configured again, and that the documents published since the batch
  began have arrived or are on their way (`Announced`).

### Access: `AccessProofs`

For every limit of guesses and every length of a window:

* `GuessBound` and `TypeCorrect` rest on one invariant, `LocksInv`.  The bound
  alone is not inductive: it says nothing of the counter in RAM.  `Counted`
  adds that while a lock is open its counter has seen every wrong guess, so the
  limit cannot be passed without the window being opened, and that a window
  that is left was recorded as one.  A restart keeps it for the guesses its
  record holds; the others are gone (`Held`), and a cut between the two keys of
  the last guess before the limit loses them all.
* `GatedUntilOwned`: the mark that the password was changed means that an owner
  has stored one (`OwnerFirst`), because the hash is written first and the first
  error ends it.
* `TakesOnlyWhatIsAllowed`: while a pass runs, the gate of the core is open only
  if the switch was on when it began and the device has a PIN (`GateFits`); the
  rest is decided in the step itself.

### Firmware: `FirmwareProofs`

For all durations with `Window <= FirstSetup`:

* `TypeCorrect` and `WindowBounded`, which is inductive with the types.
* `StartsAlways`: `AlwaysBoots` speaks of the next choice of the bootloader,
  which depends on what an upload, a self-test and two restarts left behind.
  `SlotsInv` says that what runs is whole, that only the running slot is ever on
  trial and then the other can be gone back to, that no upload is under way
  during a trial, and that an upload that is ready is the boot slot.

### Setup: `SetupProofs`

For any detectors and panels and any number of requests: five theorems from one
invariant, `SetupInv`.  None of the properties mentions the order of the
intents, and all depend on it, so the invariant does (`Line`): at most one commit
is queued and it is the pending one (`OnePending`); without a session, whatever
is queued to be saved is followed by that commit (`Covered`); a HomeKit step
stands right behind its commit, or that commit has been handled (`Behind`); every
configuration in the line is valid (`SoundLine`).  One lemma per way the line
changes (a quiet intent, an import, a commit, a HomeKit step appended; a quiet
intent, an import, a commit handled) shows it for sequences of any length, and
one lemma per action uses those.  `RebootAllowed` then follows because without
session and pending commit `Covered` leaves nothing to be saved.

`TypeCorrect` adds the bound on the accessories of HomeKit (`AddedFits`): those
it has and the first detectors in table order, as many as there is room for.

### Scan: `ScanProofs`

For any addresses, size of the table and length of the windows:

* `ProbesRunAlone` is inductive with the fields of the records (`Alone`).
* `NamesAreAnswers` needs the question that is out: `NamesAsked` adds that the
  address a text is attributed to was asked for by the running scan.
* `TableNeverOverflows` says that every way an address enters the table checks
  for room first, however many detectors one report carries; `TypeCorrect` is
  the rest of the types.
* `NothingSkipped`: GMS plus closes its table before the first question and takes
  no block afterwards, so what the table held then is asked about or in line, and
  the line is cleared only with the inventory of a scan that is over (`Finished`).

### Model-checked only

The liveness properties (`EventuallyAnswered`, `EventuallyGone`, `ScanEnds`,
`WindowCloses`): fairness and ENABLED are outside the prover's reach.  The two
disagreements with the documents are counterexamples of TLC.

## Where the code and its documents disagree

Two have a run and a `finding` in `PROJECT.json`:

1. `send_deletion` calls the MQTT client while it holds the mutex of
   `deletion_ack`, and the event pump takes that mutex while the client waits
   for it (`telenot-esp-bridge/src/mqtt.rs:369`, 247, 253).  If any message is
   acknowledged in that moment, loop and pump stop for good.  This rests on the
   client's lock being held while an event is delivered, which is what the
   comments there say.
2. After a restart `SetupState.panel` is the default, not the panel of the
   configuration that was loaded (`telenot-esp-bridge/src/main.rs:145`).  A
   commit of detectors alone then saves the default panel, although the field is
   "carried through seed/commit so a sensor commit can never reset it"
   (`telenot-app/src/app.rs:630`).

The others are visible in the models' actions and have no run of their own:

* A collided command is queued again over a newer one (`lib.rs:851`): the older
  wins, the newer vanishes without a result (against `lib.rs:705`).
* A listen-only capture filters the frames of `feed` but not those of `tick`
  (`app_loop.rs:649`, against `app.rs:441`): a command in flight is repeated.
* A retained fault report is published once and is not part of the view, so one
  that is lost on its way to the broker is never repeated: "must NOT be silently
  discarded" (`lib.rs:1359`) holds against the panel only (`Spontaneous`).
* A confirmation is counted for the command in flight, even if it answers a
  scan query (`lib.rs:880`, against `docs/MQTT-CONTRACT.md:92`).
* A bypass released during an outage stays published as ON (`lib.rs:1207`,
  against `lib.rs:780`).
* A dropped JSON blob is imported again from the default partition
  (`storage.rs:420`, against `storage.rs:369`).
* HomeKit's disarming is described as independent of the remote switch
  (`app.rs:199`), but passes the same gate of the core (`lib.rs:475`).
* A rotation of the password verifies the current one without the lock of the
  login and without counting a wrong one (`api/session.rs:66-72`), although
  `security.rs:27-30` has the callers of `verify_login` keep the lockout.  It
  takes a session, but no password, to get there (`RotationRefused`).
* The night flag is persisted but never restored (`restore_night_flag` has no
  caller in the firmware, against `docs/MQTT-CONTRACT.md:82`), and it is set
  before the panel has confirmed the command.

Seen while modelling, and allowed by the models because the code says nothing
else:

* Core: a rejection in a frame that is neither a SEND nor a confirmation is
  published, and the command stays in flight: it may be repeated and get a second
  verdict (`lib.rs:374-421`, 453).
* Access: an expired lockout starts again in full at every start; a torn
  lockout write forgets guesses, all of them if the power fails between the two
  keys of the guess that reaches the limit (`storage.rs:139`); a failing read of
  the password at a start overwrites it with the initial one, and if the second
  write fails then, no change of it is demanded (`storage.rs:184`, 310-316); the
  core's gate does not
  follow a PIN that is set later (`app_loop.rs:231`).
* Scan: a block that comes when a complex or GMS lite scan has queued its
  questions is taken into the table, and its addresses are not asked about
  (`runtime.rs:614-623`, 697-702); the occupancy phase of those scans has no limit
  (`runtime.rs:285-289`); a cancelled scan that had already finished seeds an empty inventory
  (`runtime.rs:394`); a second stop of a capture cancels a later scan; the
  capture's choice between scan and probes reads a panel that is the default
  after a restart.
* Setup: the outcome of an import is never reported; a failed commit blocks the
  reboot until another is saved; a panel selected without a session is lost by a
  granted reboot; HomeKit is reconciled with the draft of an open session.
* Firmware: if `mark_valid` fails, the self-test is over all the same, later
  uploads are refused and a later restart rolls back; the loop stands still as
  long as the server it stops waits for an upload (`app_loop.rs:189`).
* Store and journal: orphaned chunks stay after a power failure while a set is
  cleared (`chunked.rs:158`; they are never read); a failing read of the chunks
  falls back to the older JSON blob for good (`storage.rs:450`, on purpose); a
  save that reports an error although it landed makes the journal drop a removed
  entity (`app_loop.rs:470`, excused by `unsure`); a reload discards commands
  without a result (`runtime.rs:340`).

## Not modelled, and why

* Frame and record codec, table codec, configuration types, address arithmetic
  of the profiles: pure functions on bytes and tables with unit tests and fuzz
  targets; the models take decoded frames and configurations as values.
* Polarity window and suggestions for duplicate names: no state survives them.
* Live snapshot, DTOs, diagnostics, inventory chunks: they only report.
* Network and UART drivers, HTTP transport: pure I/O; a read returns bytes,
  nothing or an error, a write may fail.
* The accessory server of HomeKit: an external C library; its commands, its
  start and its reconciliation are modelled.
* Simulator, web interface, flasher, fuzz targets: no part of the device.

* The order in which the broker handles the last will of an old connection and
  what the new connection publishes: a will that is late would say "offline" until
  the next change of availability.

NVS, the broker, the bootloader and the panel are external and modelled from how
the code uses them.

## What could come next

A composition of `CommandTx` and `RetainedState` for the night flag; the
decoder's resynchronisation as operators over bounded inputs; an abstract
specification of the transaction (a register of at most one command that is
answered once) with `CommandTx` as its refinement.
