# Verification of bacnet-republisher

TLA+ models of the BACnet-to-MQTT republisher in this repository, the TLC runs
that check them on small instances, and TLAPS proofs of the results that hold
for every configuration.

## 1. The system

| Component | State it keeps | Operations | Talks to |
|---|---|---|---|
| **Continuous republisher** (`src/worker.rs`, `spawn_republisher`) | `unresolved_devices`, `device_backoffs`, `last_polled`, the two refresh timers, its own `point_statuses` | start up, refresh of the device table (initial, keepalive, re-resolution), selection of due points, a poll cycle, shut down | BACnet devices, MQTT publisher, console (events out, stop flag in) |
| **Poll cycle and device table** (`src/bacnet.rs`) | none between calls | `poll_points_once_with_client`: one group per device, ReadPropertyMultiple, then single reads; `refresh_device_table`: Who-Is, then targeted passes | BACnet client (external crate) |
| **One-shot jobs** (`src/worker.rs`) | none between calls | discovery, object scan, scan-all with bulk import, poll-once | console (events) |
| **Console** (`src/app.rs`) | `republisher_state`, `republisher_stop`, `working`, `scan_progress`, device list, point list, statuses, last sample batch | clicks; every 250 ms a drain of the event channel | spawns threads; reads one FIFO channel |
| **Point list and configuration** (`src/app.rs`, `src/config.rs`, `src/import.rs`) | points, settings, the file on disk | edit, delete, clear all, import, save, load | console |
| **MQTT publisher** (`src/mqtt.rs`) | bounded outbound channel (4096), connection state, reconnect backoff | enqueue, health, event loop task, drop | broker |
| **Topics, values, log, network interfaces, UI** | little or none | conversions and rendering | |
| **Transports** (`vendor/bacnet-transport`) | BBMD tables, pending BVLC request, MS/TP token state, SC connections | BACnet/IP, BBMD, MS/TP, SC, IPv6, Ethernet | sockets and serial ports |

Every worker is an OS thread with its own tokio runtime. All threads share one
crossbeam channel to the console; its events carry no thread id. The only state
shared the other way is the republisher's stop flag.

### What is hard

* The republisher's knowledge of a device is spread over four structures
  (unresolved set, backoffs, last poll times, point statuses) that different
  branches of one loop update around awaits of unknown length.
* The stop flag is raised at any time and seen only at a few places.
* A read may answer, fail or stay silent; a ReadPropertyMultiple may be answered
  in part, and the fallback may be cut short by a stop.
* The console infers who is alive from events that may be old when applied.
* A panic or a failure to build the runtime must still be told to the console,
  by code outside the future that failed.
* Health is a retained message: it outlives the state it describes.
* A device table fills and empties behind the back of the job that asks for it:
  an I-Am may come in any window, after it, or from a device nobody asked.
* A sweep over devices leaves its loop body in four ways, each with counters of its own.
* The settings exist three times, as a form, in force and on disk, and each save of
  any part writes all of it.

### What makes each part correct

* *Republisher*: a device that cannot be reached is visible (stale points,
  health not "ok"), one that can is read again and again, nothing is skipped
  silently, and a stop is honoured in whatever await the worker is.
* *Thread contract*: each change of a thread's life is announced once, in order.
* *Console*: at most one republisher, always the one whose stop flag is held;
  every transient display (Starting, Stopping, busy) ends; what the console says
  when it refuses a click is true.
* *Point list*: an import never undoes an edit; a save survives a crash.
* *Publisher*: messages are sent in order, a full channel is reported.
* *Statuses*: what the console shows of a point is what the worker knows of it, and a
  publish error is shown at the samples it is about.
* *One-shot jobs*: who is called unresolved was given every promised chance; each device
  and each point is accounted for once; every job ends.
* *Settings*: a refused save changes nothing, a restart brings back what was in force, no
  secret is written that is not to be remembered.
* *Names and values*: what is one identity is read as one object; default topics tell
  apart what is read apart, the devices behind one label excepted; no topic has a
  wildcard; an integer is shown as the `f64` next to it, so exactly up to 2^53, or refused.

PROJECT.json lists the hazards of the code one by one, at the line where each
bites, with the properties that cover it.

## 2. Modules

| Module | What it is |
|---|---|
| `WorkerEvents` | the events of the channel, and the life of a republisher thread as the set of its moves with the events each sends |
| `WorkerContract` | abstract specification of a republisher thread: phase, stop flag, control events |
| `Republisher` | the detailed worker: `spawn_republisher`, its helpers, and the poll cycle of `bacnet.rs` |
| `RepublisherContract` | the refinement mapping from `Republisher` to `WorkerContract` |
| `RepublisherProofs` | type correctness, the inductive invariant and four consequences; `Republisher` implements `WorkerContract` |
| `Console` | the console with its channel, republisher threads that live by the moves of `WorkerEvents`, and one-shot jobs |
| `ImportMerge` | `merge_imported_points` as a pure operator |
| `PointStore` | the configured points, the editor, clear-all, scans under way and the configuration file; it uses `ImportMerge` |
| `PointStoreProofs` | the list and its file, the numbers a clear-all announced, the editor's index, and what an import keeps |
| `Publisher` | the MQTT publisher: outbound channel, event loop task, state of the connection, drop |
| `PublisherProofs` | type correctness and the three safety invariants of `Publisher` |
| `StatusBoard` | the console's statuses, last batch of samples and chips, against the reports of a republisher and poll-once threads |
| `StatusBoardProofs` | type correctness and the three invariants of `StatusBoard` |
| `Discovery` | `discover_devices`, over interfaces and passes, with its two policies |
| `DeviceJobs` | `refresh_device_table` pass by pass, and the three jobs built on it: object scan, sweep, poll of all points |
| `OneShotJobs` | the two together: a behaviour is that of one job or of one discovery |
| `DeviceJobsProofs` | type correctness, `RefreshSound` and `JobsAccount`, and of discoveries `DiscoveryHonest` |
| `Settings` | form, configuration in force and file: validation, migration, secrets, saves, restarts |
| `SettingsProofs` | type correctness and the three properties of `Settings` |
| `ConsoleProofs` | the inductive invariant of `Console` and its consequences |
| `Names` | topics, identities of points and names of object types as pure operators over characters |
| `Scalars` | `decode_scalar_value` as pure operators over bytes |
| `Algorithms` | the pure operators (`ImportMerge`, `Names`, `Scalars`) computed once for each of a set of inputs, and what their results must be |
| `AlgorithmProofs` | what the merge of an import computes, what is a payload, which topics and identities texts become, for inputs of any length |
| `MC*` | instances for TLC |

`WorkerEvents` is the joint between the two halves: the console is checked
against threads that do exactly the moves of `OrdinaryMoves` and `CrashMoves`,
and the detailed worker is checked, and proved, to do only those.

### Republisher

`pc` is the place of the worker in its loop; each await is a place, and what the
code does between two awaits is one action.

| `pc` | Code (`src/worker.rs`) | Actions that leave it |
|---|---|---|
| `spawned` | before `run_async` starts the future | `Setup`, `RuntimeFails`, `PublisherFails` |
| `connect` | `build_client` | `ClientBuilt`, `ClientFails` |
| `initialRefresh` | first `refresh_device_table` | `InitialRefresh` |
| `loop` | the `while` condition and the refresh branches | `BeginKeepalive`, `BeginReresolve`, `NoRefreshNeeded`, `LeaveLoop` |
| `keepalive`, `reresolve` | the later refreshes | `RefreshAnswered`, `RefreshErrs` |
| `select` | the due filter | `NothingDue`, `PollStart` |
| `poll` | `poll_points_once_with_client` | per device `GroupStart`, `GroupCancelled`, `RpmOk`, `RpmFails`, `ReadOk`, `ReadFails`, `ReadsCancelled`; then `PollFinish` |
| `sleep` | the 500 ms sleep | `Tick` |
| `stopping` | `client.stop()` with its timeout | `ClientStopped` |

`Panic` leaves any place of the future for `failed`; `RequestStop` is the
operator. `unresolved`, `backoff`, `status` are the code's maps of the same
purpose. An `Instant` is kept as the time left until it matters: `keepaliveIn`
for `last_full_refresh`, `resolveIn` for `last_resolve_attempt`, `dueIn[p]` for
`last_polled`, `remaining` for `DeviceBackoff::until`. `elapsed` counts from
the code's `now`, which is taken before the cycle, so that what the code computes
from `now` after the cycle comes out right. `status` keeps of a `PointStatus`
only `stale`, and whether the entry exists. `health` is the retained message on
the broker: it may be left over from an earlier session, and it changes only if
the message fits into the outbound channel.

Abstracted: values, texts and topics; the passes inside one refresh (its
result may be any subset of what was asked for); the order of single reads in a
group (any order); the ReadPropertyMultiple answer (all of it, or the fallback).
Two requests of one identity are never both matched by an answer
(`read_device_group_rpm` finds the first), so for them only the fallback exists.

### Console

`ui` is what the console believes; `inbox` is the list `drain_worker_events` has
collected and is applying; no click is handled before it is empty, because the
UI thread handles one message at a time. `chan` is the channel, `run` and `job`
the threads, `sending` the events a thread is about to send one by one, so that
a drain may fall between two of them. A republisher thread is *alive* until the
move that ends its loop; the two events it still sends and the drop of its
publisher come after that.

Left out: the lists some events carry, and the clicks that change nothing here.
The configuration is taken to be valid with an enabled point (otherwise two of
the clicks only set the status line).

### Point list

The console thread handles one message at a time, so each click, each drained
event and each restart of `PointStore` is one action, its save of the
configuration included. `job[j].given` is the copy of the points a scan-all is
given when it starts. `disk` is the file: `save_to_path` opens, truncates and
writes it in place, so a failed save leaves the old contents or a file that does
not parse. It never leaves a shorter list, because the section `ui`, which has no
default, comes after the points. `load_or_default` turns anything unusable into
defaults without points. Any start may also get the defaults because it cannot read the
file, intact as that is, or because `config_path` finds no directory for it (`located`
is false): then the saves go to `config.toml` in the working directory, which no start
reads. That other file is left out; it is written like the first one.

Some state is history, kept to state the properties: `opened` (the point the
editor was opened on), the numbers in `armed` (those the first press of clear-all
announced), and in both whether a drain replaced a list since; `saved` says
that the start loaded the file and that the last save since, if any, was to it and
succeeded, which the code only puts into the status line.

A point has an identity, a tag path, a label and its enabled flag: what the merge
and the list tell apart. Settings are represented by the fact that saving them
saves the whole configuration, points included; the form is in `Settings` (a
refused save is `OtherClick` here).

### Publisher

| Side | Code | Actions |
|---|---|---|
| worker | `emit_poll_outcome` and what it calls in `src/mqtt.rs` | `BeginCycle`, `EnqueueSample` for each sample, `ReadConnection`, `EnqueueHealth`, `Report` |
| worker | `Drop` | `DropPublisher` |
| task | the loop over `EventLoop::poll` | `ConnAck`, `ConnAckRecorded`, `ConnectFails`, `ConnectionLost`, `ErrorRecorded`, `Retry`, `Abort` |
| library (external) | rumqttc | `Transmit`, `Deliver`, `Acknowledge` |

The two sides share three fields without a common lock. `record_connack` and
`record_error` write them one by one; the worker can read between two writes, so
each is two actions. Of `last_error` only whether it is set is kept. `stats` and
`report` hold the set of messages that `published` counts, so that a count can be
compared with what became of the messages. `OneShot` selects the publisher of a
poll-once, which is dropped after its first batch.

rumqttc is modelled as the code relies on it: FIFO, at least once (QoS 1), kept
messages sent again after a reconnect. `Abort` comes at any time after the drop,
because a task is aborted at its next await.

### Point statuses

`StatusBoard` takes the thread lives from `Console` as given (one republisher, any
number of poll-once threads) and looks at what their reports do. `sending[t]` is the
report a thread is sending, event by event; `chan` the channel; `rep.own` the
republisher's own statuses, from which health is made. `Apply` handles one event at a
time, because a drain may have collected only part of a report. `PublishOf` carries, as
history, the points it is about, so that `PublishAttributed` can compare them with the
batch they are applied to.

Two facts of the code shape the properties. The worker records samples before failures,
the console applies failures before samples: two points of one identity, one read and one
failed, end differently in the two copies, and `BoardMatchesWorker` excepts them
(`Shared`). And a missing device is reported when it goes missing only
(`emit_refresh_state_change`): after a clear-all its points have no status until the
device is back (`wiped`). `overlap` records that two threads that read points were alive
at once, which the code allows; then nothing attributes a publish status.

### One-shot jobs

| `pc` of `DeviceJobs` | Code | Actions that leave it |
|---|---|---|
| `connect` | `build_client` | `Connected`, `ConnectFails` |
| `broadcast`, `targeted` | the two kinds of Who-Is in `refresh_device_table` | `Broadcast`, `RangeSent`, `RefreshFails` |
| `look` | the end of a window: what is missing | `Look` |
| `refreshed` | back in the job | `ObjectScanGoesOn`, `SweepStarts`, `FocusedRefreshEnds`, `PollOnceGoesOn` |
| `next` | the loop of `spawn_scan_all_objects` | `NextDevice`, `SweepEnds` |
| `count`, `items` | `scan_device_objects_with_client` | `CountRead`, `CountFails`, `Item`, `ItemsEnd` |
| `poll` | `poll_points_once` after its refresh | `Polled` |

`IAm` and `Forget` are the client library, which handles I-Am on its own task and may
drop entries. `asked[d]` counts the requests of a refresh that device `d` had to answer
(every broadcast, and the ranges it falls into), `seen` who was in the table meanwhile:
both are history. Chunks are those of the sorted list, by `Rank`. Labels and
properties of objects are left out: none of them has to be readable. A list longer
than `SCAN_ALL_MAX_OBJECTS_PER_DEVICE` is cut without a word, which is what `CountRead`
does.

`Discovery` goes over the interfaces in any order. `heard` is history: who was heard in
a window that followed a broadcast. An I-Am that arrives outside of the windows is in the
client's table, but reported only if a later window of the same interface is collected.
A pass that fails under Skip has no window of its own, and if it is the last one, late
answers are lost with the client.

### Settings

`config` is in force, `form` is `SettingsDraft`, `disk` the file. The two fields that
code treats specially (the port, which `migrate` changes, and the secret with its
flag) are kept; all others are `fields`, which may be right, wrong (parsed but refused by
`validate`) or garbled. Starts and saves are those of `PointStore`, with `located` and
`saved`. `SaveSettings` is one action: it applies the form to a copy and
takes it over only if it is valid. Points count only in so far as `validate` looks at
them, because points are saved without validation.

### Names and values

`Names` works on sequences of characters, of which it tells apart letters, digits, the
separators of topics, the wildcards and blanks. The number of a type or of an object is its
digits; `parse::<u32>` lets a "+" and zeros lead and refuses what does not fit (`Width`).
Topics are those of whole points, with the prefix, the tag path and the default one.

`Scalars` has the sizes of bytes, words and object identifiers as parameters, and those of a
DOUBLE: `value as f64` goes to the nearest multiple of the `Unit` of a number of that size,
between two that are as near to the even one, and up to the `Mantissa` the unit is 1. The bits
of a REAL or DOUBLE that is received are taken as they are.

## 3. Runs

Points, devices and threads are model values.

| Run | Instance | Shows |
|---|---|---|
| `worker_safety` | 6 points on 2 devices: two of one identity, one unreadable, one disabled; two read slots | `TypeOK`, `UnresolvedStale`, `BackoffShows`, `NeverPassedOver`, `HealthOkHonest` |
| `worker_live` | 2 points on 2 devices, one of which answers; one read slot | `StopHonoured`, `HeldBackRetried`, `ResponsiveSampled`, and the refinement `ImplementsContract`, `ImplementsFairContract` |
| `console_safety` | 2 republisher threads, 1 job | `TypeOK`, `OneRepublisher`, `StoppableWhileAlive`, `StoppingStays` |
| `console_live` | 1 republisher thread, 1 job | `EverythingSettles` |
| `points_safety` | up to 2 points when a list grows or a scan starts, 1 scan at a time | `TypeOK`, `SelectedIsOpened`, `ArmedIsCurrent`, `RestartKeepsPoints`, `ImportKeepsPoints` |
| `settings` | any file of version 2 or 3, or none, or one that does not parse; beside it, the pure operators for all small inputs | `ShownIsInForce`, `SecretsOnlyIfRemembered`, `RestartKeepsSettings`; `MergeCorrect`, `NamesSound`, `ScalarsDecoded` |
| `publisher` | channel of 2, backoff 1 to 3, 4 messages, 2 sessions | `TypeOK`, `ReconnectsExact`, `ConnectedIsClean`, `PublishedNotLost`, `PublishedArrives` |
| `statuses` | 2 points of their own devices, a republisher and a poll-once | `TypeOK`, `NothingFromNowhere`, `PublishAttributed`, `BoardMatchesWorker` |
| `jobs` | 3 devices in chunks of 2, 3 points, 2 targeted passes; 2 interfaces and 2 passes of discovery | `BothTypeOK`, `RefreshSound`, `JobsAccount`, `DiscoveryHonest`, `AllEnd` |
| `health_unresolved`, `points_import`, `pollonce_delivers` | smallest that shows it | disagreements between what the repository says and what it does, see section 6 |

Two runs check two modules that share nothing at once, to keep the set of runs small: a
behaviour of `jobs` is one of `DeviceJobs` or one of `Discovery` (`OneShotJobs`), and one of
`settings` is one of `Settings` or the computation of a single result (`Algorithms`).
`HeldBackRetried` is the conjunction of `UnresolvedRetried` and `BackoffEnds`,
`EverythingSettles` that of `StartSettles`, `StopSettles` and `BusyEnds`.

**Bounds of the worker.** `KEEPALIVE = 3`, `RERESOLVE = 2`, intervals 1 and 2,
backoff from 1 to 2 or 3: the code's order (sleep < interval, backoff <
re-resolution < keepalive) with every comparison able to go either way; a cycle
may last longer than any of them. `Horizon` saturates the length of a cycle at the
longest duration it is compared with, which is exact. Two devices are enough for
one to block, outlive or hide the other; one of them always needs the fallback to
single reads, the other may fail in part.

**Bounds of the console.** An ended thread may be spawned again, so two
republisher threads stand for any number in sequence, and two may overlap while
the events of the first are under way. `Backlog` bounds only how many events may
wait when the operator clicks. Republisher threads are interchangeable, as are
jobs, hence the symmetry of the safety run; the liveness run does without it.

**Bounds of the point list.** `MaxPoints = 2` limits what is added by hand and the
lists a scan starts from; imports may make lists longer, and then the other
actions go on with those. In this run all tag paths and labels are equal: what the
merge does to texts, to several points of one identity and to blank ones is
checked separately, by `MergeCorrect`, for all lists of up to 2 configured and 3 found
points, against a definition that says for each position what must be there.

**Bounds of the settings and the pure operators.** `Settings` is checked without a
bound but for two choices of interface and theme. `NamesSound` takes all texts of up to 3
of 9 characters, compared with all other such texts, numbers of two digits, and type names
chosen so that one is the start of another and most types have none. Each readable text is
the type of points with three labels (none, "a", and one of which nothing is left), two object
numbers and two properties, whose default topics are compared below five prefixes; tag paths
of which nothing is left, and so empty topics, occur too. `ScalarsDecoded` takes bytes of base 8
around the sign bit, words of 5 bytes and values of up to 6, so that each way of writing
a length, truncation at each place, and values that do not fit into the word occur. A mantissa
of 512 with units up to 64 holds the numbers of three bytes and rounds longer ones, ties included.
A computed result is the end of a behaviour, hence `CHECK_DEADLOCK FALSE`.

**Bounds of the statuses.** Events of at most two threads can meet at the board.
`Backlog = 1` keeps a thread from beginning a report while an event waits; since a report is
up to three events, two reports still interleave in every order. A capacity of 1 for
recent samples is exceeded by any report of two. Points are interchangeable, hence the
symmetry. Identities that two points share are excepted from `BoardMatchesWorker`, so all
points have their own here; the proofs cover any map.

**Bounds of the jobs.** Three devices in chunks of two make a full chunk, a partial one
and, when the middle one is known, a chunk whose range spans a device that is not asked for. Object
lists of up to 2 items with a limit of 1 are cut off. Two of the points share a device.
An ended job does nothing more, hence `CHECK_DEADLOCK FALSE`.

**Bounds of the publisher.** A channel of 2 is full after one cycle of two samples
whose health message is then refused; with two sessions a message can be
transmitted, lose its acknowledgement and be transmitted again. The last session
holds: an outage that never ends is no reason for a message to arrive. A dropped
publisher does nothing more, hence `CHECK_DEADLOCK FALSE`.

**Fairness of the worker.** `WF(Worker)`: every await of the worker ends, because
BACnet requests and Who-Is windows time out, the sleep is bounded, and
`client.stop()` is cut off after 5 s. `WF(Tick)`: time passes. Neither promises
that a device answers, that the operator clicks, or that anything panics.
`ResponsiveSampled` itself assumes `SF(RefreshAnswered)`: a device can come back
only through a refresh that was sent, so the local socket must not refuse every
Who-Is for ever. A device is `Responsive` if it answers what reaches the network,
the first Who-Is perhaps excepted. That one device of `worker_live` is responsive
takes nothing away from the other properties: the second one promises nothing.

**Fairness of the console.** Threads go on and the drain timer fires; clicks and
crashes have no fairness.

**Fairness of the jobs.** `WF(Job)` and `WF(Step)`: every await ends, as for the worker.
Devices, the library's table and panics have no fairness: `AllEnd` holds if no device
ever answers, and if I-Ams keep coming.

**Fairness of the publisher.** The worker goes on with a cycle it began, the task is
scheduled, and what is transmitted over a session that holds is delivered.
`SF(ConnAck)`: a broker that is tried again and again accepts at some time, which
is what "an outage that ends" means. Nothing makes the operator start a cycle or
stop the republisher.

## 4. Proofs

`RepublisherProofs` proves for all constants that satisfy `ConfigAssumption` and
`TimeAssumption` (points have a device and an identity, equal identities imply
equal devices; durations are positive and the cap of the backoff is not below
its first delay, both enforced by `.max(..)` in the code):

* `TypeCorrect`: `Spec => []TypeOK`, including the cap on backoffs.
* `Invariance`: `Spec => []IInv`, where `IInv` is `TypeOK` and the three state
  invariants together with `CycleCoherent`. The three are not inductive alone:
  that a cycle cannot make a point of an unresolved device fresh needs that no
  such device is in the cycle; that every point is reported at its end needs
  that a group is done only when all of its points were read or failed, unless a
  stop was requested; `BackoffShows` needs that a refresh that clears a status
  also clears the backoff. `CycleCoherent` states those facts about the cycle.
* `UnresolvedAreStale`, `BackoffIsVisible`, `NobodyPassedOver`: the invariants.
* `HealthOkIsHonest`: the action property, from the invariant and
  `EveryPointReported`.

* `WorkerImplementsContract`: `Spec => ImplementsContract`, with the type invariant, one
  lemma for each kind of abstract step and the refinement mapping of `RepublisherContract`.

`AlgorithmProofs` proves for all lists of points, whatever their identities and texts:

* `MergeAsFound`: the merge is what `MergedAsFound` says: for each configured point, in its
  place, the latest text that was found for it if it is the last of its identity, and itself
  otherwise; then each new identity once, in the order found, as many as `added` counts.
* `MergeSettles`: merging the same scan again adds nothing and changes no point.
* `ImportsMerged`: both as `AlgorithmSpec => []MergeCorrect`, which the run `settings` checks.
* `MergeKeeps`: what `PointStore` needs of it.

The induction theorems of the library take an operator as a parameter, which the provers cannot
instantiate; so every induction here asks for the least number at which the claim fails
(`LeastExists`, from the well-foundedness of `<` on numbers). The first for the merge, `MergeOverExists`, shows
that the recursive function inside the fold exists; from it `MergeUnrolled` has the fold take
one found point after the other. The second carries `MergedSoFar` over the found points. It
says of the merge of the first `k` what `MergedAsFound` says of all; the two cases
of a step are `PointAppended` and `PointUpdated`. That every found identity is in the list
already (`KnownTo`) and that new points are in the order of their first finding (`AddedTo`), so
that none is there twice, are what makes it inductive.

Values are proved about for any sizes of bytes, words and identifiers that satisfy `ScalarsAssumption`:
a byte has a first bit, an identifier fits into a word; and for any mantissa and units that satisfy
`FloatsAssumption`: the units are powers of two and reach over a word.

* `PayloadIsEncoded` and `IncompleteRefused` are about the framing: whichever way the length is
  written, the payload is what the value is encoded in, and no value is made of less.
* `NumbersDecoded`: what `decode_unsigned` and `decode_signed` make of any bytes that fit into a word,
  before it becomes a DOUBLE, is the sum of the weights of the bytes, in two's complement if it is signed. The loop shifts and
  adds within a word; that a shift loses nothing is an invariant of the loop of its own. After `k` bytes
  an unsigned value is below the `k`-th power (`UnsignedRange`), and a signed one on its side of half
  of it (`SignedRange`), which holds from the first byte on only because the loop starts from -1 when
  that has its first bit set. `DecodedSum` then has the value, shifted by the bytes to come, be the sum
  of the weights so far. Both the loop and the sum are folds; `FoldUnrolled` has a fold take one step
  after the other. Powers are a recursive function (`Power`), since no installed prover
  knows a law of exponentiation; `Powers` shows that the function exists.
* `FloatIsClose`: what `as f64` makes of a number that fits into a word is a DOUBLE, off by half a unit
  at most, for each unit that is coarse enough for the number; so not at all if the mantissa
  holds it. A number is rounded up only to at most `Mantissa` units, which is still a DOUBLE
  (`NearestIsNear`).
* `ValuesDecoded`: with those four, `AlgorithmSpec => []ScalarsDecoded`: integers of up to a word
  are shown as the DOUBLE next to them, and enumerated values digit by digit.

Names are proved about over any characters and at any length, and so for the behaviours of `AlgorithmSpec`;
only which names the types have, and how many digits a number, is that of the model:

* `TopicHasNoWildcard`, and from it `TopicsPlain`: `NoTopicHasWildcard`. Each fold a topic is
  made by (`Levels`, `Collapsed`, `Sanitized`, `Joined`) stays in the sequences over a set of
  characters; `SegmentHarmless` takes the wildcards out of that set, and nothing after it puts one back.
* `SameIdentityReadAlike`, and from it `IdentitiesSound`: `IdentitiesReadAlike`. What is read of a text is
  what `WithoutLowered` leaves of it. `KeptTo` is that of the first so many characters: it does not
  change over a stretch that is left out (`KeptOverLeft`), and two stretches whose characters
  are read the same are read in step (`KeptAlike`). So neither trimming (`TrimmedReadAlike`)
  nor what an identity makes of the characters (`IdentityRead`) changes what is read.
* `DefaultTopicsApart`, and from it `TopicsSound`: `TopicsToldApart`. The levels a default topic is made of
  hold no "/" (`CleanStays`), so sanitizing the joined text again changes none of them (`DefaultTopic`),
  and the last two levels of a topic are those of the object and the property (`LastSplit`). In the
  level of the object the last "_" is the one before its number, so that type and number come
  apart; what is in front of them ends with the level of the device, if it has one (`DevicesApart`).
* `NamesToldApart`: with those three and `TypesToldApart`, all of `NamesSound`. The argument about types is
  a text that both a level of a topic and the type read from it determine: `Plain`, what is left without
  anything that either of them ignores. A level has the same plain text as what it was made from
  (`SegmentReadAlike`), what is read as a type has one of that type's plain spellings
  (`TypeSpelled`), and no two types share one (`SpellingsApart`).

`FoldOver` says of any fold whose step is a function on sets that its values exist and stay
in the set. The filters are written as folds, because the prover has no definition of `SelectSeq`.

`PointStoreProofs` proves for any bounds, and any points and scans that satisfy
`PointsAssumption` (points have the four fields, scans find lists of them):

* `SavedListIsLoaded`: if the start loaded the file and no save failed since, loading it again gives
  the list the operator sees. Inductive by itself: every action that changes the list also
  saves it, which is the point, and each action is one step of the proof.
* `RestartLosesNothing`: the action property `RestartKeepsPoints`, from it.
* `WipeAsAnnounced`: `ArmedIsCurrent`, by the same case split.
* `PointsTyped` and `EditorOnItsPoint`: `TypeOK` and `SelectedIsOpened`, which together are
  inductive. Every way the list can change either resets the editor, keeps the
  identity at its index, or is an import, which is excepted.
* `ImportsKeepPoints`: the action property `ImportKeepsPoints`, from `TypeOK` and `MergeKeeps`.

`PublisherProofs` proves for all constants that satisfy `PublisherAssumption`
(numbers, and a positive initial backoff not above the cap) `PublisherInvariance`:
`Spec => []IInv`, and from it `PublisherTypeCorrect`, `ReconnectsAreExact`,
`ConnectionStartsClean` and `PublishedIsNotLost`. `IInv` is `TypeOK` with

* `CycleFits`: the messages a cycle still has to enqueue are within the bound,
  which makes the type of the channel inductive;
* `ConnectionCoherent`: what the three shared fields hold at each place of the
  task, half-done updates included. `ReconnectsExact` needs it because a connection is
  only ever made by a task that is not connected;
* `CountedNotLost`: `PublishedNotLost` for the cycle being counted and for the
  last report, from which it follows when the report is made.

`ConsoleProofs` proves `ConsoleInvariant`, `Spec => []IInv`, for any threads, jobs and
backlog, and from it `ConsoleTyped`, `OneRepublisherAlways`, `AlwaysStoppable` and
`StoppingStaysAlways`. That at most one republisher is alive is not inductive: the
console infers it from events. `IInv` says of the pipeline of life events (those being
sent, in the channel and in the inbox) that together they belong to at most one thread,
in the order of its life, and end with an ending exactly if that thread is no longer alive
(`Ordered`, `Attributed`), so that the console believes in a republisher as long as there is one
or an ending is under way.

`StatusBoardProofs` proves for any points, identities, threads and capacity:

* `BoardTyped`; `BoardFromReports`: `NothingFromNowhere`, from the invariant `Reported`
  that every entry was made by a sample or a failure.
* `StatusesAttributed`: `PublishAttributed`, from `InOrder`: without an overlap only one
  thread has events under way, and what remains of its report, in the channel and unsent, is a
  suffix of a report whose batch is the one on the board.
* `BoardCatchesUp`: `BoardMatchesWorker`. That speaks of a moment when nothing is under
  way; the invariant `CatchesUp` speaks of every moment. The events under way, in the channel
  and then unsent, end up with what the worker knows: of each point, the last event that
  mentions it says what the worker's own status is, and if none mentions it the board shows that
  already. A step of the worker appends to those events (`PollTold`, `FailuresTold`), sending moves
  one along and changes none, and a drain takes the first, which either is mentioned again
  later or is the last word on its points (`ApplyCatchesUp`).

`DeviceJobsProofs` proves for any finite set of devices, points, number of passes and
chunk size:

* `RefreshEarned`: `RefreshSound`. The invariant counts for each device that was never in the
  table the requests it had to answer: one for the broadcast and one per completed
  pass; within a pass, one is still to come if a range that covers it is unsent. The
  core is `RangesCover`: the ranges made of a set cover every device of it, whatever the
  chunks, for which a finite set of numbers is shown to have a least and a greatest
  element.
* `JobsAccounted`: `JobsAccount`, from the count of the devices still to come.
* `DiscoveryKeepsItsWord` and `OneShotTyped`, of the behaviours of `OneShotJobs`, for any interfaces and
  passes: `DiscoveryHonest` and `BothTypeOK`. `DiscoveryInv` says where a discovery is
  (`OnInterface`), that what was heard in a window is in the result or in the table of the client
  whose window it is (`Collected`), and that under Strict every interface left behind had all
  its broadcasts and the current one all up to this pass (`Complete`).

`SettingsProofs` proves for all versions and preferences that satisfy
`SettingsAssumption` (the current version is at least 3, as in the code) `SettingsTyped`,
`SettingsShown`, `SettingsSecrets` and `SettingsSurvive`. The last needs the invariant
`InAgreement`: as long as `saved`, the file would be loaded as what is in force; it holds
because a start that loads the file finds it so (`StartIsCurrent`), and what a save writes is of the current version, which migration leaves alone.

Only model-checked: everything about liveness and fairness (`StopHonoured`, `HeldBackRetried`,
`ResponsiveSampled`, `ImplementsFairContract`, `PublishedArrives`, `EverythingSettles`, `AllEnd`), which
is outside the prover's reach. Every other property of a passing run is stated by a theorem.

## 5. Not modelled

* The vendored transports (`vendor/bacnet-transport`). The application builds one
  BACnet/IP transport and uses it through a client from outside the repository,
  which is modelled by how it is used: a request is answered, fails or stays silent, I-Ams fill
  a table that may lose entries. BBMD, MS/TP, SC, IPv6, Ethernet and
  loopback are not instantiated by any code of the application; modelling them would say
  nothing about it.
* When the client library drops an entry of its device table. Whether a long cycle
  delays the keepalive beyond that (`worker.rs:770`) cannot be told from the repository, so
  `Forget` may happen at any time, and no property says that it does not.
* Rendering (`ui.rs` and the pages of `app.rs`), the log ring, interface enumeration, the
  command line and the simulator seed: no state that anything else depends on.
* What floating-point bits mean, and JSON text; TLS set-up, which reads certificates once.

Proofs that remain: see the end of section 4.

## 6. Where the repository disagrees with itself

1. `health_unresolved`: health is published only after a poll cycle
   (`src/worker.rs:765`). If all devices become unresolved nothing is due any
   more, and the retained "ok" stays, although the comment at line 535 says the
   health snapshot reports the points stale.
2. `points_import`: a scan-all merges what it found into the copy of the points it
   was given when it started, and the drain replaces the list by the outcome
   (`src/app.rs:1937`). Points added, edited or deleted meanwhile are lost or come
   back, while the log reports points added to the list.
3. `pollonce_delivers`: the publisher of a poll-once is dropped as soon as its
   messages are in the channel, and `Drop` aborts the event loop
   (`src/mqtt.rs:203`). Unless it connects and transmits in between, nothing is
   sent, while the status line says "MQTT publish complete".

More follow from the code the models translate and have no run:

* `Finished` of any thread clears `working` (`src/app.rs:1976`, `Applied` of `Console`), so a
  second scan-all can start beside the first, which "Another BACnet operation is already
  running" at line 1725 is there to prevent.
* An import replaces the list but keeps `selected_point`, an index into the old list
  (`ImportDrained` of `PointStore`). "Save point" then overwrites another point, or drops the
  edit if the index is past the end, and reports the configuration as saved.
  `SelectedIsOpened` excepts it.
* After a clear-all, points imported again for a device that is still missing show "No
  sample" and not a read error, because the device is reported only when it goes missing
  (`RepRefreshes`), although `src/worker.rs:535` has every such point marked as failed.
* Points are saved without validation (`SavePoints` of `Settings`), while settings are
  validated with all points: one enabled point without a device blocks every later save of
  settings, with a message about the point, and every start of the republisher.
* A tag path with a level of nothing but wildcards, as in `a/#/b`, becomes a topic with
  an empty level (`Sanitized` of `Names`), and points with different tag paths may share a topic.
  Default topics are made of the label and not of the number of the device, so two devices with one
  label share them.
* `value as f64` rounds unsigned and signed values beyond 2^53 (`AsFloat` of `Scalars`), while
  enumerated ones of the same size are shown as they are.
* If the directory of the configuration is not found, saves succeed and are reported as saved, but go to
  a file of the working directory that no start reads (`LoadOrDefault` of `PointStore` and `Settings`).
* Extended lengths are read from the byte after the tag, of which 254 and 255 announce
  longer fields in the standard (`Payload` of `Scalars`), and numbers of more than 8 bytes lose
  the leading ones without an error.

* "next attempt in {}s" (`src/worker.rs:463`) is counted from before the cycle (line
  457), so a cycle as long as the delay leaves no backoff (`BackoffAfterPoll` with
  `elapsed`).
* A job whose runtime cannot be built sends no `Finished` (`src/worker.rs:949`,
  `JobLost`), and scans are then refused because of an operation that does not
  exist; `EverythingSettles` excepts this case.
* "Stop the continuous republisher before running Poll once" (`src/app.rs:1752`) has
  no counterpart in `start_republisher`, which starts beside a poll-once.
* "Any other action cancels" (`src/app.rs:1877`) does not hold for drained events: an
  import between the two presses of clear-all is wiped too. `ArmedIsCurrent`
  excepts it.

That a keepalive refresh clears the backoff of a device that is in the I-Am cache
but no longer answers reads is intended (a unit test asserts it), so it is no
finding; it is why `BackoffShows` speaks of visibility and not of duration.
