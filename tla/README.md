# duqu gateway: specifications, model checking and proofs

This directory holds TLA+ specifications of the data-collection gateway in
this repository, the TLC configurations that check them and the proofs that
TLAPS checks. Every definition is translated from the Python source;
`PROJECT.json` maps each one to its lines.

## 1. Inventory of the system

A PyQt program reads field devices over serial lines or Ethernet, processes the
values and publishes them to one MQTT broker per device, with an SQLite database
for history and for messages that could not be sent.

| Component | State it keeps | Operations and threads |
|---|---|---|
| `CacheManager` `core/storage/cache_manager.py` | table `upload_cache`; `_configs`, `_upload_callbacks`; `_running`, `_stop_event`, `_upload_thread` | `cache_data` (any thread), register, unregister, clear, start, stop; one upload worker |
| `MqttClient` `core/mqtt/mqtt_client.py:25-346` | `_state`, `_client` (a paho client), attempts | `connect`, `disconnect`, `publish`; paho's network thread runs the callbacks; `_schedule_reconnect` starts reconnect threads |
| `MqttManager` `core/mqtt/mqtt_client.py:349-468` | clients, upload callbacks, `_using_backup` | `connect_device`, `publish`, `_try_backup`, `_cache_upload_callback` |
| `DeviceCollector`, `CollectorManager` `core/collector/collector.py` | `_status`, `_running_event`, client, mode; the collector of each device | start, stop, pause, resume, mode switch, `trigger_once`; one thread per collector ever started |
| `DeviceManager` `device/device_manager.py` | runtime status per device, filters, statistics | start, stop, add, update, remove; callbacks from collectors to the pipeline, the database, MQTT |
| `GatewayRuntime`, `main.py` | lists of what was started | start, stop; cleanup from `finally`, `atexit` and the watchdog |
| `Watchdog` `utils/watchdog.py` | last feed, enabled | fed by a Qt timer; restarts the process |
| `Database` `core/storage/database.py` | per-thread connections, one lock, tables | insert, query, delete old; a maintenance thread |
| `SerialClient`, `EthernetClient` `core/communication/` | port or socket, `_running`, buffers | connect, disconnect, request and response; reconnect, receive and accept threads |
| Protocols `core/protocols/` | frame buffer | build and parse Modbus and custom frames |
| Processors `core/processor/` | windows, previous values, alarm states | filter, aggregate, convert, trigger, fuse, script |
| `AuthManager`, encryption `core/security/` | users, session, lockout | login, logout, user administration |
| `ConfigManager` `config/config_manager.py` | all configuration | edit, save (JSON, in place), load, import |
| Management API `core/api/server.py` | HTTP server thread | start, stop; read-only requests |
| Helpers, log `utils/helpers.py`, `utils/logger.py` | the log's buffer, pause and filter | checksums, byte orders, type conversion; every thread logs |
| User interface `ui/` | what each page shows: device, points, lists that wait for a timer | the Qt thread calls `DeviceManager`; collectors and paho's threads feed the pages |
| Web monitor `web/app.js` | the status shown, the token | asks the management API every five seconds |

**Interactions.** A collector thread hands each sweep to `DeviceManager`, which
runs the pipeline, inserts into the database and calls `MqttManager.publish`. A
publish that fails is stored by `CacheManager.cache_data`. The upload worker
later hands batches back through `_cache_upload_callback` to the same
`MqttClient`. paho's threads write the same `_state` and `_client` as the
application and the reconnect threads. `unregister` and `clear` reach the queue
while the worker is between reading a batch and deleting it. The pages are fed by
the collectors' threads and drawn by timers; the watchdog is fed by a timer of the
Qt thread, which is also the thread that connects the devices.

**What is hard.**

- *Threads.* `MqttClient` has no lock around `_state` and `_client`; collectors
  are stopped through flags their threads see late; worker and reconnect threads
  are joined with time limits or not at all.
- *Failure.* A broker that disappears between a test and its use; a batch of which
  one record fails; an SQL error in the middle of a cycle; a crash between an
  upload and the deletion of what was uploaded.
- *Ordering.* Callbacks of a replaced paho client, answers of a device and answers
  of the web server that arrive late; cleanup by the Qt thread, a checker of the
  watchdog and `atexit` at a time.
- *Shared memory of the processing.* The collector and a triggered collection are in
  one pipeline, and two of its rules in one filter.
- *Limits and boundaries.* Capacity, expiry, retries and backoff of the retry queue;
  failed logins, lockout and idle time; the bytes of a frame.
- *Persistence.* Configuration is written in place; a crash in a save leaves an empty
  or partial file, while the accounts are written beside their file and moved over it.
  Secrets are encrypted on their way out and decrypted on
  their way in.
- *Views.* Pages read lists other threads append to, and show a device that may be
  changed or removed meanwhile.

**What makes each part correct.**

- *Retry queue*: nothing accepted vanishes without a cause; capacity holds; a due
  record is settled; one worker; a dead letter stays one.
- *Link*: RECONNECTING has someone who reconnects; a wanted device is connected again.
- *Delivery*: a message is in some queue until it is received or lost for a known
  reason; duplicates are bounded.
- *Collection*: what is shown as collecting collects, what is stopped stops.
- *Field*: an answer belongs to its request; a lost peer is dialled again; a removed device
  is connected again only by what was under way; an accepted connection is served.
- *Processing*: the value read is the value the device meant; a filter drops what
  it is there to drop and nothing else; a result is offered for publication once.
- *Runtime*: what is started is stopped, whoever cleans up first; the watchdog
  restarts a hung program, once, and no other.
- *Administration*: the lockout holds; an administrator remains; a restart finds what the
  user saved; a secret is neither lost nor laid open; what collects is configured.
- *Screens*: what is shown is true, complete, and of the device that was chosen.

## 2. Modules

Indented modules are extended or instantiated by the one above them.

| Module | Models | Proofs |
|---|---|---|
| `UploadCache` (`MCUploadCache`) | the retry queue and its worker | `UploadCacheProofs` |
| `MqttLink` | the connection of one device to its broker | `MqttProofs` |
| `Delivery` | publish, paho's queue, PUBACK, retry queue, worker, backup broker | `MqttProofs` |
| &nbsp;&nbsp;`MessageLife` | abstract: what the upload path promises about a message | |
| `Collection` | `DeviceManager` and `CollectorManager` of one device with its collector threads | `CollectionProofs` |
| `Field` | both sides a device can be on | `FieldProofs` |
| &nbsp;&nbsp;`Exchange` | reading points: requests, answers, timeouts, two callers | |
| &nbsp;&nbsp;&nbsp;&nbsp;`Transport` | serial port or TCP client with its threads | |
| &nbsp;&nbsp;`Server` | TCP server and UDP | |
| `Runtime` | `main.py`, `GatewayRuntime`, watchdog, API server, retention thread | `RuntimeProofs` |
| `Administration` (`MCAdministration`) | `ConfigManager`, secrets, device and settings pages | `AdministrationProofs` |
| &nbsp;&nbsp;`Accounts` | `AuthManager` | |
| `Readings` (`MCReadings`) | a reading on its way from the device to MQTT | `ReadingsProofs` |
| &nbsp;&nbsp;`Frames` | commands, replies, checksums, byte orders, types | `ReadingsProofs` |
| &nbsp;&nbsp;`Processing` | pipeline, filters, aggregation, rounds of a collector | `CollectionProofs` |
| `Screens` | what the gateway shows | `ScreensProofs` |
| &nbsp;&nbsp;`Records` | history, retention, the data page | |
| &nbsp;&nbsp;`Pages` | dashboard and visualization | |
| &nbsp;&nbsp;`MonitorPage` | the page a device is run from | |
| &nbsp;&nbsp;`LogPage` | the log manager and its page | |
| &nbsp;&nbsp;`DebugPage` | the MQTT debug page and subscriptions | |
| &nbsp;&nbsp;`WebMonitor` | API status request and `app.js` | |

Components that exchange state are composed by sharing it: `Exchange` runs over the
variables of `Transport`, `Administration` over those of `Accounts`. `Field`,
`Readings` and `Screens` put parts side by side that share none: a variable (`side`,
`observed`, `view`) picks the one whose steps are taken, so that one run checks them
all without multiplying their states.

### UploadCache

One action per block the code runs under `db._lock` or `_state_lock`. What a
thread read in an earlier block stays in a variable of its own (`call`, `plan`,
`config`, `batch`, `success`), so that it can be stale when it is used, as in
the code. `PurgeExpired`, `SelectDevices`, `ReadBatch`, `Upload`,
`DeleteUploaded` and `RecordFailure` are the steps of `_upload_loop`;
`CacheBegin` and `CacheStore`, `CacheReject` or `CacheError` are the two halves of `cache_data`;
`StartWorker`, `StopWorker` and `JoinReturns` are the life of the thread. The join may
give up on a worker whose callback takes longer than five seconds; `outlived` keeps
the workers that went on. Then the next start clears the shared stop event, two workers
process the same rows, and one may write a retry count from an old reading over a
dead letter: `OneActiveWorker` and `DeadLetterIsFinal` say that this is the only way
to either. Timestamps are ages and backoffs counted down by `Tick`; this assumes a clock
that is not set back. The database is opened with `synchronous=NORMAL`, so
`Crash` is the end of the process, not of the machine. The column `uploaded` is
never set by the code and is left out.

### MqttLink

`connect()` is cut into `cleanup`, `create`, `dial` and `poll`, because any
other thread that shares `_state` and `_client` can run in between; thread 0 is
the application, the others are reconnect threads. paho 1.6 (`requirements.txt`)
and the broker are external: a paho client whose connection ends calls
`on_disconnect` and dials again by itself until `loop_stop()`; this is modelled
by `NetworkStep`. `SlowConnack` lets a broker that is up answer after the five
seconds of the connect poll. The model contains two behaviours no property excludes,
because the code has them: a reconnect thread that sleeps while the application
disconnects wakes up, sets RECONNECTING and connects; and two threads in `connect()`
replace each other's client, which can end in a CONNECTED that is not.

### MessageLife and Delivery

`MessageLife` has one variable, how far each message has got: new, held,
received or lost, the last two final. `Delivery` shows where it is: in the hands
of a publisher, in the queue of a paho client, in the retry queue, at the broker.
Its definition `status` is the refinement mapping. QoS is 1, the default of
`MqttConfig`. Of `MqttLink` it keeps whether the client in use has a socket and whether
the state is CONNECTED, of `UploadCache` which messages are stored and how often each
has failed; expiry, overwriting and clearing are in `UploadCache` and not repeated. An error of the
database when the worker deletes a batch or counts a failure is `WorkerFails`: the batch comes
again, uncounted, so that `HandOversBounded` allows one more hand-over for each such fault.

### Collection

The user's operations run one after the other on the Qt thread; `ui` holds what
is left of the one under way, so that collector threads run between the
parts of a stop, an update or a removal. Each start makes a new collector with a
thread that never ends; starting a running device therefore leaves the old one
collecting, out of anyone's control. Login and permissions are taken as given; timer,
trigger and manual modes are all polled by the same loop, as in the code. `Tick` is
time, by which `Rests` waits; `_running_event.wait(interval)` returns at once while
the collector runs, since the event is set then, so the interval between sweeps is
not kept. A start that fails to connect may leave its client behind (`LeavesItsClient`).

### Transport, Exchange, Server, Field

`Transport` is one client: a serial port (Modbus RTU or a custom protocol) or a TCP
client (Modbus TCP or RTU over TCP), with the application thread, the reconnect
thread, and a receive thread per TCP connection; sockets are numbered as they are
opened. What reads a flag and uses the socket some steps later is cut there: a caller finds the client
connected (`FindsConnected`) and sends (`Sends`, `SendFails`), `disconnect()` clears `_running`
(`Disconnecting`) and closes (`Disconnect`), the receive thread closes (`RxSeesClose`) and starts to
reconnect (`RxReconnects`). A send that is overtaken by a removal therefore reconnects the removed
device. `left` notes that a thread was about to reconnect, or to send, when the device was removed.
`Exchange` adds the requests: the collector and the Qt thread (`trigger_once`) ask
one at a time, answers may come late, damaged or not at all, and `inbox` is what the client
has received and nobody has taken. The code compares neither transaction number nor
unit, so an answer that comes after its timeout is taken for the answer to the next
request, and so on in a chain; `AnswersAreOwnOrLate` says that nothing else mixes
answers up. `Server` has the acceptor and one reader per connection; they share
the table keyed by address. A server or a UDP endpoint counts what arrives and drops it:
`send_and_receive()` answers None in both modes.

### Runtime

Three kinds of threads: the Qt thread (start-up, event loop, closing), the checkers of
the watchdog and the retention threads of the database. `at` is the place of each of
them in `cleanup()`. A second `stop()` returns at once, before the first has ended;
a process may therefore end while services run (`log.met`). `Timeout` counts waits for
one unreachable device, since `start_all()` connects the devices one after the other
on the thread that feeds the watchdog.

### Accounts and Administration

Passwords are right or wrong; times are ticks of `idle` and `lock`. Every operation of
the device, settings and account pages is an action with the permission it asks for; the log level and
the mode of the monitor page ask for none. A save of
the configuration opens a file, which empties it, and then writes; `End` and `Boot` may come
between. The accounts are saved in one step, as their file is replaced.
A secret is its value with the keys it is encrypted under, so that decrypting with a wrong
key, encrypting twice or writing it in the clear can be told apart. `cause` notes the
named ways to lose something: a process that ended in a save, an edit or import that broke off,
a changed key, a redacted import, a restore while devices run. `SwitchMode` changes the object the
collector works with and saves nothing: `switched` notes it, and `NothingIsLost` says that nothing
else differs between the file and memory. `running` is what the table of collectors has, `orphans`
what a second start has put out of it, `live` the devices whose collector has the configuration in
force; `RunningIsConfigured` is about all of them, and names import, restore and orphans as the only
way to collect for what is not configured. The limit of an idle session is in the guards (`IsLoggedIn`);
no property is stated about it, since it would repeat them.

### Frames, Processing, Readings

`Frames` builds the command as the code does, the reply of a device that means some value,
turns one bit of it over or not, and parses it as the code does: checks, byte order, word
order, type. Numbers are byte sequences, so no width is too large; the registers of the checksums are
sequences of bits, and shift and XOR are what they do to the bits, so that one can
reason about them. The values the code misreads are listed in
`Misread` with the reason: 8-bit types on Modbus read the high byte, `H` and `L` are
signed, `float32_abcd` and `float32_cdab` use the native order, four-byte types under
`big_endian_swap` are read as little endian. A custom frame with both a check and an end
delimiter is `CheckMisplaced`: the code looks for the check in the last two bytes of the frame,
where the delimiter is. Such a frame is refused, or let through if its last two bytes happen to be
the check of the ones before them; neither property is about it. Of a `crc32` a frame carries the low
half. `ReadsTrue` is about every
other combination, and about the command, which the device must understand.
`Processing` has the rules of a pipeline, the aggregator's window, the fusion and the
filter before the upload, and two threads that may be in them at once; the order of
database, MQTT and display is that of `_on_collect_data` and `_on_collect_batch`. The filter of the
default path reads its memory and writes it in two steps, and a window that is due is gone through and
then cleared (`RunsDefault`, `Clears`), as neither has a lock: two threads may close the same window, a
value added in between is lost, and a point added in between makes the walk raise (`WindowRaises`).
`AggregatesAreWhole` is therefore about what holds until two threads are in the pipeline. The device may
be removed in the middle of a round (`RemovesDevice`): its readings are still stored and published no
more. `Repeats` is what a filter is there to drop, `Incomparable` what a change rule drops because its
arithmetic raises: a failed reading or text after a number other than 0, and everything after a text. An
aggregate of the default strategy `wait_full` never comes, and fusion of two or more valid
values raises; both are in the model as they are. `ProcessingSpec` is that side of
`ReadingsSpec`, on its own, and `FramesSpec` the other.

### Records, Pages, MonitorPage, LogPage, DebugPage, WebMonitor, Screens

`Records` is the table and the data page: insertion, retention, deletion, filtered queries
of one page each (two statements, rows and count). A page is a set of rows, those with so many
later ones before them; the order within a page is that of `Later`. ORDER BY has the time only, so
records of one second come in the order of the plan, which is the statement's (`Ties`) and is taken not
to change while the filter stays. `Pages` is the live
curves, table and cards: a collector's thread looks at device and points, then stores; a
timer takes and shows. `MonitorPage` is the box of devices that is refilled without a
signal, and the buttons. `LogPage` is the log manager (pause, filter, bounded buffer,
file) and the list the page walks through and clears; the file has a level, the page has not.
`FlushWalks` does not raise: `for entry in list` over a list that grows goes on to the new end.
`DebugPage` is subscriptions, which the broker grants or refuses without the page hearing of it, and
the list of messages that is swapped; what is not UTF-8 never reaches it. `WebMonitor` is the browser's
timer, requests that overtake each other, and the two snapshots behind one answer, lists first and
totals second; a provider that raises leaves its half empty under "running normally", and
`MonitorTellsTheTruth` is about the others. `Pages` lets a timer walk the dict it has taken in one
step; that a point added during the walk would raise (visualization_page.py:597) is left out.

## 3. Runs

| Run | Question | Result |
|---|---|---|
| `upload_cache` | loss, capacity, one worker and final dead letters, with two callers, a changed configuration, expiry, overwriting, clearing, restarts of the worker, a crash or SQL error; every row served is uploaded, buried or removed | holds |
| `mqtt_link` | RECONNECTING has a reconnect thread; the link recovers | holds |
| `delivery` | loss has a cause, hand-overs are bounded, messages arrive, `MessageLife` is implemented | holds |
| `delivery_loss` | at-least-once delivery of what was stored | violated |
| `collection` | orphans, runtime status, clients; stopped collectors come to rest, running ones go on | holds |
| `field` | answers and requests, connections and their causes, recovery of the link | holds |
| `exchange_reconnect` | the gateway reconnects by itself after an orderly close | violated |
| `runtime` | what runs at the end, restarts, retention threads, a hung program is restarted | holds |
| `administration` | lockout, the administrator, configuration and secrets across restarts, what collects | holds |
| `readings` | values, noise, windows, filters, publication | holds |
| `screens` | history, truth of what is shown, lists filled by other threads, overtaking answers | holds |
| `records_clearing` | a clearing deletes what the current filter shows | violated |

**What the violations show.** (1) A message counts as uploaded, and is deleted from
the retry queue, when paho has queued it; the queue is thrown away with the client.
(2) When the peer of a TCP connection closes it in order, the receive thread starts the
reconnect loop while `_running` is still set, on which the loop ends at once: the device
stays disconnected. (3) The data page asks to delete "all data under the current filter" and deletes
every record before the end time, whatever its device. Each contradicts a sentence of the
documentation or of the program's own dialog, quoted under `findings` in `PROJECT.json`. Where the code has a race that no document excludes, the
property names it as the only exception, and history variables (`outlived`, `left`,
`cause`, `log`, `late`) record that it occurred.

`CHECK_DEADLOCK FALSE` is set where the bounds or the system end: a process that has
exited, a device that has been removed, users that have made all their changes.

### Bounds

- `UploadCache`: rows of one device, since devices share nothing but the worker,
  which takes them one after the other (the proofs cover any number). Two rows in a
  cache of one record let a batch be overwritten and replaced while it is uploaded. Two
  callers, because admission reads the configuration and the table in two blocks; two
  configurations of the device, one that overwrites and expires, one that refuses; two workers,
  since the hazard is a worker and its successor; one fault in a run. `StaysInBudget` keeps
  apart what need not meet: when the second worker starts, the second caller and the refusing
  configuration are gone, and the database fails no more while the first worker is at work (it may
  fail before and after; the proofs of the four safety properties have no such bound). It keeps callers and
  operations from a step and no worker and no clock, which are what has fairness, so it
  hides no violation of `NoEndlessRetry` by a stop of the program. `AgeCap` saturates
  ages above every `max_hours`; `BatchLimit` stands for the 100 rows of a query.
- `MqttLink`: two reconnect threads and two paho clients, one in use and one
  replaced. A step that needs a further thread waits for a free one
  (`RoomForALoop`); without this a bound would cut off the retries the
  liveness property is about.
- `Delivery`: two messages, so that a batch can fail in part; two retries; one
  crash, cache error or database error; a backup broker.
- `Collection`: two collectors, one and the one that replaces it; an interval of
  two ticks, so that a rest can be in its middle; a polled and the continuous mode.
- `Field`: two requests of two callers to two slaves, two connections one after
  the other, one loss, for each of the four framings; a server with two addresses,
  a table of two and three connections, so that one address comes twice and the table
  is full once. The theorems cover any number.
- `Runtime`: two devices and a timeout of 1, so that waiting for one device is within the
  timeout and waiting for both in a row is not; two checkers and two retention threads.
- `Administration`: an administrator and an operator, two wrong passwords allowed, one
  device, three changes, which is enough for a change, a crash in its save and
  a second change after the restart.
- `Readings`: `MCReadings` lists the setups: every kind of rule, alone or with one that
  shares its memory, with missing, repeated, changed and textual values; three rounds of the collector
  and two of the trigger. Every type and byte order over every protocol, with two bytes of
  which one has its highest bit set.
- `Screens`: two of everything that can be confused (devices, threads, topics, page
  sizes); three records or log entries, so that one can come between two others; levels below
  and at that of the logger. Two gestures on a chart page and one on the log page; one request can
  overtake one other. One start time and one end time next to the defaults of the filter.
- `Records` by itself (`records_clearing`): two records of two devices are enough.

### Fairness

Threads that can run do run: weak fairness of each worker, reconnect thread,
receive thread, network thread, publisher, collector and checker, since nothing in the
code suspends them and each is an operating-system thread. Time passes. The timers of
the Qt thread and of the browser fire again and again (`QTimer`, `setInterval`). A broker
that is up and connected answers (`OnConnect`, `BrokerStep`): that is the
assumption under which one can ask for delivery at all. An exchange with a device ends,
by an answer or by its timeout. The Qt thread has no fairness in `Runtime`, because it
may hang, and that is what the watchdog is for. The user, failures of network and
devices, crashes and refused insertions have none anywhere. `LinkRecovers` further assumes
that no two threads are in `connect()` at a time, and `Recovers` that no two dial at a time and
that no failure comes while a reconnect loop is ending (`NotOvertaken`); the code ensures
neither.

## 4. What is proved

The theorems hold for every value of the constants: any number of devices,
configurations, callers, workers, messages, threads, clients, sockets, connections,
accounts, changes, every limit and timeout. They use only the named assumptions on the
constants (`...Assumption`), which TLC evaluates in the runs, and the library's facts
about finite sets and sequences. Every safety invariant and every action property of the passing
runs is a theorem, as is the refinement of `MessageLife`, with the type invariant of each module. `TypeOK`, `AccountsTypeOK` and `TransportTypeOK` are
therefore left to the proofs and not repeated in the runs.

**`UploadCacheProofs`.** `TypeCorrect`, with `IdInv`: ids are handed out
with messages and never twice, so whoever holds an id holds that message.
`NothingSilentlyLost` needs more than that: `SettleInv` says that a batch whose
callback returned True has been noted as delivered before it is deleted, and
`LossInv`, the conjunction of types, `IdInv`, `SettleInv` and `NoSilentLoss`, is
inductive. With ids that could be reused, the deletion of a batch could delete a
newer row; that is what `IdInv` excludes. `CapacityKept` is inductive on top of
the types: only `CacheStore` adds a row, and the lemma `RoomIsMade` shows that
what it keeps leaves room. `WorkersOutliveOnlyJoins` rests on `WorkersInv`: the application
knows of at most one worker, the one in `_upload_thread` or the one it is joining, and every
other one that is active has outlived a join. `DeadLettersStayDead` is an action
property: by `FreshInv`, as long as no worker has outlived its join, no active worker
holds the record of a row that has become a dead letter since it was read.

**`MqttProofs`, the connection.** `LinkTypeCorrect` and `ReconnectingIsManned`. The second
is inductive with the types: each step that sets RECONNECTING is taken by a
reconnect thread or starts one, and a thread ends only after it has seen or set
another state.

**`MqttProofs`, the messages.** `DeliveryInv` consists of the types, `PublishersInv` (one
publisher per message; only accepted messages are anywhere), `WorkerInv` (a batch
is still in the table and below its last retry, and what was handed over has
reached the client's queue) and `KeptInv` (every accepted message is in some place;
`publish()` gives up only messages that are stored or discarded).
`LossesHaveACause` follows from it, and so does `DeliveryImplementsLife`: every
step takes one message over (`Takes`), brings one to the broker (`Receives`) or
brings none back (`LosesOrStays`), and these are steps of `MessageLife` or
stutter. `HandOversAreBounded` counts: `HandOverInv` bounds hand-overs by a
budget per message, what the worker has attempted, what the publisher's
progress allows and the faults, of which one is an error that keeps the worker from noting what
it handed over; each step is shown to raise the budget by what it hands over.

**`CollectionProofs`.** `CollectionInv` adds to the invariants of the run that
the flags of a collector go together (`FlagsInv`) and what holds in the middle of
an operation of the Qt thread (`UiInv`). From it follow the types,
`OnlyRestartsOrphan`, `CollectingIsNoLie` and `RunningKeepsItsClient`.

The same module proves the way of a reading through `Processing`, whose variables
`Collection` does not touch; its theorems are about `ProcessingSpec`, for any setups, points,
window, percentage and number of rounds, and `ReadingsAreBoth` makes them theorems of what the run
checks. `PipelineMoves`, `BeginIs`, `OnDataIs` and
`OnBatchIs` say what each step does to a round, and the invariants rest on them and not on the
rules one by one:

- `Typed`: a round has its readings in the order they were read (`ReadingsAreTyped`).
- `Accounted`: what a round has not come to is neither stored nor offered; what it has come to
  and stored is in its batch, and offered if each result is published at once and not yet if the
  batch is; else it is excused. At the end of the round this is `OfferedOnce`
  (`ReadingsAreOfferedOnce`). It holds with two threads in the pipeline and for every filter:
  the batch filter's fold (`Memory`) decides which readings are excused and never whether they are
  accounted for, so its values need not be known.
- `Placed`: a reading is inside the pipeline exactly while some round is not past it, and while
  no two rounds overlap readings come to their end in order. `Fresh`: at the first rule a
  reading is as it was read, and one rule alone is executed once. These carry the other two.
- `Filters`: between readings the memory of a lone filter is the value that left last
  (`last` = `left`), and between reading and writing it the thread holds that same value. With it a
  step drops a reading just where `Repeats` or `Incomparable` says so (`FilterDropsExactlyRepeats`).
- `Buffered`: the buffer of a point `Tracks` the readings fed to it, that is, it holds the latest
  of them in their order, one more than Window in the middle of the rule. `TracksAppended` and
  `TracksTrimmed` are the two halves of the rule, `TracksRecent` that a tracking buffer of
  Window readings has exactly the last Window. With `Windowed` (what the
  aggregator holds left as itself, is in no window that closed, and is all the numbers that did
  since the last one closed, while rounds do not overlap; a window in `Clears` has not changed since it
  was gone through) it gives `ReadingsAreAggregatedWhole`.

**`ReadingsProofs`.** `ReadingsAreBoth`: `ReadingsSpec` implements `ProcessingSpec` and
`FramesSpec`. The rest is about the frames, for all bytes, slave ids, delimiters and configurations
(`FramesAssumption` only says that bytes are bytes and gives each field its possible values).

- *Recursion without induction over data.* A checksum takes a register through a step for every
  byte (`Through`). `RunExists` shows that the recursive function defining it has the values its
  steps give, by the least place where it would not; `RunsAgree` (two runs of the same step from the same
  start are the same) and `RunsPart` (two runs that come apart at one item and whose steps are injective never meet
  again) are argued in the same way.
- *What a checksum is for.* A shift of the register is linear (`ShiftsLinear`) and injective
  (`ShiftsPart`), since both polynomials have their last bit set; XOR and the sum modulo 256 are injective in each
  byte. So whatever the method, one other byte makes another check (`ChecksumShows`), except for crc32:
  the frame carries half of it, which two frames that are long enough may share. TLC checks it on the
  frames of the run.
- *Whose checksum it is.* `crc16_modbus` starts with ones and shifts zeros in; the standard divides the inverted
  message followed by zeros. The register of the one is that of the other two bytes
  later (`StartsAgree` after two bytes, `StepsAgree` from then on), which gives `CrcIsTheStandards` for every
  message of two bytes or more.
- *Frames.* `Decodes`: what `convert_endian` wrote `bytes_to_value` reads back, for every type and order
  outside `Misread`. `CustomReads`, `RtuReads` and `TcpReads` find the value in an
  undisturbed reply, `CustomRefuses` and `RtuRefuses` refuse one with a byte changed, the check
  itself included, and `CommandUnderstood` is the way there.
- *The invariant.* `FramesInv` says what is on the wire at each stage: the command, the reply to what
  is meant, or that reply with one byte changed (`OnItsWay`). `ReadsTrue` and `NoiseIsNeverRead` follow
  (`ReadingsReadTrue`, `NoiseNeverRead`).

An attempt at the second showed that a custom frame with a check and an end delimiter is not always refused,
as the model had said before and small instances had confirmed: with `crc16_ccitt` and the delimiter
16, the frame 16, 18, 49, 16 with the last byte changed to 0 passes the check and is read as 0.
`CheckMisplaced` is the correction.

**`FieldProofs`.** `TransportStep` reduces a step of the exchange to what it does to
the connection, so that facts of `Transport` are proved once. `ZombieInv` strengthens
the first half of `ConnectionsHaveACause`: on a removed device with `left` false nothing
dials or is about to send, no receive thread has closed or failed and no loop runs, so nothing is left
that could connect.
The second half follows from `ServerInv`: of each address at most one connection is
queued or open, and an entry of the table is of its address and was accepted;
`TableInv` bounds the table. `AnswersAreNotMixedUp` needs `AnswersInv`: only the last request can
be without a result (`LastIsOpen`), and an answer that is due or in the inbox belongs to a request
already made, is not both, and has not been taken (`DueIsFresh`, `InboxIsFresh`). An answer taken
by a later request therefore belongs to one that ended without taking it, which
only giving up does.

**`RuntimeProofs`.** `NoRestartWithoutCause`: by `AlarmInv` the silence the checkers see is
no longer than the devices the Qt thread waited for since its last heartbeat.
`RestartsOnce`: by `RestartInv` one checker at a time is awake unless the watchdog was enabled
twice, and the one that started a process stays where it is. `ExitsClean`: `LifeInv` says where
the threads can be, and `CleanInv` what has been stopped at each place of `cleanup()`,
while one thread at most is in it (`ExitInv`). `OldKeepersHaveACause` follows from the types:
what is not the current retention thread has been waited for.

**`AdministrationProofs`.** `AccountsStep` shows that every operation of `Administration` is
a step of the accounts or leaves them alone; on it rest
`AdminIsNeverLost` (with `AdminInv`: whoever has started has a file to read) and
`LockoutAlwaysHolds` (with `LockInv`: an account that is not locked has counted every wrong
password since the last success, and what is locked has answered no more than the
limit). `ConfigurationSurvives` and `SecretsAreKept` share `LossInv`: memory is as the user saved
it, modes switched since excepted (`MemoryKept`), a file that is not about to be written is as memory was (`DevicesKept`,
`AppKept`), and with the key unchanged the secrets are in both, encrypted once
(`SecretsKept`). `RunningAreConfigured` is inductive with the types of
`cause`: what takes a device or its configuration object away stops its collector or is a named cause.

**`ScreensProofs`.** `HistoryKeptAndShownWhole`: `RecordsOK` has the types and
`KeptForTheRetention` with the cutoff the keeper holds. `PagingOK` is the argument that paging is
sound while rows come and go: what was sought and has not been shown comes later in the order
than everything on the pages turned so far (`UnseenComeLater`), so at least as many rows as those
pages hold are before it (`UnseenHaveAPage`), and on the last page none is left; new rows come
first and expired ones go last, which only pushes the unseen back or takes them away.
`WhatIsShownIsTrue`: by `PagesOK` every container on the way from `feed_data` to the screen holds
readings of its device or strays (`PendingHold` and `TakenHold` for what a timer will show);
`MonitorOK` and `LabelOK` do the same for the buttons and the label.
`EntriesAndMessagesShownOnce`: `LogOK` and `DebugOK` say that an entry or message is in one place
at a time (a message that cannot be decoded in `garbled`, an entry below the file's level in `quiet`), the hands of a thread included, and what the end of a walk leaves behind: an entry not
walked is late (`HandedOnce`), no thread holds the list that was walked (`WalkDone`), so that
`clear()` and the next swap lose nothing else.

**Only model-checked.** The liveness properties (`NoEndlessRetry`, `LinkRecovers`,
`Arrives`, `StoppedComesToRest`, `KeepsCollecting`, `Recovers`, `HungIsRestarted`,
`LatestIsShown`, `MonitorCatchesUp`): liveness under fairness and ENABLED are outside what
TLAPS proves.

## 5. What is not modelled

- *What is computed beside a value*: on the default path the moving filters (pipeline.py:116) fill
  `filtered_value` and the event triggers (:127) fire callbacks; neither decides which readings pass.
  Scale and offset are taken as 1.0 and 0.0, for which `_apply_scale_offset` returns without touching the value.
- *Scripts*: a rule with a Lua script (pipeline.py:349) may return any value; the rules modelled
  are those whose effect is in the code.
- *Code that nothing calls*: plugins, hotplug detection,
  `build_write_command`, `build_batch_read_command` and `feed_data` of the protocols, and the
  writes built on them.
- *Contents and wording*: payload layout, statistics, success rates, the operation log, message texts,
  charts, styles, languages and forms (except where a form changes a device or a setting).
- *MQTT*: QoS 0 and 2, TLS settings, retained messages.
- *Cryptography*: a secret is legible or not; key derivation and ciphers are taken to work.
- *Database*: connections of threads, pragmas, indexes, migration; SQLite's locking is taken to work.
- *Publication on demand*: `force_upload_all_points` sends the latest values once more, in a message of
  its own; `OfferedOnce` counts the messages of the rounds.
- *Configuration*: setting a single field by path, templates and groups, which are the same
  read-modify-save as the operations modelled.
- *Management API*: the read-only requests other than the status.
- *Platform*: the operating system's sockets and serial ports, paho and the Qt event loop are
  external, modelled from how the code uses them. A serial port shared by several devices
  is one client; the reference counts of `SerialManager` are left out.

A second instance of some hazards is outside the bounds by choice: one crash per run of the queue, two threads of a kind. Where a theorem exists it covers them (the pipeline has two threads in the
code).

## 6. Plan

The order was by how much depends on a part: messages first, then the link, their
composition, what produces the data, the field, the process, its administration, and
what is shown. Done: all modules of section 2 with their runs; the proofs of section 4.
Left:

1. A composition of `Collection` and `Transport`, with the operations of the one calling connect and
   disconnect of the other, to ask whether a stopped device can keep a port busy.
