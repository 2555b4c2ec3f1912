# StreamMachine: formal models

TLA+ models of StreamMachine (an audio streaming server: one master that
receives sources, slaves that serve listeners, a rewind buffer in each), the
TLC configurations that check them and proofs that TLAPS checks. The models
follow the CoffeeScript sources under `src/streammachine/`, and `PROJECT.json`
maps every definition to the JavaScript in `js/` that they compile to; the entry
points `package.json` names run that. `modes/worker_pool` and `modes/slave_worker` exist as
JavaScript only, and nothing requires them; the pool that is modelled, `modes/slave_backup`, is
required by the compiled mode of that name alone. Names in this text are those of the CoffeeScript.

Node.js runs one callback at a time, so a callback is atomic. What the models
interleave is what the code leaves to a later callback: timers, sockets,
`nextTick`, files, answers of other processes.

## The system

| Component | State it keeps | Operations | What is hard |
|---|---|---|---|
| Source mount (`master/source_mount`) | ordered `@sources`, active `@source`, hooks on it, cached vitals | `addSource`, `useSource`, `promoteSource`, the disconnect handler, `destroy` | a switch waits for the new source's header with an alarm beside it; sources die, are added and promoted meanwhile |
| Sources (`sources/*`, `master/source_in`) | parser, chunk queue, vitals, timers | header, chunk, heartbeat, reconnect, disconnect | timeouts racing data; a proxy reconnecting from several events at once |
| Rewind buffer (`rewind_buffer`, `rewind/memory_store`, `rewind/rewinder`) | chunks by timestamp, maximum, listeners with an offset, the source it is hooked to | insert live, load backwards, truncate, `getRewinder`, `pumpFrom`, `burstFrom` | live and loaded chunks interleave; offsets at the limits; two sources waited for at once |
| HLS segmenter (`rewind/hls_segmenter`, `rewind/hls_index`) | the injector's current segment, the finalizer's list, the id map, the group's minimum | inject, finalize, expire, load a map, dump a map, sync to the group | segments reach the finalizer in two orders; ids must survive a restart and agree between bitrates |
| Dump and restore (`rewind/dump_restore`) | queue of dumpers, each `_active`, `_loaded`, the two files | load, periodic and triggered dump, write then rename | crash between two steps; one failed step |
| Stream (`master/stream`, StreamGroup) | source, rewind buffer, metadata, transcoder | configure, `setMetadata`, restart of the transcoder, destroy | restart racing removal; key changes |
| Master (`master/index`) | streams, groups, mounts, the configuration | create, update, remove, handoff | renames; handoff of many parts with timeouts |
| Master I/O (`master/master_io`), slave I/O (`slave/slave_io`), socket source (`slave/socket_source`) | connected slaves, outstanding polls, the index of the master in use | poll for sync, vitals and rewind requests, reconnect to the next master | lost, late and repeated answers |
| Alerts and monitoring (`alerts`, `master/monitoring`) | per code and key: active, alerted, two timers | update, fire, clear | alert and all-clear timers racing updates |
| Slave (`slave/index`, `slave/stream`, `slave/slave_worker`) | streams, source, rewind buffers being loaded | configure streams, load rewinds, eject listeners, shut down | waiting for loads that never end; ejecting while listeners come |
| Outputs (`outputs/*`), server (`slave/server`) | a client's request, rewinder and pump | serve raw, Shoutcast, HLS, pump | disconnect while the rewinder is being set up |
| Preroller (`slave/preroller`) | ad requests, impressions armed | request an ad, transcode, count an impression, abort | abort racing the ad server |
| Modes and runner (`modes/*`, `runner.coffee`) | worker process, handoff in progress | start, restart with handoff of sockets and data | two processes that each believe the other serves |
| Clustered slave (`modes/slave_backup`, `slave/slave_worker`) | the pool, forked and loaded workers, the server's handle | spawn, distribute a connection, shut down one or all, hand listeners on | exits, loads and failures in any order; a listener on its way from one process to another |
| Analytics (`analytics/*`, `util/batched_queue`) | sessions, timers, a batch | log a listen, end a session, write a batch | finalizing while more listens arrive |
| Parsers, logger, admin API, utilities | | | pure data conversion or I/O |

What makes each correct: a mount feeds its listeners from one source at a time,
changes only to a connected one and finds one when the active one is lost; a rewind buffer is ordered,
bounded and a listener hears the chunks from its burst on in order and once, all but the one that is left out where
the burst ends; segment
numbers are dense and agree; a dump on disk is a complete one; an alert fires
once per outage and is cleared once; a handoff loses no listener; a pool recovers
its strength; slaves and Redis end up with the master's registry; a session's
listens are counted in a document.

## The modules

Read them in this order; each is one component with its state as variables and
one action per callback of the code. `X` is the component, `XMC` gives its
constants values for TLC, `XProofs` holds its theorems (those of `Alerts` are in
`MonitoringProofs`, those of `SlaveStream` in `ListeningProofs`, beside what they carry).

| Module | Models | Its actions |
|---|---|---|
| `ActiveFeed` | what a source mount promises: its listeners are fed by at most one source, changed only to a connected one; it lets go of a source only for another or when no other is connected | `Join`, `Activate`, `Leave` |
| `SourceMount` (+`SourceMountProofs`) | `master/source_mount.coffee`, the source side from `sources/base`, `icecast`, `proxy` | `AddSource`, `EmitVitals` (a header), `FireVitals` (one listener of "vitals"), `Tick` (nextTick), `Alarm`, `Disconnect`, `PromoteSource`, `Destroy`, `CloseNext` |
| `MemoryStore` | `rewind/memory_store.coffee`: operators on sequences of chunks | `Insert`, `Truncate`, `At`, `Span`, `FindTimestampOffset` |
| `RewindBuffer` (+`RewindBufferProofs`) | `rewind_buffer.coffee` and the listener's side, `rewind/rewinder.coffee` | `ConnectSource`, `SourceVitals`, `SetRewind`, `Live`, `Miss`, `LoadHeader`, `LoadChunk`, `LoadEnd`, `GetRewinder`, `PumpOnly`, `Disconnect` |
| `DumpRestore` (+`DumpRestoreProofs`) | `rewind/dump_restore.coffee` | the timer, a dump's open, write and close with their failures, the load, `Crash` |
| `Alerts` | `alerts.coffee` | `Report` (any `update`s of one callback), `FireAlert`, `FireAllClear`, time |
| `Monitoring` (+`MonitoringProofs`) | `master/monitoring.coffee` with `pollForSync` of `master/master_io.coffee`, over `Alerts` | slaves connect, answer and leave; `PollStart`, `PollTimeout`, `ClearGone` |
| `HLSSegmenter` (+`SegmenterInvariants`, `SourceMountProofs`) | `rewind/hls_segmenter.coffee`, its part of the stream group in `master/stream.coffee` | chunks and silences, the load with its map, `Settle`, `GroupMin`, `Dump` (at any time), `Restart` from the last dump |
| `HLSIndex` (+`ListeningProofs`) | `rewind/hls_index.coffee`, what a slave makes of its master's list of segments | the master: `Add`, `Expire`, `LoadSegment`, `Restart`; the slave: `LoadSnapshot` |
| `SlaveStream` | `slave/stream.coffee`, `getRewind` of `slave/socket_source.coffee`, the life of an output | the source and its rewind buffer with every way that can fail, listeners, the poller, `RemoveStream` |
| `Preroller` | `slave/preroller.coffee` | one request for an ad: `Pump`, the answers of its two servers, `Fails`, `Ends`, `TimesOut`, `Leave`, `ImpressionTimer` |
| `Listening` (+`ListeningProofs`) | what composes the last two: `outputs/raw_audio.coffee`, `shoutcast.coffee` with their preroll | `StreamStep`, `DisconnectStep`, `Preroll`, `Direct`, `AdStep`, `Over`, `Overdue`, `Impression` |
| `Handoff` (+`HandoffProofs`) | `runner.coffee`, `modes/base.coffee`, `modes/master.coffee`, `sendHandoffData` and `loadHandoffData` of `master/index.coffee` | the runner, the two processes, their messages and timers, deaths, sources that come and go |
| `WorkerPool` (+`WorkerPoolProofs`) | `modes/slave_backup`, `slave/slave_worker`, the shutdown, ejection and landing of `slave/index` | the pool: `SetUp`, `SetUpFails`, `WorkerLoaded`, `WorkerExits`, `ShutdownWorker`, `ShutdownPool`, `SendHandoff`, `ServerSocket`; a worker: `CreateSlave`, `LoadCut`, `RewindsLoaded`, `Shutdown`, `EjectNext`, `Ejected`, `Exit`; a listener: `Connect`, `Comes`, `Connection`, `ListenerFromWorker`, `LandListener`, `Leave` |
| `Registry` (+`MasterProofs`) | streams and mounts of `master/index` with `configure` of streams and mounts, `redis_config`, the configuration `master/master_io` sends and `slave/index` takes over | `CreateStream`, `UpdateStream`, `RemoveStream`, the same of mounts, `HandoffConfigure`, `Load`, `SendUpdate`, `Saved`; slaves `Connect`, `Register`, `Receive`, `Lose`; `MasterCrash` |
| `Analytics` (+`MasterProofs`) | `analytics/index`, `analytics/idx_writer`, `util/batched_queue` | `Log`, `LatencyTimer`, `Bulk`, `BulkFails`, the answers of Redis, `Sweep`, `TimerFires`, the queries of a session's end, `RequestFails`, `Midnight`, `Crash` |

How state corresponds to the code:

* A JavaScript field is the variable of its name where there is one
  (`sources`, `source`, `lmeta`, `queue`, `working`, `slaves`). A listener that
  waits for an event is a set or a sequence of those who wait (`waiting`), a
  timer is whether it is set or the ticks it has left.
* One callback is one action. Two exceptions: in `SourceMount` the delivery of
  "vitals" to several listeners and the nextTick queue are actions of their own,
  which nothing may interrupt (`Idle`), because each listener's code is the same
  and their order is what matters; in `HLSSegmenter` the "push" of segments runs
  within the action of the chunk.
* A chunk is its timestamp and stream key (`RewindBuffer`), its number
  (`DumpRestore`), or its timestamp alone (`HLSSegmenter`). Audio is not
  modelled.
* Variables marked (history) are what properties look back at; no guard reads
  them.

### How they are composed

`Listening` composes `SlaveStream` with an instance of `Preroller`: the callback of
an ad is the listener's connection to the stream, and outputs that disconnect in
a step of the stream abort their ad in the same step. `Monitoring` is composed
with `Alerts` (it extends it, and its steps are proved to be `Alerts` steps),
`SourceMount` with `ActiveFeed` (a refinement). The others meet at an interface:
`RewindBuffer` takes one source: a stream hands it the mount's. `DumpRestore`
and `HLSSegmenter` see the same buffer through its ends; each keeps the part of
it that matters to it. `SlaveStream` takes `RewindBuffer`'s `GetRewinder` for
granted, `HLSIndex` takes what `HLSSegmenter` says of its list, `Handoff` takes `SourceMount`'s `AddSource` and `RewindBuffer`'s load
for granted. `WorkerPool` is above `SlaveStream` (a listener it lists is an output
there) and below `Registry`, which ends where a slave has its streams.

## What is checked

Every run is `tlc -workers 2 -config <cfg> <module>` with the names `PROJECT.json`
gives; none takes more than two minutes.

| Run | Instance | Shows |
|---|---|---|
| `source_mount` | a fallback proxy that may return with another header, two Icecast sources that may die before theirs; four calls of `useSource` | exactly the active source is hooked (`OneFeed`); list, active source and announcements agree (`ListInOrder`, `ToldTheTruth`); every call is answered, a mount with sources ends up fed, and the mount implements `ActiveFeed`: it changes only to a connected source and lets go of one only for another or when no other is left (`FeedSpec`) |
| `rewind_buffer` | two of three sources, of one stream key or of two, whose clocks may fall back by one, lengths 0, 2 and 3, loads of any key and start; on steady buffers of length 3 and one key a listener with offsets up to 3 and bursts up to 2. Time up to 5 | ordered and bounded (`InShape`); in every state the search by time finds a nearest chunk (`FindsNearest`) and loading the buffer's own dump restores it (`RestoresDump`); as long as clocks ran on and neither key nor length changed (`steady`) there is no hole, and from its burst on a listener hears the chunks in order, none twice, and all but one where its burst ends (`HearsAllOnce`) |
| `dump_restore` | two streams, two chunks, two runs of the timer per life, two crashes, every file operation may fail | one dump at a time works on the queue (`OneAtATime`), a dump file is a whole state of the buffer (`DumpIsFresh`), nothing on disk is lost to a crash unless the timer outruns the load (`NothingLost`), the queue is worked off (`QueueDrains`) |
| `monitoring` | two slaves, three alerts, a wait of three polls | `InTime`; what is announced lasted and what is cleared was calm (`AlertsMeanIt`); `NoAlertForTheGone` |
| `hls_segmenter` | segments of three chunks that begin late if their first chunk is missing by more than one, a buffer of seven chunks, PTS that rolls over after seven, twelve units of time, dumps at any time, two restarts with loads of any length, alone or in a group | numbers are intact and kept over restarts, with three exceptions the code breaks (`NumbersHold`); the discontinuity sequence goes up exactly where a segment does not begin with the end of the window before it (`DiscontinuityAtGaps`); `PTSAddsUp` |
| `hls_twice` | the same | violation: see below |
| `hls_index` | five segments with any gaps, two restarts of the master, snapshots at any moment | while the master's numbers hold a playlist counts from its header, tells of the source's gaps, and what was listed is found (`ClientsAreServed`) |
| `listening` | two listeners, with ads or without, on a stream whose source comes late, fails or is removed | nobody is served while the rewind buffer is loaded (`ServedOnlyWhenLoaded`) or over an ad (`NoAdOverAudio`); who is served stays listed (`ListedWhileServed`); no impression is counted for who has left (`CountedWhilePresent`); whoever asks is served, whatever the ad's servers and the master do (`EveryoneIsServed`) |
| `handoff` | two mounts with their streams, two sources and a fallback, a stream created meanwhile | without a death no port is ever nobody's (`PortsHeld`), sources follow (`SourcesFollow`), neither process waits in vain for the other (`HandoffCompletes`), and after a death somebody serves again (`ServedAgain`) |
| `workers` | a pool of two, one listener's connection, one trouble (a crash, a failed set-up, a worker shut down by itself), one worker at a time whose load is cut | the pool is at strength or a worker is on its way (`SomeoneIsComing`); shutting workers down loses a listener only for a reason named in `LostForAReason`; who waits is handed on unless the load of every worker that could take it was cut (`WaitingAreHandedOn`); a handed-over slave ends (`HandoffEnds`) |
| `registry` | two keys, one of them in the configuration file, one slave, three changes, one crash or lost connection | slaves end up with the registry's streams (`SlavesInStep`); once saves have arrived, Redis has the registry of now (`StoredIsCurrent`); no mount goes while a stream listens to it (`MountsStay`) |
| `analytics` | one session, three rows, batches of two, three days, sessions in memory or in Redis, one failed request or crash | a row is in one place, once (`RowsKeptOnce`); a session that began yesterday or today with listens of these days that no document counts yet is open, being finalized or taken by a named trouble (`NothingForgotten`), and such listens come to be counted, queue and batches empty (`AllRolledUp`) |

### Bounds and why they are enough

* `SourceMount`: four calls are the fewest for a promotion while two additions
  wait, one of which supersedes the other; of three sources one can be active, one
  waiting and one be promoted. Two headers of the proxy let it come back with
  another one once. A source connects once: it is an object, one that returns is
  another.
* `RewindBuffer`: three lengths (none, short, long) are both kinds of change and
  the initial state; five ticks fill a buffer of three and go on; a clock that
  falls back by one reaches equal and older timestamps.
* `DumpRestore`: two streams make a queue, two runs of the timer queue behind a
  running round, two crashes let a dump of a load be loaded again.
* `Monitoring`: two slaves are one before and one behind a silent one; a third
  adds no order that two alerts of a slave do not have. The wait of 9 ticks is
  three polls, so that an alert may outlive one, two or three reports.
* `HLSSegmenter`: of three chunks the first may be late within the tolerance and the second
  beyond it, like the code's three seconds of ten. Twelve units are three segments and what
  comes after them, in a buffer of two segments and a chunk: enough for discarding from both ends and
  for the roll-over; two restarts load what was loaded, or the same old dump twice. A header is read
  within a segment's time (`HeaderTime`); the chunks after it may take as long as there is time.
* `HLSIndex`: five segments make playlists of three and, with a short length of
  one segment, short ones that begin behind the first; a second restart loads what was loaded.
* `Handoff`: one restart. A second waits for the end of the first in the runner.
  The spare process that fails to listen and is started again makes no change.
  Two streams are "the one under way and one still to send"; of two sources on a
  mount one can leave while the other is being sent.
* `WorkerPool`: with a pool of two one worker can leave while the other takes its
  listeners, and both can be on their way; one listener shows every path of a
  connection, since connections meet only in the sets the pool counts, which the
  theorem covers for any number.
* `Registry`: three changes are the fewest that create, rename and create again
  under the old key (or give a mount a stream, rename it and remove it); two keys make a
  rename meet a key that is in use. Slaves do not affect one another: one shows
  what any of them is told.
* `Analytics`: three rows are a start, a listen in the first batch and one beyond
  it. A session that is finalized can be
  logged to and finalized again. On the third day (`MaxDay`) what was logged on the first is
  out of reach. One session is enough for progress, since sessions meet only in batches and
  sweeps, whose order is free; the theorems give both invariants for any number.
* `MaxTs`, `MaxTime`, `MaxChunk`, `MaxAttempts`, `MaxVitals`, `MaxTrigger`,
  `MaxCrash`, `MaxRestart`, `MaxSegment`, `MaxList`, `MaxChanges`, `MaxLogs`,
  `MaxTroubles` and `MaxMishaps` are the only bounds in guards. `CHECK_DEADLOCK FALSE` is everywhere: at a bound, or once everything is closed, the instances
  stop.

### Fairness

Liveness is checked under these assumptions and no others.

* `SourceMount`: a callback that runs goes on to its end, the nextTick queue
  drains, a set timer expires; a source that is up sends its first header.
  Icecast sources have a timer of their own that ends them if they do not (which
  is `Disconnect`, and not fair: `SourcesFeed` excepts sources lost before their
  header, see below).
* `DumpRestore`: file operations end, well or not; sources, timers and crashes
  are not fair.
* `Listening`: `_sourceInitT`, `getRewind`'s timer and the preroll's two seconds run
  off; a request is taken up in the next tick; a load whose connection stays ends.
  Whether the master or an ad's server answers is open.
* `Handoff`: either process takes its messages, the new one's `handoff_timer`
  runs off, the runner hears of exits and the process it starts gets to listen
  when the ports are free. That anything is restarted, dies or times out is not
  assumed.

* `WorkerPool`: messages between processes arrive, a worker's streams load unless the load
  is cut (a source that does not come has a time limit; a load that loses its connection
  has none, nor has a configuration that does not come), exits are noticed. Nobody has to connect, leave or
  ask for anything, nothing has to fail.
* `Analytics`: timers run off, Redis and Elasticsearch answer. A day need not end.
* `HLSIndex` and `Registry` are checked for safety only: that its messages arrive is what "nothing
  on its way" in the properties of `Registry` stands for.

## What is proved

`tlapm` proves, for every value of the constants that meets the assumptions
below (so for any number of sources, slaves, listeners and streams, any wait and
any bound):

| Module | Theorems |
|---|---|
| `SourceMountProofs` | `TypeCorrect`, `OnlyTheActiveSourceFeeds` (`OneFeed`), `ListInStep` (`ListInOrder`), `AnnouncementsAreTrue` (`ToldTheTruth`), `ImplementsActiveFeed` (`FeedSpec`); of `HLSSegmenter`: `PTSGoesOn` (`PTSAddsUp`), `DiscontinuitiesAreGaps` (`DiscontinuityAtGaps`), `NumbersAreHeld` (`NumbersHold`, if a dump's header is read in time and the buffer holds more than a segment) |
| `RewindBufferProofs` | `TypeCorrect`, `BufferInShape` (`InShape`), `NewestIsKept`, `AllIsHeardOnce` (`HearsAllOnce`), `SearchesFindTheNearest` (`FindsNearest`), `DumpsRestore` (`RestoresDump`) |
| `DumpRestoreProofs` | `DumpsRunOneAtATime` (`OneAtATime`), `DumpsAreFresh` (`DumpIsFresh`), `NothingIsLost` (`NothingLost`) |
| `MonitoringProofs` | of `Alerts`: `TypeCorrect`, `NothingOverlooked` (`InTime`), `AlertsAreMeant` (`AlertsMeanIt`); `MonitorsAlerts` (the watch over slaves implements `Alerts`), from it `SlaveAlertsLasted` (`InTime`), and `NoneForTheGone` (`NoAlertForTheGone`) |
| `ListeningProofs` | of `SlaveStream`: `TypeCorrect`, `ServedAreListed` (`ListedWhileServed`), `NotServedEarly` (`ServedOnlyWhenLoaded`); `ImplementsStream` (with prerolls a stream still implements `SlaveStream`), `ListeningTypeCorrect`, `NoAdDuringTheStream` (`NoAdOverAudio`), `CountsThePresent` (`CountedWhilePresent`), `AbortedNeverCounts`; of `HLSIndex`: `ClientsStayServed` (`ClientsAreServed`) |
| `HandoffProofs` | `TypeCorrect`, `NeverUnheld` (`PortsHeld`), `AccountKept`, `AllSourcesFollow` (`SourcesFollow`) |
| `WorkerPoolProofs` | `PoolRecovers` (`SomeoneIsComing`), `LostOnlyForAReason` (`LostForAReason`) |
| `MasterProofs` | of `Registry`: `InOrder`, `SlavesAreInStep` (`SlavesInStep`), `RedisIsCurrent` (`StoredIsCurrent`), `RegistryIsTyped`, `MountsAreKept` (`MountsStay`); of `Analytics`: `RowsAreKeptOnce` (`RowsKeptOnce`), `NothingIsForgotten` (`NothingForgotten`) |

Assumptions are on constants only: `SourceAssumption` (proxies and parsed
sources are sources, `None` is not), `RewindAssumption` (every source has a key;
lengths and bursts are natural numbers, offsets integers), `AlertsAssumption` (a positive wait),
`MonitoringAssumption` (a poll ends before the next begins, and before the
alerts of a slave that left in it are cleared: 10 s between polls and 3 s until the clearing
against a poll's 1 s in the code), `DumpAssumption`, `SegmenterAssumption` (segments and a buffer of at least one
chunk, a PTS that rolls over after more than a segment, `Unset` neither a number nor a set of
times), `SizeAssumption` (a pool of at least one), `RegistryAssumption` (finitely many keys, `NoKey` not among them), `AnalyticsAssumption`, `IndexAssumption`, and `SourceAssumption` of
`Handoff`. TLC evaluates them in the runs. One theorem, `NumbersAreHeld`, has more, as
hypotheses of its own, each of which the run `hls_segmenter` meets: `HeaderInTime` (a dump's header is
read before the source has sent a segment's worth of chunks: it is the first thing in a local file, and a
segment is ten seconds; the code waits for it until a second after the first segment, lines 48-53 of the segmenter),
`Capacity > Length` (a buffer of hours against segments of ten seconds) and `UnsetIsNoRecord` (the
value for what is not there is no record). How late a segment may begin, how old a dump is and how
long a load takes are free.

Each proof of an invariant has the same shape: a strengthening that is
inductive, one lemma per action that it is kept, and the theorem by PTL.

* **SourceMount.** What makes `OneFeed` inductive is what the calls of
  `useSource` that wait remember. A waiting call holds the source it found
  active (`old`); it switches only if that is still the active one, so unhooking
  `old` unhooks what is hooked. `WaitersOk` says that a call waits for a
  connected source without a header (or with one being announced) which is not the
  one it found active, `FiringOk` the like of a delivery that is under way,
  `ActiveKnown` that the active source was added and has its header, `ClosingOk` that `destroy` goes through
  each source of the list once, and `Announcing` that the queued announcements
  end with the active source. Refinement of `ActiveFeed` rests in
  `Leave` on `ListsTheConnected`, the half of `ListInOrder`: what is taken over is in the list, hence connected.
* **RewindBuffer.** `Ordered` and `Bounded`, the parts of `InShape`, follow from lemmas about
  `MemoryStore` (`InsertKeeps`, `TruncateKeeps`), which hold for any sequence;
  `LoadHasKey` links a load to the key the buffer has.
  `AllIsHeardOnce` rests on `SInv`. The buffer changes at its ends only: a live chunk is
  the newest and may push out the oldest, a loaded one becomes the oldest or is left
  out. `Accounted` says that every time so far was missed, is in the buffer, or is older
  than all of it; `LoadFills` that between the next chunk a load reads and the oldest one
  there is nothing but what was missed, so that what it adds leaves no hole;
  `FirstSource` that as long as nothing was loaded and there is one source nobody can
  have missed a chunk the buffer lacks. `Follows` puts a listener's offset at the place of
  the chunk it was handed last, or right behind that of its burst's last one, which is the
  chunk it never gets: a live chunk moves both by one, unless the place before the
  first is pushed out, which is when the listener is handed `undefined`.
  `SearchesFindTheNearest` needs that chunks of an ordered buffer do not overlap (`Apart`) and
  that the first place not older than a time exists and is unique (`PlaceIs`); the rest is a
  comparison of distances to the chunks on either side (`SearchFinds`). `DumpsRestore`
  follows a load chunk by chunk: with `l` live chunks before it, `i` chunks of the dump
  leave the store with the `l` or the `i` newest of them, whichever are more, cut to
  the maximum (`Reads`, `LoadReads`). `Loaded` is a recursive function, and the argument is
  by its closed form and the least place where the two could differ (`LoadedIs`).
* **DumpRestore.** `Recent` keeps, of a dump at work, that what it writes is a state the
  buffer was in since the dump began: a crash between write and rename leaves the older
  file. `ComesBack` says, as long as no dump was made before the load was done, that what
  was on disk at the crash is in the buffer or yet to be read, and older than all that came
  live, so that the buffer takes it in at its far end; `InTurn` that one file is read at a time, in order.
  `OneAtATime` is an invariant of the queue by itself: it counts the dumps that will call back,
  neither loads, which go on beside them, nor dumps that failed in writing.
* **Alerts.** `AllLinked` ties each timer to the history clock of its
  condition: a timer has `Wait - up` ticks left. `Monitoring` inherits the
  properties since each of its steps is one of `Alerts` or leaves it alone.
  `NoneForTheGone` needs `WInv`: a poll that is out has less time left than a
  slave that left during it has until its alerts are cleared.
* **SlaveStream.** `LoadingInits`: while a rewind buffer is loaded in time the
  stream is initializing, so that whoever comes waits.
* **Listening.** Each of its steps is one of `SlaveStream` or leaves it alone, which
  carries that module's invariant over. `InFlightWaits`: an ad in flight is that of
  an output that is created and still there, so that its callback can connect it;
  `ImpressionOK`: an impression is that of an ad that is over, and is armed only for
  a listener who is there.
* **HLSSegmenter.** `InTime` links each listed segment's PTS to its neighbour's, and the last
  one's to the PTS kept for the next: each way a segment is added at either end keeps
  that, and so does the removal of any at the front. `WriteAll` is a recursive function,
  and what holds for one write holds for all by the least write after which it would not.
  `DiscontinuitiesAreGaps` is about the two sequences the finalizer counts: `discontinuitySeq` is
  that of the last segment of the list (`Consistent`), whatever is done, but `discontinuitySeqR`
  is that of the first only as long as nothing was removed at the front since it was made
  (`Whole`), as no removal sets it. A segment put at the front after one is off by as many
  gaps as were removed. So the invariant has to say why none is put there any more (`Fits`):
  no number comes from a map, without which segments go to the end only; or the group's
  minimum is past all that the injector holds at the front, and moves forward only (`Cut`); or
  the load is over. While one goes on nothing else is removed at the front: a loaded chunk that
  is too much is dropped itself, before its segment is pushed, and that a live one pushes a chunk
  out is the exception the property makes (`crowded`). `Placed` keeps what is still to be loaded
  before all that came. A finalizer that is made begins with the two sequences equal, whatever waits to
  be written to it (`WrittenFits`).
  The invariants are those of `SegmenterInvariants`. `NumbersAreHeld` needs to know what was ever listed, over restarts (`Given`). `Numbering`
  says that numbers grow with time and that none below the next is missing, and that list and map
  are part of that; `Contiguous` that the list has everything numbered from its first segment on. A
  new number is the next one, so what has to be excluded is that a segment without one is listed
  before one that has one. It could be if a numbered segment were out of the list for no reason:
  `Accounted` says that it has lost chunks to the buffer's limit, or has chunks the load has yet to
  read and a place in the map, or was pushed out in the middle of a load. Or it could be if a segment got complete late: `Below`, `Middle` and
  `LastQueued` say that what the buffer has in full before the newest numbered segment has a number
  or a numbered segment between, and `LastIsFull` and `TopIsFull` that the newest one is complete, so
  that the live end adds behind it only. `Newest` and `Reached` keep the buffer from running empty
  below what is listed, which is where `Capacity > Length` comes in, `InPast` puts all of that before
  the clock, `Used` keeps the two ends of a load from being written before it is over, and
  `MinPlaced` keeps the group's minimum from going past the last segment. A restart begins with the
  last dump, of whatever age: `DumpHolds` says of it, with what had been listed by then, what these say of a
  process that has just begun to load. All of it holds until
  another bitrate moves the minimum (`group = "moved"`), a map is loaded that was written under another
  time than it will be read by (`astray`) or a chunk is pushed out during a load (`crowded`), which are the
  exceptions that `NumbersHold` makes itself.
* **HLSIndex.** `MasterInOrder`: as long as the master keeps its numbers they go up with
  the names of its segments, what is still to be loaded comes right before the list, and the
  sequence of discontinuities moves exactly at gaps, at either end of the list. So an entry
  made from any snapshot is the one that any other would make (`EntriesAreTrue`), and
  whether the slave made it before or makes it now is the same.
* **Handoff.** `SocketsConfirmed`: a confirmation under way to the old process, or
  counted in `acked`, is for a socket the new process listens on, unless
  that has died. `OldSentSocket` lets the old process exit only when both are
  in `acked`.
  For the sources, both processes run one conversation each about sources and about rewind
  buffers. `OneAtATime` says that each has one message under way at most, `Counted` that the old process counts a
  part as done only when nothing of it is under way, and `NotBegun` that nothing is before the new
  process was configured. So the sockets, and with them the exit, come after both parts.
  `Tracked` is the account of a source that was there when the old process began: it is on
  a list still to be sent, in the one message under way, or has followed (or has left).
  This is kept only while both live (`FInv`): a process that dies takes its messages with it.

* **WorkerPool.** `AtStrength` is kept because every step that takes a worker out
  of the pool ends in `_spawn`, which forks one if the pool is short (`SpawnFills`);
  `Waits` because a worker that loads takes everyone who waits, and a connection
  waits only if no worker is loaded. Most steps touch neither (`Alone`).
  `LostOnlyForAReason` needs `Known`: where a listener can be, given what its worker has gone
  through. A worker that leaves has each of its listeners in the queue of its ejection, or
  has missed it, and answers only when that queue is empty.
* **Registry.** What a slave is told and what Redis is told are queues, and the
  invariant is about their ends: the last configuration under way, or if there is none the
  one that has arrived, is the one the master has cached (`ToldInOrder`) and the one the
  registry gives (`SavedInOrder`). Nothing is required of what is between. A registry that has not heard from Redis
  is empty, so that the answer cannot undo anything, unless it is `strayed`.
  `MountsAreKept` is about what a step computes: `configure` goes through sets of mounts and
  streams with a fold. `PassKeeps` states the rule for it once (what one turn keeps the whole
  fold keeps), from the fold's defining equation and the least number of turns that would not.
  With it each step keeps the registry well-formed (`Registered`: what it refers to is an
  object it has) and keeps the mounts that are listened to (`Needed`), given that each is
  registered under its own key.
* **Analytics.** `Shared` splits the rows into those that wait at Redis, are held in the queue
  or a batch, are indexed, or are given up, and `Flow` and `Commands` say that no queue has a
  row twice; that a new row is none of these comes from its number (`Numbered`).
  `NothingForgotten` looks at what is indexed, and a row gets there long after it was
  logged. `Awake` covers the time between: a session with rows that are not indexed has a
  timeout that is not due, or one is on its way to Redis behind the removal that could take
  it. Days only take listens out of reach, never into it (`UncountedFewer`). Neither theorem
  needs `AnalyticsAssumption`.

Only model-checked:

* Liveness (`EveryCallIsAnswered`, `SourcesFeed`, `QueueDrains`, `EveryoneIsServed`,
  `HandoffCompletes`, `ServedAgain`, `WaitingAreHandedOn`, `HandoffEnds`, `AllRolledUp`), which
  these provers do not do under fairness, nor `ENABLED`.

Every invariant that a passing run checks is stated by a theorem. TLC refutes `NumbersHold` without
`HeaderInTime` (segments of two chunks, `HeaderTime = 6`, `MaxTime = 12`): a finalizer that has its first
segment before the header counts from 0 (`Loads` is the invariant that excludes it).

## Where the code does not do what it says

One run ends in a violation of what a comment says, which `PROJECT.json` quotes.

* `hls_twice`: segments flushed at the end of a load are pushed again after
  their data was deleted, and the finalizer throws.

Formulas that the modules state without a run, each of which TLC refutes, in the
same instances where no other is named:

* `SourceMount`: `SecondTakesOver` (if the first of two sources leaves before its header, the
  second, which has its own, is not taken, and the mount is without a source;
  `test/master/source_mount.coffee:84` "switches to the second source if the first disconnects") and
  `AlreadyActiveIsActive` (`promoteSource` compares with the head of the
  list, which is not active before its header).
* `RewindBuffer`: `PumpsMostRecent` ("pump the most recent X seconds", `rewind_buffer.coffee:336`:
  `pumpSeconds` leaves out the newest chunk, which a listener with a burst never hears),
  `NoUndefined` (an offset equal to the buffer's length is granted, and a
  listener is handed `undefined` once the buffer is full; `pumpSeconds` of as much hands over nothing), `OneKey` (a load that
  begins after the source's header sets its own key; the source's chunks go in
  beside it).
* `DumpRestore`, `DumpEnds` under `FairSpec`: `BackUpToSpeed` (the timer runs off before the load: the dump of a
  buffer that is still empty removes the one on disk), `WrittenAsAWhole` (a dump that
  failed while writing is renamed all the same), `DumpEnds` (a dumper whose file
  could not be opened or renamed stays active for ever), `NoDumpWhileLoading` (a dump
  whose file is being opened when the load begins takes its snapshot during it).
* `Monitoring`: `UnresponsiveIsTrue` (the loop over a poll's answers breaks at the first
  silent slave, so that one behind it is announced although it answers again).
* `SlaveStream`: `BehindAreGone` (a listener that leaves while it waits for the source is
  served after it left, and the poller of buffer sizes never gets rid of it).
* `Registry`: `StreamsAreProxied` (a renamed stream is broadcast under its old key, which
  no slave knows it by).
* `Analytics`: `AllListensCounted` (one session, two rows, no trouble: a session that began before
  yesterday has no start when it ends, since only the indices of two days are searched, and none of its
  listens is counted, against `ANALYTICS.md:35`) and `EmptyAreTossed` (a session without a single listen is stored instead of
  tossed, since the row of its start counts as one).
* `HLSIndex`: `ListedAreCurrent` (after a crash, whose dump is older than the last
  segments, numbers are given anew, and a slave that lived on goes on to list and pump
  the old segments under them), `ShortIsTrue` (the short playlist is cut from the
  entries by a position that counts segments, so that it lacks the first two and is empty
  when there are four segments or less, which makes its writer throw), `NoHeaderAlone`
  (with less than three segments the index goes and the header stays, and a request
  for the playlist throws).
* `HLSSegmenter`: `GapsAreTold` (with one restart: the end of a segment's audio is kept as `end_ts_actual`
  and read as `ts_end_actual`, so that audio that stops early is no discontinuity, while
  `test/hls_segmenter.coffee:186` "creates a discontinuity when given a gap". `DiscontinuityAtGaps`
  is about the windows' ends for that reason).
* `HLSSegmenter`, against "we're checking to make sure that our snapshot numbering is intact"
  (`test/hls_segmenter.coffee:475`): `IntactAfterLate` (segments of two chunks, no tolerance, a buffer of six,
  `HeaderTime = 2`, nine units of time, one restart: a segment whose audio begins late in its window is
  dumped with its number under that time and looked up after the restart by the begin of its window, so
  that it is thrown out or numbered anew) and `IntactAfterCrowding` (segments of two, a tolerance of
  two, a buffer of four, `HeaderTime = 2`, eleven units, one restart: a live chunk that pushes another out of a full
  buffer while the buffer is loaded expires a segment, and an older one is put at the front afterwards.
  It takes a load during which the source sends so much
  that all chunks of that older segment are dropped as they are read, and one chunk more).
* `HLSSegmenter`: `NoneOutOfPlace` (without a map, the segments that came live are
  numbered before the older, loaded ones, which are dropped), `NoneBelowMin` (a segment
  that is pushed after the minimum has passed it is listed below it) and `PTSKept` (the
  PTS of a segment that is loaded counts on from where the old process had come
  to, so that it differs from the one it was listed with). Once another bitrate has
  moved the group's minimum numbers may change too, which is why
  `NumberingIntact` and `NumbersKept` except that.

Read in the code while modelling, and described here so that the models' choices
make sense:

* `SlaveStream`: removing a stream drops the listeners that wait for it without
  an answer, and so does a connection lost during the load (`cut`): `EveryoneIsServed`
  excepts both.
* `Preroller`: a wrapper without an ad makes `_requestCreative` throw in the ad
  server's callback (`stuck`). A clustered slave worker logs that and goes on, and the
  request's timer lets the listener through; in the standalone mode, which the
  model leaves out, the process ends. The two seconds include the time the listener
  takes to receive the ad, so that a slow one has it cut off. An answer of the
  transcoder that breaks off ends like a whole one, and is counted.
* `Handoff`: `_startUp` of the runner names `worker`, which is not defined, so
  it takes any process for gone and spawns another; `_inHandoff` stays true when
  the new process dies, so later restarts are refused. When the old process
  dies in the middle the new one waits for ever, and the runner is content
  (`Abandoned`, which `ServedAgain` excepts). The new process dies of a source
  whose socket has gone since the snapshot, of a fallback source (it has no
  type that could be loaded), of a source on a mount created after the
  configuration was sent, and of a rewind connection that comes late.
* In the standalone mode the handoff names `RPC` without requiring it.
* `WorkerPool`: a worker whose load was cut never reports (`LoadCut`): the pool counts it as
  coming, starts no other for it, and if it is the only one connections wait for ever,
  which `WaitingAreHandedOn` excepts. A worker's "connection" calls `slave.server.handle`, which the server
  does not have, so a connection is lost when it gets there (`Connection`). The
  error of a worker's set-up names `worker`, which is not defined there, and the process
  dies. A refused "shutdown" (one is under way) and one that errs drop the callback the
  pool's shutdown counts, which then never ends: `HandoffEnds` excepts it. The ejection
  goes through a snapshot, so listeners that are listed later stay with the worker and
  end with it (`missed`). `_spawn` counts only workers that are set up, so the pool may
  hold more than its size, and a worker that loads during the shutdown makes it spawn
  another. Nothing requires `slave_backup` but the compiled mode of that name.
* `Registry`: `configure` of a stream sets its key to the one in its options, which
  a stream of the configuration file does not have; removing such a stream deletes
  nothing from the registry. Renaming a mount leaves the key the mount keeps as it
  was, so that removing it later may take another mount out (the premise of
  `MountsStay`). What `updateMount` emits nobody listens to, so that it is not saved.
  A change made before Redis has answered is undone by the answer, and has overwritten
  what Redis kept; a handoff's configuration is saved in parts (`strayed`, which
  `StoredIsCurrent` excepts). A renamed stream without a `source` has another mount after
  a restart. The stream group and the slave wait for events by names nobody emits
  ("disconnect" of a stream, "disconnected" of the slave's connection). A master
  that never was configured tells its slaves nothing.
* `Analytics`: a stored session has no type, so that the query for the one before
  finds none and a session that goes on is counted from its start again in each
  document. `_selectSessionStart` calls nobody back if it finds nothing
  (the session is given up, as if it were tossed). Open sessions kept in memory are
  lost with the process. In Redis the removal of a session can follow, and take away, a
  timeout that is newer than the sweep (`robbed`). The indices of a time range that
  crosses midnight and is shorter than a day lack the first day (`countListeners`). Short
  sessions are stored like others, although `ANALYTICS.md` has "If delivered duration is less
  than one minute, ignore the session".

What the models take from outside the repository: requests and answers of
`ipc-rpc` arrive in order and once; an exception in one of its handlers ends the
process, as in any Node callback; the `binary-search` package returns the
insertion point as its documentation says. A `GO` that is sent before the new
process has its handler is taken to be kept by the channel. Redis answers commands in the
order they were sent. A row can be found once its batch is indexed, and the time a
session has to be silent is long against that (`Settled`); one sweep is out at a time,
`finalize_secs` is positive and the batched queue never pushes back.

## What is not modelled

* Formats: parsers of MP3 and AAC, headers and metadata of listeners, playlists,
  the admin API, log lines, Elasticsearch templates, the format of the Redis configuration.
* With state worth checking: the proxy's reconnects and the sources'
  heartbeat, the frame chunker, the transcoder's restart, the membership of the
  stream groups, the choice of the next master by `slave_io`, the snapshots'
  debounce, the status poll of the worker pool.
* `modes/worker_pool` and `modes/slave_worker` are an older copy of the pool and its
  worker that nothing requires.
* Details left out of the components that are modelled are named in
  `PROJECT.json`, under each one's note.

## Plan

Done: the table above. In order of importance:

1. Sources: `ProxySource`'s reconnects and the heartbeat as an environment of
   `SourceMount`.
2. `slave_io`'s choice of a master, composed with `Registry`.
3. The stream group composed of several segmenters, and `HLSIndex` with it.
4. `Handoff` composed with `DumpRestore` (a handshake that failed loads dumps at a
   later configuration).
