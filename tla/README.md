# Aurorix Core in TLA+

Models of the concurrent and stateful parts of Aurorix Music, the TLC runs that
check them, and the theorems TLAPS proves about them. Paths below are relative
to the repository root; `core/` stands for `src/core/` in `PROJECT.json`.

Contents: [the system](#the-system) · [inventory](#inventory) ·
[modules](#modules-and-the-code-they-model) · [runs](#runs) ·
[proofs](#proofs) · [findings](#findings) ·
[what is left out](#what-is-left-out) · [plan](#plan)

To check a run: `tlc -workers 2 -config CoreHost.cfg CoreHost`.
To check the proofs of a component: `tlapm HostPlatform_proofs.tla`.

## The system

Aurorix is a local-first music player. A shared Rust Core owns the playback
session, the queue, the presentation clock, the local catalog and the device's
part of synchronization; a Windows client (C#, WinUI) drives it through a C ABI.
Android, server, web, extension host and UniFFI are stubs.

```
 Windows client (C#)            managed handle, event pump, media controls,
        |                       scan gateway, extension registry
        | C ABI                 aurorix-ffi-c: client, workers, callbacks
        v
 CoreHost (aurorix-runtime)     one host per process, callback fence, shutdown
   |              |
   |              +-- AurorixDatabase (aurorix-storage): catalog, statistics,
   |                  migrations, sync outbox  <-> reducer (aurorix-sync)
   v
 playback (aurorix-playback)    session + queue + request ledger + clock,
   |                            joined by the offline pipeline
   v
 audio (aurorix-audio)          decoder worker -> ring of PCM blocks -> realtime
                                consumer -> clock cell; seek, recovery
   v
 aurorix-audio-windows          shared WASAPI output
```

Three styles of code meet here, and each has its own kind of mistake:

* *state machines behind `&mut self`* (session, queue, pipeline, reducer): no
  data race, but late or repeated worker answers, long legal call sequences that
  end where no test went, and derived state (the queue's order, the PCM buffer,
  the active token) that some path forgets to bring up to date;
* *threads* (runtime host, FFI client, ring, realtime cells, media controls):
  lock gaps, flags with several writers, a fence against endpoints that come at
  the same moment, waits with a timeout;
* *durable state and an unreliable network* (outbox, migrations, scans,
  statistics): retries, duplicates, results out of order, a history that is over.

## Inventory

State, operations, what is hard, and what makes it correct. The last column
names the modules.

| Component | State | Operations | Hard part | Correct when | Module |
|---|---|---|---|---|---|
| Playback session (`aurorix-playback/src/session.rs`, `command.rs`, `clock.rs`) | state, current item, clock, version, buffer generation, pending operation, active token, request ledger | `dispatch` of ten commands, `handle_worker_event` of seven, `record_rendered_frames` | answers of workers that come late, twice, or after a pause, stop, cancel or newer command | stale answers are inert, no wait is ownerless, outcomes are final, time is continuous | PlaybackSession, RequestTracker, PresentationClock, CommandLedger |
| Queue (`queue.rs`) | items, order, current, position, shuffle, seed, repeat, threshold | replace, append, insert, remove, move, clear, shuffle, repeat, select, advance, previous | order and indexes are derived by hand on every mutation | the order is a permutation, the current track survives, nobody loses its turn | PlaybackQueue, QueueCalls |
| Offline pipeline (`pipeline.rs`) | session, queue, decoder, PCM buffer, end-of-stream flag, internal ids, active worker token | commands, `pump_worker`, `render`, intents | session, queue, decoder and buffer are four states one call keeps in step, and any of its steps may fail | only frames of the current operation, at the clock, to the end of the track | OfflinePipeline |
| Runtime host (`aurorix-runtime/src/lib.rs`) | `HOST_ACTIVE`, lifecycle, services lock, fence, operation registry | start, access, register/cancel, enter/leave, shutdown, drop | shutdown against accesses, callbacks, registrations and itself | nothing runs in a stopped host, one host at a time, shutdown returns | CoreHost |
| Audio ring and realtime consumer (`aurorix-audio/src/buffer.rs`, `realtime.rs`) | slot states and blocks, generation, reset flag, entry count, endpoint cursors, active block | acquire/publish/abort, render, reset, advance generation | three kinds of threads and no lock between them | no slot is cleared in use, no retired frame is heard, frames follow each other | AudioBuffer |
| Realtime ports (`realtime.rs`, compact clock, underrun and fault cells) | seqlock clock, underrun and fault cells | publish, read, take | readers overlap the writer | a reader sees one publication, no underrun is lost | RealtimePorts |
| Decoder worker, seek, recovery (`decoder.rs`, `seek.rs`, `recovery.rs`, `source.rs`) | worker state, generation, seek ledger, recovery phases | step, pause, cancel, seek, close; recover | three generation counters; a seek that fails half-way; a token set from another thread | what is accepted of a generation is one run of frames, an end is the end, underruns are accounted for once | DecodePath, RecoveryCoordinator |
| Codecs (`decoders/`) | packets, pending frames, position | open, decode, seek, close | pre-skip, padding of the last packet, seeks that land early | every frame once | Codecs |
| Shared and exclusive output (`aurorix-audio-windows`, `output_report.rs`) | endpoint, stream, lifecycle, clock, report | open with fallback, start, stop, render event, device change | frames taken from the ring when the write fails | the clock covers what the endpoint got, the report claims no more than that | SharedOutput |
| Playback policies (`failure.rs`, `transition.rs`, `playback_facts.rs`, `queue_policy.rs`) | prepared transition, fact ledger | decide, prepare, commit, finalize | decisions made on copies of the queue | agree with session and queue | QueuePolicy, QueueCalls |
| C ABI client and managed client (`aurorix-ffi-c`, `Interop/AurorixClient.cs`) | client handle and its references, shutdown flag, workers and their join handles, callback contexts | create, call, subscribe, close, shutdown, dispose | a disposal in the middle of calls and callbacks; join handles that several callers want | no call on a freed client, no callback after its fence, every call answered | FfiClient, FfiBoundary |
| Wire codec (`aurorix-ffi-c/src/transport.rs`) | none between calls | encode, decode, validate seventeen kinds of message | limits and defaults differ between the two directions | what one side sends the other reads | WireCodec |
| Sync (`aurorix-sync/src/reducer.rs`, `aurorix-storage/src/sync_apply.rs`, `sync_schema.rs`, `sync_state.rs`) | history, canonical state, retained results; outbox rows, archive, cursor | reduce; enqueue, apply a result | lost, repeated, reordered results; a server that lost its history | what is acknowledged was committed, once and for all | SyncReducer, SyncStore, SyncLoop |
| Sync outbox in memory, snapshots (`aurorix-sync`) | outbox state machine, chunk list | transitions, chunk checks | same promises as the store, implemented twice | agrees with the store; a snapshot is taken whole or not at all | Outbox, SyncSnapshot |
| Scans (`aurorix-library`, `scan_observation.rs`) | assets with their state and the scan that saw them | classify, observe, probe, sweep, finish | probes and sweeps in transactions of their own, scans that overlap or fail | the newest scan that spoke of an asset decides what it is | ScanOrchestration, Catalog, LibraryCatalog |
| Play statistics (`stats_aggregator.rs`) | applied-facts ledger, aggregate | apply, rebuild, clear | retries and rebuilds | each fact counts once | Catalog, LibraryCatalog |
| Migrations and database (`migration.rs`, `database.rs`) | ledger, tables, rows, one writer | open, migrate, read and write transactions | a crash between two migrations, two processes of different versions | the schema is what the ledger says | LocalDatabase |
| Media controls (`WindowsMediaControlGateway.cs`) | last snapshot, progress watermark, projection applied | accept, sample, flush | out-of-order snapshots and progress, a sink that throws | the display never goes back, and converges | MediaControls |
| Windows scans (`WindowsScanGateway.cs`) | sessions, stack and visited set of each walk | start, cancel, dispose, walk | cancel and dispose in the middle, roots inside roots | each path is told once, none is left out | WindowsScan |
| Extension registry (`Extensions/`) | manifests, enabled flags | register, enable, dispatch | dispatch outside the lock | only what was offered is dispatched | ExtensionRegistry |
| Windows shell | view models, theme | UI events | one thread | debouncing loses no save | at most a small module |
| Catalog rows, search, value types | none between calls | pure functions and SQL | - | - | not modelled |

### How they interact

* A **command** enters the session under a request id chosen by its caller. The
  session answers with at most one *worker intent* carrying a token (request,
  revision, buffer generation). The worker's answer comes back as an *event*
  with that token. Everything the session promises hangs on which tokens are
  still current.
* The **pipeline** is the only worker there is yet: it executes intents itself,
  inside the call, and feeds the events back. It adds commands of its own (stop
  and play for a queue transition) under ids it makes up.
* The **ring** is filled by the decoder worker and emptied by the output
  callback; a coordinator retires a generation by clearing the ring between them.
* The **host** wraps the services in a lock, and callbacks in a fence that
  outlives the host.
* The **store** and the **reducer** meet over a transport that is not written
  yet; what is documented of it is that it retries and that results may come
  late or more than once.

## Modules and the code they model

Every definition that models code has its source lines in `PROJECT.json`, "map".

### PlaybackSession, RequestTracker, PresentationClock, CommandLedger

`PlaybackSession` is `PlaybackSession` of session.rs. One action per command
(`DispatchPlay` ... `DispatchQueueCommand`) and one per worker event; the helper
calls the code makes on the way (`begin_operation`, `boundary`, the ledger's
`record`, `mark_applied`, ...) are operators, so an action is the whole handler.
`RequestTracker` is the ledger of command.rs as a record and operators on it,
`PresentationClock` that of clock.rs. Positions are frames; base and position of
an epoch are kept, wall-clock time is not. `update` holds what the last call
returned, because the pipeline acts on it. `issued` and `retired` are history
variables: tokens handed out, and those handed out before the session last moved
on. A worker is *anything*: it may report any event with any issued token.

`CommandLedger` is the abstract specification: a request is unseen, pending,
applied, rejected or cancelled; at most one is pending; it is settled once. The
session implements it (`ImplementsLedger`).

### PlaybackQueue, QueueCalls, QueuePolicy

`PlaybackQueue` is queue.rs as pure operators from queue to queue (the pipeline
uses the same ones); `QueueCalls` makes each public method an action.
Fisher-Yates is modelled as written; splitmix64, a pure function of the seed, is
the constant `Draw`, a table of its real first outputs for the seeds used.
`Without` is the `retain` of a removal, as a recursive function, so that what it keeps can
be proved.
`CheckedReplace` tells whether callers check the index they give `replace`
(see findings).

`QueuePolicy` has the two other answers of aurorix-playback to what plays next: the
queue of queue_policy.rs, which keeps no order and draws it again for every move, and
the failure policy of failure.rs. Nothing calls them yet, so they are operators, and
`PoliciesAgree`, a part of `PlaysEachTrackOnce`, compares them with the queue in every
state it can reach: they move alike while a track is current and no mutation of a
shuffled queue has kept the old turns.

### OfflinePipeline

One object behind `&mut self`, so public calls do not overlap; but a call is
long, and the model keeps its inner order: `calling` is the place in the call,
and each step is one session action plus what the pipeline does around it.
The session's part is the very action of `PlaybackSession` (`S == INSTANCE
PlaybackSession`), the queue's the very operator of `PlaybackQueue`. Resolver,
decoder and sink are ports that do what their traits allow, failure included
(`WorkersFail`). A decoded frame is its track and its place in it.

### CoreHost

Each lock acquisition and atomic access of aurorix-runtime that another thread
can tell apart is a step; a thread's record `at` says where in which call it is.
Shutdown is the chain cancel - close - wait - release - mark - free; drop takes
the same chain with a wait of its own and frees the slot only when the fence has
drained. `access` covers `with_database` and `with_playback`. A host may be shut down
again at any time, by any number of threads; `freed`, a history variable, tells whose
slot the shutdowns of each host have freed (`OneHostUnlessRobbed`).

### AudioBuffer

Ring, endpoints and coordinators, one step per atomic access. The endpoint fence
(look at `resetting`, announce in `endpoint_entries`, look again) is
`LooksOpen`, `Announce`, `Recheck`, `Claim`, `LeaveFence`, for both endpoints;
the coordinator is `RequestAdvance` ... `UnlockReset`. Steps are sequentially
consistent: acquire and release accesses around the fence would allow both sides
to miss each other on a weaker machine, but the two announcements are
read-modify-write instructions, which are full barriers on x64, the only target
of the Windows output. `published`, `retired`, `heard` and `discarded` are
history variables of what was published, thrown away and played.

### SyncReducer, SyncStore, SyncLoop, Outbox, SyncSnapshot

`SyncReducer` is reducer.rs and `SyncStore` the transactions of sync_apply.rs,
both as operators from state to state; `SyncLoop` joins devices and a server by a
network that keeps every message ever sent, so loss, repetition, delay and
reordering are the choice of what is delivered. `NewHistory` is a server that
starts another epoch; the reducer of an old epoch stays, because results from it
may still arrive. An operation id is drawn by one device (`Ids`).

`Outbox` is the outbox in memory of outbox.rs, as an abstract specification: under a
key the first bytes are retained, and an entry goes from Pending to Acknowledged to
Archived. The rows and archives of all devices together implement it
(`StoresAreOutboxes`, with `Box == INSTANCE Outbox WITH ...` in `SyncLoop`).

`SyncSnapshot` is snapshot.rs: a manifest announces chunks, they arrive in any order,
twice or damaged, and `validate_snapshot` judges them all together. A digest stands
for the bytes it was computed of. The transfer is not written yet and is external.

### FfiClient

Three layers in one module, because it is their agreement that matters: the
managed client (reference counts of the safe handle, the `_disposed` flag, what
the continuation of an awaited call does), the C ABI (admission lock, shutdown
flag, workers, join handles) and the host, whose steps are the actions of
`CoreHost` (`Core == INSTANCE CoreHost`). A client is named by its host. A *job*
is an operation or a subscription; its worker goes from `spawned` through the
fence (`inside`), the managed callback (`called`) to `exited`. `doing` says where in
a managed call a thread is. `Dispose` is what the code makes of it: a native
shutdown that joins the workers, the closing of the handle, and, by whoever drops
the last reference, a release that shuts down a second time.

A worker reports once (that is what `spawn_subscription` does today), so the order
of events and the replay at activation do not arise. The outcome an operation
cancellation leads to is left out: the worker answers either way.

### WireCodec, FfiBoundary

`WireCodec` is transport.rs. All its messages are encoded, decoded and validated
by one algorithm over a *schema*; what differs from message to message (field
numbers, kinds, limits, what is required, repeated or an arm of a oneof) is a table,
one sequence per message, with the lines of its encoder and decoder. A text is its
length and an identity, and lengths are computed as the code does, key and varint
bytes included, because the limits bite on bytes: nested limits are checked when a
message is encoded (`Fits`) and decoded (`Accepts`). `stage` takes a message from
one side to the other: sent, disturbed (a field lost, repeated or altered by a
sender of another version), received or refused, answered. `Receive` is the entry
point with its validation; `Answer` is the response whose encoding the worker
expects to succeed. `FfiBoundary` puts the two beside each other: a behaviour is
either about calls or about messages (`side`), since they share no state.

### DecodePath, Codecs, RecoveryCoordinator, RealtimePorts, SharedOutput, AudioEngine

`Codecs` is the Symphonia and the Opus decoder as records and operators: packets of
a few frames, what is pending of the last one, pre-skip, the seek that lands on a
packet boundary before its target, the reopening when a file cannot seek back.
`DecodePath` is the decoder worker over one of them: `DecodeStep` and `Seek` begin
a call, and the steps of the call (read, fill, copy, finish; move, reopen, commit)
are actions, because another thread may cancel the token or read the generation in
between (`CancelToken`). `AcceptsOutput` is the test its consumer makes; outputs
wait in a queue in between, which is where a seek can overtake them.

`RealtimePorts` has the output callback publish the clock field by field under a
sequence lock and the underrun cell store by store, against readers of the clock
and a coordinator that takes underruns and tells `RecoveryCoordinator`, recovery.rs
as operators on its record. `SharedOutput` is the output on top: opening with the
fallbacks of its policy, start, stop, `RenderEvent` (which takes frames and
publishes the clock) and the write that may fail after it; the endpoint may be
removed at any step. What the COM calls answer is a choice of the environment.
`RequestedFormat`, `Observation` and `BitPerfectReason` give the report of an opening. `AudioEngine` puts
the decoder end and the device end beside each other: what joins them is the ring,
which has a model of its own.

### LocalDatabase, Catalog, ScanOrchestration, LibraryCatalog

`LocalDatabase` is database.rs and migration.rs over SQLite: processes with a binary
(a list of migrations, perhaps older or edited) open the file, validate the ledger,
apply what is missing, and write in transactions. SQLite is external: one writer, a
commit publishes the transaction's view, a crash or a rollback forgets it. `Panic`
poisons the connection's mutex: `lock_connection` then answers `WriteLockPoisoned` for as
long as that handle lives, and only another handle writes (place `poisoned`).
`Catalog` is what the writes do to rows (scan observations and play statistics),
`ScanOrchestration` the state machine of an asset and the run a scan plans.
`LibraryCatalog` composes them: scans and statistics of several processes, one
transaction per helper. The repository has helpers and no caller for scans, so the
caller (who starts one, when it gives up) is external, and nothing keeps it from running
scans at once, of the same or other directories, or from a clock that stands or goes
back (`Times`). `said` and `late` of an asset's row are history: what each running scan
last said of it, and whether its last mark came from a scan although a newer one had
spoken. The branches of `NextState` for an asset that is not tracked yet are left out:
all assets are. A fact has one content per id (`CatalogAssumption`), where the code goes
by the id alone.

### MediaControls, WindowsScan, ExtensionRegistry, WindowsPlatform

Three gateways of the Windows adapter, each with its environment: the Core that
raises versions and whose snapshots and clock samples arrive late, twice or never,
and a sink that throws before or after it shows; the tree of files, any look at
which may fail or find a reparse point; callers that look an action up, look again
and dispatch, while extensions are registered, replaced and disabled. Each method
under its lock is one action; the walk of a scan is one action per path; a dispatch
is three. `WindowsPlatform` follows one gateway per behaviour (`gateway`).
Left out: that Dispose empties the table of scans, so that a later Cancel finds nothing
to cancel again; the issue without a path of a scan that fails, which covers nothing; the
fence on the buffer generation and the comparison of positions of one frame count (in
the model a generation comes with a version, a position with its frames); and items
whose metadata has no duration, which cannot be sought.


## Runs

| Run | Question | Bounds | Distinct states |
|---|---|---|---|
| `session` | Does any order of commands and late, repeated or missing worker events break the session, and does every wait end if the worker answers? | 3 requests numbered in the order they are accepted, 2 items, positions 0..1, versions up to 4 | 90,003 |
| `queue` | Do order, current track and turns survive any calls? | up to 3 tracks of 3, two seeds | 5,606 |
| `pipeline` | Are the frames, the end of track and the transitions right with failing ports? | 4 caller ids from both ends, 2 tracks of 1 frame, buffer of 2 | 705,384 |
| `pipeline_content` | Is the next frame the one the clock shows, and does every track end? | 3 caller ids from both ends, tracks of 3 frames, no Pause, no decoder failure | 111,214 |
| `pipeline_resume` | The same with Pause and Resume | - | violated |
| `host` | Is shutdown safe, repeated or not, all at once, and bounded? | 2 hosts, 3 threads, 2 callbacks, 1 operation | 639,367 |
| `buffer` | Is the ring safe and live, step by atomic step? | 2 slots, blocks of 2 frames, 3 blocks, 2 advances, 1 coordinator | 544,993 |
| `sync` | Is what devices settled what their history says, and what an outbox would hold? Is a snapshot taken whole or not at all? | 2 devices, 3 operations, 6 bodies on one playlist, of which the second device creates or deletes, 2 epochs, 3 revisions; 1 snapshot of 2 chunks | 176,151 |
| `ffi` | Do calls, callbacks, closers and a disposal of one client agree, and end? Do messages survive the boundary? | 1 client, 2 threads, 2 operations, 1 subscription, two of the three at a time; every field of every message | 30,482 |
| `engine` | Does the decoder deliver runs of frames to their end, do underruns and clocks reach their readers whole, does the clock cover the endpoint? | a track of 5 frames in packets of 2, pre-skip 3, 2 generations; 1 reader, 2 rates, 1 opening, 2 renders | 776,247 |
| `storage` | Do crashes, old binaries and several processes leave schema, statistics and assets right? | 2 processes, 4 binaries, 2 scans with 2 start times, 2 assets or 2 facts | 379,082 |
| `windows` | Do the controls converge without going back, do scans tell each path once, is only what was offered dispatched? | 2 items, 2 changes of the Core, 2 samples; 2 scans of 3 paths; 2 extensions, 4 manifests, 2 callers | 447,441 |

`MaxVersion`, `MaxPosition`, `MaxBlocks`, `MaxGeneration`, `MaxOutputs`, `MaxOpens`,
`MaxRenders`, `LastEpoch`, `MaxFrames`, `MaxSamples`, `MaxAttempts`, `MaxRevision` and
`MaxEpoch` stand for counters that grow without bound (u64 in
the code); they appear only as guards of the actions that count.

**Why the bounds are enough to be interesting.** Three requests are a current
operation, the one it replaced, and one that cancels or replaces again; the
fourth in the pipeline is needed because a transition spends internal ids and
leaves a caller room to collide with them. Two tracks are the least for which a
transition can play the wrong one. Three queue tracks give permutations that
are not their own inverse, a current track with neighbours on both sides, and all
relative places of a move. Two ring slots are the code's minimum
(`MIN_BUFFER_SLOTS`) and make full, empty and wrap-around happen constantly; three
blocks make the wrap happen with a block still active; blocks of two frames let
the callback stop half-way. Two hosts and three threads let one thread shut down
while another uses the host and a third starts the next. Three sync
operations, two of them by one device, allow one result to overtake another and a
second device to delete what the first still edits. Two threads on one client are
a call and the disposal that overtakes it; closers and workers are actors of their
own; two operations and a subscription give the shutdown something left to join
while it waits. The messages of the codec have each field in turn absent, empty, of
one byte, at the lengths where a varint grows (127, 128), where the nested limit of a
status is met exactly (371, 372), at its limit and one past it, and lists of none,
one, two, the most and one more, with elements that repeat a key; around three base
messages of each kind (shortest, complete, longest), which are also those that are
disturbed. Five frames in packets of two leave a last packet that is not full, and a
pre-skip of three ends inside a packet; one seek and its generation are enough for
outputs to be overtaken. Two processes with the binaries of two versions and one
that was edited meet every way two ledgers can disagree. Each of two scans starts at
one of two times (`Times`), so either may be the older by `(started_at, id)`, or they tie
and the ids decide, and each may overtake the other between any two of its transactions.
Two items and two changes let a snapshot overtake the one before it, with an epoch of its
own.

Some runs are kept small by a constraint, named where it is defined; none of them
leaves out a behaviour that a property is about.

* `NumberedInOrder` (session), `FromBothEnds` (pipeline), `TwoJobs` (client): the ids
  callers choose are interchangeable, so one naming of each behaviour is enough. A
  request of the session is called by its turn of acceptance. A caller of the pipeline
  takes ids from the low end, or the ones at the high end that a transition has made up
  or is about to: these are the only ones that collide. Of two operations the one
  accepted first is `o1`; a subscription runs beside one of them.
* `OwnersKind` and `Symmetry` (sync): the second device creates or deletes the playlist
  that the first edits in every way; the first device's two operations may change places.
* `OneConcern` (engine): a reader of the clock only loads, and writes nothing that anyone
  else reads; it looks in the behaviours where no underrun, boundary or exclusive mode is
  told beside it. `OneConcern` (storage): a database file is used for statistics or for
  scans, which share no row; transactions, crashes and migrations meet both. Binaries
  that differ meet over the statistics. `OneDirectory` (storage): once both scans have
  begun they look at one directory; what they say of others concerns other rows.

**What each property guards against** is written above its definition in the
module and in "hazards" of PROJECT.json. The ones to read first:
`RetiredTokensAreInert`, `EveryStateHasAnOwner` and `ImplementsLedger` (session);
`TurnsAreKept` (queue); `NextFrameIsAtTheClock` and `EndIsAccepted` (pipeline);
`ShutdownIsFinal` and `ShutdownReturns` (host); `HeardIsCurrent` (ring);
`AcknowledgedIsCommitted` and `StateIsReplay` (sync); `JoinIsAFence` and
`MessagesSurviveTheWire` (boundary); `AcceptedFramesFollow` and
`ClockCoversTheEndpoint` (engine); `NewestScanCounts` (storage);
`ControlsConverge` (media controls).

The type invariants of session, host and ring are proved (`TypeCorrect`, and as part
of `IInv`) and not checked again.

**Deadlock** is checked everywhere except in the host, client and engine runs: once
all hosts have been dropped, or a worker is closed and an output has been dropped,
nothing is left to do.

### Fairness

* Session: a worker answers each phase of the *pending* operation
  (`OpensSource`, `AppliesSeek`, `FillsBuffer`, weak fairness). That is the
  contract of `WorkerIntent`. Nothing is assumed about the order of its answers
  or of what else it reports.
* Pipeline: calls return (weak fairness of `Continue`; the code has no blocking
  step), and the host keeps pumping and rendering to a sink that takes some
  block. Strong fairness, because commands in between disable a pump or a render
  for the length of their call, again and again.
* Host: a thread inside a call goes on (weak fairness of `Continue(t)`). A
  callback need never leave and an access in progress ends; the shutdown's
  own wait is bounded by its timeout (`WaitTimesOut`). The services lock is a mutex
  without an order of waiting, so no strong fairness is assumed of it: threads that shut
  one host down again and again could keep another from the lock for ever, and
  `ShutdownReturns` says that nothing less does.
* Ring: the device keeps calling back and a coordinator that has begun an
  advance finishes it. The worker owes nothing.
* Client: threads in a call go on, workers go on and callbacks return, and an
  awaited call, once answered, closes its handle (the `finally` of `SendAsync`).
  Callbacks return because the managed ones only enqueue or set a result; a sink
  that runs inline, without a dispatcher, and blocks would hold a shutdown for ever,
  since it joins workers without a bound. Nobody need dispose anything.
* Media controls: the host delivers the Core's last snapshot, flushes as it
  schedules, and the sink does not throw for ever (weak fairness of `AcceptSnapshot`
  of that snapshot and of a flush that gets through). Nothing is assumed of samples
  and of older snapshots, which may come late or never.
* Engine, storage: none; what they promise is safety, and SQLite, the device and the
  caller of the scan helpers may stop at any step.
* Sync: none. There is no transport in the repository whose retries could be
  assumed, so nothing is claimed about progress.

## Proofs

All theorems hold for every value of the constants that satisfies the module's
named assumptions (`PlaybackSessionAssumption`, `PlaybackQueueAssumption`,
`QueueCallsAssumption`, `CoreHostAssumption`, `RingAssumption`, `SyncAssumption`,
`SnapshotAssumption`, `FfiClientAssumption`, `NothingAssumption` of the
pipeline, those of the engine's, the database's and the gateways' modules): sentinels
lie outside the sets they are used with, bounds are naturals, the ring has at least two
slots, a manifest has its fields, a tree of files is finite, the draws of a seed are
naturals, a fact has one content per id. Four theorems assume more, each because the code
breaks the property without it, which TLC shows: `SoundFollowsTheClock` (no Pause,
finding 1), `EndStaysTheEnd` (`~EmptySlices`, finding 16), and
`EachTrackIsPlayedOnce` and `TurnsStayKept` (`CheckedReplace`, finding 6: otherwise the
current index may name no track, and there are no turns to speak of).

**Induction.** The library's induction theorems cannot be used, since they take an
operator as a parameter. Where a proof is an induction over data it goes by the least
counterexample instead: the set of places where the claim fails has a least element
(`LeastNumber`, from the well-foundedness of `<`; for sets a smallest one,
`SmallestSet`), and the step from the one before it refutes it. Folds and
recursive functions are first shown to be *a* function with the right step, and then
reasoned about by that step alone. RECURSIVE operators stay out of reach.

**PlaybackSession_proofs.** `IInv = TypeOK /\ PendingIsCurrent /\
EveryStateHasAnOwner /\ TokensFenced`. `PendingIsCurrent` and
`EveryStateHasAnOwner` are inductive only together: an event moves the session on
because its token is the pending or the active one, and each says of that token
what the other needs. `TokensFenced` says that no token issued is ahead of the
buffer generation and that every retired one is behind it; with it
`RetiredInert` follows, because an answer is taken only from a token of the
current generation. `ResolvedStaysResolved` and `SessionImplementsLedger`
follow with one lemma per command and event; the refinement is proved step by
step against `CommandLedger`. `ChangesStayTold`: a step that changes what a poll
shows raises the version, and one that moves time otherwise than by rendering raises
the epoch of the clock.

**OfflinePipeline_proofs.** First that every step of the pipeline is a step of the
session or leaves it (`PipelineImplementsSession`): all that is proved of the session
holds inside the pipeline (`PipelineKeepsTheSession`), and the rest may use it
(`SessionInv`). Then four invariants, each on top of the last. `Shapes` and
`TokensKept`: types, and that the pipeline remembers no token the session did not
issue. `SoundIsCurrent`: the prepared frames are of the current item and generation
while the session plays *and already while the buffer is filled*, a decoder is of the
current item except between a Play and the opening of its source, and a session that
plays holds the token of the last report; `FramesStayWithOperation` and `EndStaysAccepted`
are its first halves, and neither is inductive without the other. `IdsKnown` and
`TransitionUnderWay`: the Stop and the Play of a transition go out under ids the session
has not seen, the Play waits only where the session can take it, and from there the
transition is at the place of the call its session state says;
`TransitionsPlayTheirTrack` follows. `Pauseless` and `SoundFollowsClock`: without Pause
no operation resumes anything, so the decoder that fills a buffer stands where the
operation begins, and the prepared frames are consecutive from the clock's position;
`SoundFollowsTheClock` follows. Any requests, items, lengths of track and buffer.

**HostPlatform_proofs.** The host: `IInv = TypeOK /\ PlacesTell /\ ClosingHasDone /\
StoppedIsQuiet`: where a thread is tells what its host has been through. It gives
`FenceStaysFinal`, `AccessIsSafe` and `AdmittedAreCancelled`. `SlotInv` adds that a host
whose slot was freed is stopped, and that of the hosts that were started and whose slot
was not freed yet there is at most one, which the flag knows of, as long as no shutdown
has freed the slot of another: that a repeated shutdown does (finding 3) is told by
`freed`, and it is the only thing that does. `OneHost` follows, and `ShutdownStaysFinal`,
the four together: the property the run checks. Shutdowns may be repeated and concurrent
in all of them.

**AudioBuffer_proofs.** `IInv` adds to the types that the entry counter counts the
endpoints inside the fence, that an endpoint's place determines the state of its
slot, and what a coordinator has seen by each of its places. `ResetExcludes`
follows. `OInv` adds who owns which slot, that slots already cleared are vacant,
and that every block in a ready or read slot has the current generation;
`RetiredIsSilent` follows. Any number of slots and coordinators. A corollary worth
knowing: the branches of `publish` and of the consumer that drop a block of
another generation cannot be reached.

`FInv` is the order. `LineUp(d)`: the *d* blocks that are published and not taken stand
in line from the consumer's slot to the producer's, with the last *d* serials, and no
other slot is ready. `HeardTo(t)`: block *t*, the one before the line, was taken last; it
is over, or the consumer holds it and has heard as much of it as it has consumed. A
publication lengthens the line (`LineGrows`), a take shortens it and moves what is heard
on by one (`LineShrinks`, `HeardTaken`), and nothing else touches either, with
`FramesWanted` and `FramesGiven` as what an idle callback and an empty block would break.
`FramesStayInOrder` follows for any wrap-around, block length and request. Both say
`~discarded`, as the property does: an advance that throws ready blocks away vacates
slots and leaves the cursors where they were, and the line is broken (finding 5).

**QueueCalls_proofs.** `Sound(q)`: the order is a permutation of the indexes
(`IsOrder`) and the position is where it plays the current track. Every call keeps it,
each for a reason of its own: a swap of two places keeps a permutation one, so each step
of Fisher-Yates does (`StepsAreOrders`), whatever is drawn; a removal keeps all places
but one, in their order (`WithoutRemoves`), and the indexes above it come down; a move
renames the indexes by a function whose inverse is the opposite move (`MovedOrder`).
`EachTrackIsPlayedOnce` follows: the queue after *k* tracks stands at place *k* of the
same order (`PlayedAre`), so what is played is the range of a permutation; and the queue
policy, which draws the order again for each move, and the failure policy, which goes by
the places of the order, choose the same (`AdvancesAlike` ... `FailuresAlike`).
`TurnsStayKept` is about two queues, before and after: with the elements of a sequence
after an insertion or a removal (`InsertAtElements`, `RemoveAtElements`), the track at an
old index is at the new one, and the turns are the old turns with one more, one less, or
as they were. Any tracks, repeated ones included, any seeds, draws and length.

**Storage_proofs, synchronization.** `IInv` says the shapes of histories and stores, that every
message sent came from an outbox row with the same body, and that every reply is
true of the history it names (`RepliesAreTrue`); `AcknowledgedCommitted`,
`RowsAgree` and `OutcomesAreFinal` follow, for any network, any number of devices
and of histories. `StoresImplementOutbox` is the refinement: `Boxed` reads the entry of
a device's operation off its row, a step of the loop moves at most one row
(`OneKeyMoves`) and moves it as the outbox would (`RowSettles`).

`StateStaysTheReplay` is about the servers. `Replays`: no two retained results have a
revision, none has one ahead of the server's, and what the server holds is what the
replay of the accepted bodies up to that revision gives. An accepted operation adds the
last step to the replay and leaves the ones before as they were; a refused or repeated
one adds none, and a mutation that failed has left a revision without an operation,
which the replay passes over.

`SnapshotStaysWhole`: `IsScan(m, chunks, k, scan)` says what `validate_snapshot` knows
after *k* chunks: which places are filled and by what (`Filled`), or the first fault. If
there is none after the last chunk, each place holds a chunk with the digest that was
announced for it, and together they are the snapshot or the whole digest differs; if the
chunks are the snapshot's, there is none. For any manifest, chunks, order and damage.

**FfiClient_proofs.** `IInv = Types /\ HandleInv /\ JobInv /\ TodoInv /\
JoinInv`. `HandleInv`: one thread at a time shuts a client down, and it releases
only a closed handle nobody refers to; `HandleIsAlive` follows. `TodoInv` and
`JoinInv`: the shutdown that comes first has on its list, or waits for, every
unfinished worker whose handle nobody closes; when the handle is closed that
shutdown is over, so `JoinFences` follows. They need `JobInv`: a job is started
once, and until then nobody has closed its handle or joined it. The steps of the hosts
change none of this, so nothing about CoreHost is used. Any number of clients,
threads and jobs.

**Storage_proofs, the database.** For any processes, binaries and
migrations, `DatabaseIInv` says that who is in a transaction is the writer (`OneWriter`),
that an open file has been validated against the binary and that whatever its owner
counts as applied is in the ledger (`Current`), that a process past its migrations
has them all (`AllApplied`), and what a transaction in progress holds: the ledger
and tables it began with, the tables of one migration more, or that and its row
(`Transaction`). `SchemaStaysTheLedger` needs `Transaction`, since a commit
publishes whatever the writer holds; `ReadyStaysCurrent` needs `Current` and
`AllApplied`. Every step of `LibraryCatalog` is a step of the database, whatever it
writes (`LibraryIsDatabase`), so nothing of the catalog is used.

`NewestStaysCounted` is about the catalog, for scans that overlap in any way, and about
`Latest`, what the next reader will find if the open transaction commits, because a row
changes there first and the change is forgotten when the transaction is lost. `RowInv`:
unless the last mark came late, the scan a row was last seen by is the newest of those
that found the asset (`SeenByNewest`), and the row follows the newest of those that spoke
of it. A sweep compares with the scan last seen by, so by the first half what it makes
missing was found by no newer scan, and by the second it is right to; a mark sets both.
`WorkInv` says that an open transaction changes what is said by scans of its own process
only, and `PlanInv` that a scan never marks what it says is absent and has marked
whatever it is done with: a scan that had not could sweep what it saw itself. Nothing is
assumed of the order of the scans, and only scans that run are heard.

`StatsStayTheFacts` is about the other half of the rows. `Tallied(c)`: the aggregate of a
catalog is that of the facts it has counted since the last clear, for the committed rows
and for those of the transaction in progress (`StatsInv`), since a commit publishes the
latter. A fact that is not counted yet adds its one play, its length and its time
(`LengthsStep`, `LastOf`), one that is counted adds nothing, and a rebuild recounts them
in any order (`RecountStep`) and so arrives at the same.

**AudioEngine_proofs.** The device end. `PortInv` adds to the types `Told`: a missing
count that the callback has stored is pending, recorded, or about to be raised; with
it an underrun is not lost and its frames are accounted for by the record that
recovery.rs keeps (`CommittedParts` says which parts a transition keeps).
`OutputInv` says what an output of each lifecycle is like and that frames are
missing only for removals (`RemovalsAreCounted`) and only once per opening
(`CanLose`); `ClockCovers` follows. Frames of underruns that come together before the
coordinator takes them are told of as one (realtime.rs:200), so `UnderrunsStayAccounted`
is about what was recorded. `OnlyExactIsEligible` goes by the first obstacle: a report
that has none (`EligibleMeetsNoObstacle`) is of an endpoint opened in the source's format
and with nothing unknown, which a Shared one never is.

The clock: `WriterInv` says the sequence is odd exactly while the fields are stored, that
the fields stored so far are those of the timeline, and that nothing published is later
than it; `ReaderInv` that what a reader has loaded since its first look is in the cell as
long as the sequence stands. A reader that accepts has seen the sequence stand, so what it
got was published whole and after what it had: `ClockStaysCoherent`.

The decoder: `CodecInv` says where a codec is by its packet, its pending frames and its
pre-skip, with a lemma for each of its operations; `WorkerInv` what a call in progress has
done to it; `ChainInv` that the outputs not yet taken continue each other, from what was
accepted to where the codec is, and that none of the present generation is left while a
seek is under way. `AcceptedFramesStayInLine` follows for any stream, packets, slices and
bounds, and `EndStaysTheEnd` because an end is only said by a codec with nothing ahead.

**HostPlatform_proofs, the gateways.** The registry: a dispatch looks the action up, lets
go of the lock, looks again and calls the router outside it. `CallsNotice`, the invariant
about calls in progress, says that one that was found, or whose action is on offer
now, has been offered since it began; the second half is what makes it inductive,
since the second lookup turns "on offer now" into "found". Whoever changes the
manifests makes all calls notice (`NoticingKeeps`). `RoutesStayUnique` is inductive
by itself: a manifest is checked against those of all others, the disabled included.

Scans: what is told was visited first (`ToldOnce`), and what was visited and not told has
all its children visited or on the stack, as the roots are (`NothingDropped`). A scan that
completes has an empty stack, so whatever a root leads to is told (`EachPathIsToldOnce`).
Controls: `ShownInv` says that what is shown is not newer than what was merged, nor of
another item if it is of the same change; since what is merged only goes forward
(`GoesOn`), so does what is shown (`ProjectionGoesOn`).

**Only model-checked.**

* Liveness (`WaitingEnds`, `TracksEnd`, `ShutdownReturns`, `BlocksAreHeard`, `JoinsEnd`,
  `ControlsConverge`): TLAPS has no reasoning about fairness here.
* `MessagesSurviveTheWire`: messages are read and written by RECURSIVE operators, about
  which the prover can say nothing, and what it says is about a table of seventeen kinds
  of message, which the run goes through entry by entry.
* `NextFrameIsAtTheClock` with Pause and Resume, which the run refutes.

**Proved, in no run of their own.** `PendingIsCurrent`, `ResolutionIsFinal`,
`FenceIsFinal`, `NoAccessAfterRelease`, `OperationsAreCancelled`, `OneHostUnlessRobbed`,
`ResetIsExclusive`, `OutcomeIsFinal`, `EligibleIsExact`, `RoutesAreUnique` and the
implementation of the session by the pipeline
are defined beside the properties the runs check: parts of those, or plain enough that
the theorem is all there is to say.

## Findings

Shown by a run (PROJECT.json, "findings"):

1. `pipeline_resume`: a Pause throws away the frames decoded ahead, and the
   Resume goes on where the decoder is, not where the clock is
   (pipeline.rs:955, 985).

Seen while modelling, each reproducible with the modules but without a run of its
own (2, 3 and 4 by checking the definition named with the constants given):

2. A decoder that fails in a host pump leaves the session Playing with nothing to
   play (pipeline.rs:1015 against 672): `DecoderFailureConverges` of OfflinePipeline
   does not hold, in a few steps with `WorkersFail`.
3. A host frees the process's slot whenever it is shut down, also when it was
   stopped before and another one runs now (aurorix-runtime lib.rs:663); every
   disposal of a managed client shuts its host down twice (AurorixClient.cs:268).
   `OneHostAtATime` fails in CoreHost and, with two hosts, in FfiClient. What holds is
   `OneHostUnlessRobbed`: nothing else breaks it.
4. A subscription cancelled while its client is being shut down returns before its
   worker has ended, and its context is freed under a callback (aurorix-ffi-c
   lib.rs:291): `CancelIsAFence` of FfiClient does not hold.
5. An advance of the ring that throws ready blocks away leaves the endpoints'
   cursors apart: silence until the ring is full, then blocks out of order
   (buffer.rs:208). Without its exception for `discarded`, `FramesFollow` fails.
6. `replace` of the queue assigns the tracks before the index is checked, so a
   call that returns `IndexOutOfBounds` leaves the old order over the new tracks
   (queue.rs:323). With `CheckedReplace = FALSE` TLC breaks
   `PlaysEachTrackOnce` in a few steps.
7. Cancelling a Play that a Pause has already retired is answered
   `CancelledBeforeCommit` (session.rs:725), which command.rs:285 reserves for a
   pending one.
8. If the queue ends while the session is paused, empty or stopped, its decoder is
   dropped whatever the session says, and a Resume waits in Buffering without one
   (pipeline.rs:1048).
9. A host dropped while a callback stays inside longer than the timeout never
   frees the slot; no host starts again in the process (lib.rs:711).
10. An access that was admitted just before a shutdown may run while the host is
   ShuttingDown (lib.rs:584). It is never inside released services.
11. The cursor never goes back, so if the result of revision *n* is lost and that
    of *m > n* is applied, the retry of the first is answered `Duplicate` with *n*
    and refused for ever; its operation stays Pending (sync_apply.rs:533).
12. Rejected results are not retained: a copy of a rejected operation may be
    accepted later, after the device archived the rejection.
13. A mutation that fails has taken its revision (reducer.rs:153), although the
    revision is documented as assigned on success. Creating a playlist whose
    tombstone exists is accepted and renames the tombstone. Adding an item
    twice lists it twice.
14. `mark_asset_seen` does not look at which scan is newer (scan_observation.rs:170),
    as `mark_missing_assets` does: of two scans that overlap, the older may overwrite
    what the newer one observed, and the newer one then marks a file missing that it has
    seen. Without its exception for `late`, `NewestScanCounts` fails.
15. A file found missing a second time fails the whole scan, and one that reappears
    unchanged stays missing (scan_orchestration.rs:387), also when the scan that finds
    it completes: `NewestScanCounts` takes as found the state the scan marked. A scan left running by a
    crash is never ended.
16. An Opus decode into an empty slice may say end of stream while frames are still
    pending (opus.rs:270). With `EmptySlices = TRUE`, `EndIsTheEnd` fails;
    `decode_step` takes such a slice, though nothing in the repository passes one.
17. A token cancelled from another thread makes `decode_step` go to Cancelled without
    retiring the generation (decoder.rs:329), which `cancel` does.
18. An output that is lost goes Unavailable, but `stop` makes it Stopped and `start`
    lets it run again (aurorix-audio-windows lib.rs:1029).
19. A Home snapshot is valid with a source whose text may take more than the 1024
    bytes its nested limit allows; encoding it fails (transport.rs:1920).

## What is left out

* Changes of the clock's playback rate and sample rate (clock.rs:304, 320), which the
  session never makes.
* Exhaustion of u64 counters: the error branches exist, no bounded model meets them.
* Samples, formats, resampling: a frame is a track and an offset, or a block's
  serial and an offset.
* Misaligned buffers (partial frames) in pipeline and consumer; a decoder that
  reports more samples than the slice it was given.
* Corrupted rows and malformed results of the sync store; `Rename` and ids shared
  between devices are in the model, not in the run.
* Weak memory beyond x64 in the ring and in the clock's sequence lock, whose relaxed
  loads are read in program order.
* What Symphonia, libopus, WASAPI and SQLite do inside; COM objects and the order in
  which they are dropped; the event wait of an output, which has no timeout.
* The kinds of errors of the codec, and the builders the host uses.
* Actions of the media controls, relinking, probing and pickers, pages and slots of
  extensions.
* The capture sink, the fault cell of the realtime ports, which nothing outside
  tests takes, and what a report prints.
* Of the playback policies, `transition.rs`, `playback_facts.rs` and
  `source_resolution.rs`, and of the outbox in memory its recovery policies and
  disclosures: nothing in the repository calls them yet, so they have no behaviour to
  join to the rest; catalog rows, search, SQL text, value types and views: nothing
  of theirs changes state between two calls.

Hazards known but not in PROJECT.json's list, which keeps the most telling ones:
a seek is cancellable after it has moved the clock (session.rs:884); a Play may
select its track in the queue and then be rejected by the session (pipeline.rs:651);
a decoder that lands elsewhere than asked leaves the seek pending (pipeline.rs:975);
of two overlapping advances the slower may set the generation back (buffer.rs:176);
a failed worker can still be cancelled (decoder.rs:419); the next item after a
failure is the next index, whatever shuffle says (failure.rs:300); a fact is
finalized twice (playback_facts.rs:192); a client disposed from inside one of its
callbacks is leaked with its host's slot, because the managed side ignores
REENTRANT_RELEASE (aurorix-ffi-c lib.rs:747); a C caller that shuts a client down
on two threads at once may lose completions, since only the first joins workers
(lib.rs:179; the managed client never does); facts are applied again after a clear
(stats_aggregator.rs:39); media commands are chosen for a state that is over
(WindowsMediaControlGateway.cs:316); a scan session is found before its task is
attached (WindowsScanGateway.cs:113).

## Plan

Done, in this order: PlaybackSession with its ledger; PlaybackQueue;
OfflinePipeline over both; CoreHost; AudioBuffer; SyncLoop; FfiClient over CoreHost;
DecodePath with its codecs; RealtimePorts with RecoveryCoordinator; SharedOutput;
LibraryCatalog over LocalDatabase; the gateways of the Windows adapter; WireCodec;
QueuePolicy; SyncSnapshot; Outbox, implemented by the stores; the proofs of all of them
that the prover can reach but for those named here.

Next, most important first:

1. **DecodePath over AudioBuffer**: the worker as the ring's producer and a seek as
   its coordinator, in one composition.
2. **The codec's table as functions**: reading and writing a message as a recursive
   function of its fields, so that what `MessagesSurviveTheWire` says of each kind can be
   proved of any schema.
3. Abstract specifications: a bounded FIFO that AudioBuffer implements between two
   advances; a commit log that SyncLoop implements.

As modules are added, runs that ask the same question are merged and plainer
properties give way to deeper ones, so that the whole stays quick to check.
