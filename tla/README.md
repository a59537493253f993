# A TLA+ model of fooyin's playback engine

fooyin is a music player written in C++ and Qt. This project models the part of it
that is hardest to test: the playback engine, in which an engine thread, an audio
thread, worker threads and the main thread share queues, mailboxes and latches. It
also models the main thread's side of playback: the player, its queue and playlist
position, and the engine handler between the player and the engine. It holds TLA+
modules translated from the code, TLC configurations that check them, and theorems that
the TLA+ proof system checks. Paths below are relative to the repository.

## The system

### Threads

| thread | runs | talks to the others through |
|---|---|---|
| main | user interface, `PlayerController`, `EngineHandler`, playlists | queued calls into the engine, queued signals from it |
| engine | `AudioEngine` and its controllers, an event loop | `EngineTaskQueue`, pipeline commands, `NextTrackPrepareWorker` |
| audio | `AudioPipeline::processAudio`, in cycles | `PipelineSignalMailbox`, the queue of fade events, the rings of the streams |
| decode worker | `DecodingController`'s decode jobs | its request and result records, under a mutex |
| prepare worker | `NextTrackPrepareWorker` | one request slot, cancel flags, results as engine tasks |
| analysis | `AudioAnalysisBus`, the visualisation back end | `LockFreeRingBuffer` in, mailboxes out |
| library | scans, tag writes, the database | queued calls and signals |

### Components

The state, the operations, the hard part and what correctness means, for each.

* **Engine task queue** (`src/src/core/engine/control/enginetaskqueue.cpp`). Two
  queues (runnable, deferred by a barrier), a wake latch, a shutdown flag. Any thread
  enqueues; the engine drains in batches; a barrier scope holds coalesced tasks back
  while the engine is in the middle of something. Hard: coalescing, eviction at the
  limit and the barrier act on the same two queues, and the wake latch is written in
  five places. Correct: no task without a wake, order within a lane, nothing dropped
  that must not be, nothing left at destruction.
* **Lock-free ring buffer** (`src/include/utils/lockfreeringbuffer.h`). Two positions,
  a reset request, a generation. One reader, one writer. Hard: resets from either
  side, overwriting, reservations, positions that wrap. Correct: a bounded FIFO, no
  slot used from both sides.
* **Pipeline signals** (`src/src/core/engine/pipeline/pipelinesignalmailbox.cpp`,
  `audiopipeline.cpp`). Signal bits, a latch for the wake, a queue of fade events, a
  latch on data demand; all relaxed atomics. Correct: no signal without a wake, no
  fade event without a signal.
* **Decode demand** (`src/src/core/engine/decode/decodingcontroller.cpp`, with
  `audioengine.cpp` and `control/positioncoordinator.cpp`). The decode timer, the job
  of the worker, its result, two watermarks. Correct: a stream that runs dry is fed.
* **Next-track preparer** (`src/src/core/engine/decode/nexttrackpreparer.cpp`,
  `audioengine.cpp`). A request slot, job tokens, cancel flags, the decoder that a
  blocked job may be aborted in; in the engine, what is prepared, the candidate that
  follows, and the remote track the user chose that waits to be buffered. Correct:
  aborts hit the right decoder and are never too early, a late result starts nothing.
* **Engine transport** (`audioengine.cpp`, `output/fadecontroller.cpp`,
  `control/playbackintentreducer.cpp`, `control/playbackphase.h`). The playback state,
  the transport phase and the fade state. Play, pause and stop with fades that the
  audio thread completes later. Hard: a command during the fade of another.
* **Track transitions** (`control/playbacktransitioncoordinator.cpp`,
  `audioengine.cpp`). The candidate for the next track, its preparation, and gapless and
  crossfade transitions armed in the pipeline before the boundary. Hard: each of stop,
  load, a new candidate, a failed preparation and a setting calls off a part of what is
  prepared, armed or adopted already. Correct: nothing armed outlives what it was made
  from; the boundary of a track leads to the next one exactly once.
* **Engine handler** (`src/src/core/engine/enginehandler.cpp`). On the main thread: the
  change that was asked for, the upcoming track, the transition that the engine owns,
  the advance that waits for the output, a watchdog. Hard: engine, controller and
  watchdog may each go on to the next track, and every answer is about a past state.
  Correct: player and engine end up agreeing on what plays and what comes next.
* **Audio pipeline** (`pipeline/audiopipeline.cpp`, `pipelinethreadhost.cpp`,
  `audiostream.cpp`, `orphanstreamtracker.cpp`). Commands from the engine thread run
  between two cycles; streams that are faded out as orphans.
* **Analysis and visualisation** (`audioanalysisbus.cpp`, `visualisationbackend.cpp`).
  A thread woken by relaxed flags and a semaphore; flushes must not be overtaken.
* **Player controller, session and queue** (`src/src/core/playback`). Current track,
  pending request, queued tracks, playback order, what was scheduled next; on the main
  thread, with answers of the engine arriving later. Correct: tracks play in order and
  to the end, a queued track leaves the queue only to be played.
* **Playlists** (`src/src/core/playlist`). Change sets, moves and removals with the
  index of the current track following.
* **Library** (`src/src/core/library`). Scan requests queued for a thread, cancelled
  and merged; results applied to the database.
* **Network streams** (`src/src/core/network`). A buffer between a thread that
  downloads and a decoder that reads with blocking calls and aborts.
* Samples, formats, DSPs, decoders, tags, SQL, scripting, the user interface and the
  plugins: sequential code or bindings, listed in `PROJECT.json` with the reason why
  each is left out.

### How the modelled parts interact

The audio thread drains a stream's ring (`LockFreeRingBuffer`), and signals demand and
completed fades (`PipelineSignals`). The signal's wake becomes an engine task
(`EngineTaskQueue`), whose handler starts the decode timer; ticks schedule jobs on the
decode worker, which fills the ring (`DecodeDemand`). Towards the end of a track the
engine asks the prepare worker for the next (`NextTrackPrepare`); its result comes
back as a task of type Worker. What becomes of it is `TrackHandover`: the engine arms
the prepared stream, or loads the track, and signals boundary and commit; the handler
and the player (`PlaybackSession`) follow, or change tracks themselves, by calls that
are queued to the engine. `PlaybackHandoff` composes these two with the queues between
the threads.

## The modules

| module | models | checked by | proved in |
|---|---|---|---|
| `SeqSelect` | splitting a queue by a test | with `EngineTaskQueue` | `SeqSelectProofs` |
| `EngineTaskQueue` | the task queue and the engine's use of it | `queue` | `EngineTaskQueueProofs` |
| `BoundedFifo` | what a ring promises | `ring`, as a property | `LockFreeRingBufferProofs` |
| `LockFreeRingBuffer` | the ring, one step per atomic access | `ring`, `reset` | `LockFreeRingBufferProofs` |
| `PipelineSignals` | mailbox, fade events, demand latch | `order`, `relaxed` | `PipelineSignalsProofs` |
| `DecodeDemand` | the decode loop, with `PipelineSignals` inside | `decode` | `DecodeDemandProofs` |
| `NextTrackPrepareWorker` | the prepare worker and the calls on it | with `NextTrackPrepare` | `NextTrackPrepareProofs` |
| `NextTrackPrepare` | the engine's side of preparation | `prepare`, `pending` | `NextTrackPrepareProofs` |
| `FadeControl` | the fade controller and the fader, as operators | with `EngineTransport` | `EngineTransportProofs` |
| `EngineTransport` | play, pause, stop, loads and the output | `transport`, `silentplay` | `EngineTransportProofs` |
| `PlaybackSession` | player controller, session, queue and engine handler, as operators | with `PlaybackHandoff` | `PlaybackHandoffProofs` |
| `TrackHandover` | loads, preparation and the gapless hand-over in the engine, as operators | with `PlaybackHandoff` | `PlaybackHandoffProofs` |
| `PlaybackHandoff` | both threads and the queues between them | `handoff`, `ignored` | `PlaybackHandoffProofs` |

Names follow the source: an action is named after the function it models, a variable
after the member, with the member's name in a comment. A definition whose name ends in
`Mutant` is a plausible slip in the definition below it, kept to show that the
properties notice it; no specification uses one.

**EngineTaskQueue.** `tasks`, `deferred`, `barrierActive`, `wakePosted` and
`shuttingDown` are the members. A step is a critical section of the queue's mutex or
the code between two: `EnqueueLocked` the locked part of `enqueue`, `PostWake` the post
that follows the unlock, `DrainPop`, `DrainEmpty` and the rest the loop of `drain`.
`EngineCode` stands for what the engine does in its event handler, which may enqueue
and raise barriers from inside a task. Tasks have ids in the order they came, for the
properties.

**LockFreeRingBuffer.** `writePos`, `readPos`, `resetRequested`, `generation` are the
atomics and every access to one is a step; `pc` tells where a side is in its call and
`pos`, `n`, `gen` hold its locals. `client` is chosen once: a member of `Clients`, which
says what calls each side makes, who requests resets, how many items and how many
resets. `StrictlyOneSided` clients neither overwrite nor reset; for them the calls
refine `BoundedFifo` (for others the mapping shows an empty FIFO that stutters). The module is sequentially consistent, which the acquire and release
operations of the class justify for one reader and one writer; the load and the compare
of the room that a write needs are one step.

**PipelineSignals.** `bits` and `wakePosted` are the atomics of the mailbox, `audio` and
`engine` where the two threads are in `mark`, `drain` and the handler. `storeBuffer`,
chosen once from `StoreBuffers`, tells whether the relaxed store in `drain` may be seen
after the load that follows it.

**DecodeDemand.** The level of the stream is counted in decoded chunks. The actions of
the mailbox are those of `PipelineSignals`, instantiated. The track does not end, is
not remote and is not sought in; a job that finds space decodes at least one chunk; the
device can always be opened.

**NextTrackPrepareWorker / NextTrackPrepare.** A step of the worker is a critical
section, one look at a cancel flag, or one call into the decoder, which may block. The
engine's call that cancels has two critical sections, and the worker runs between them.
A handler of the engine changes the engine's own state at its first step; the request
it makes after a cancel waits in `todo`. The cancels made on the way through one
handler are one. Crossfades are configured, loads succeed, and seeks and transitions
that were handed to the pipeline already are left out.

**FadeControl / EngineTransport.** The record `s` holds the members of the engine, the
fade controller, the fader and the pipeline that the transport depends on; the comments
of `Fresh` and `NoFade` name them. An operator is a function of the code that maps the
record it finds to the one it leaves, so that a handler is the composition of the calls
it makes, in their order: `Stop` is `stop()`, with `StopImmediate` for
`stopImmediate()`, `CancelAll` for `cancelAll()`, and so on. A handler is one step, and
the commands it gives to the pipeline are done within it: they reach the audio thread
in order, and no handler looks at the pipeline in between in a way that would tell.
`FadeEnds` and `StreamChanges` are the audio thread, `DeliverFade`, `PollDrain` and
`EndTimer` what arrives later. `asked` is not in the code: it remembers what the user
asked for and did not take back. The pipeline's switches are one field, `pipe`: running,
held (`setBufferingPaused`), draining (`beginPauseDrain`), paused or stopped. Opening a
device and decoding a track may fail. Radio is the source that rebuffers and cannot
seek; local files are taken not to prebuffer. A change of track is a full load: no
gapless or crossfade hand-over, no seek, no fade of a manual change, no rebuild for
another buffer length.

**PlaybackSession / TrackHandover / PlaybackHandoff.** The records `main` and `engine`
hold the members of the two sides; the comments of `Fresh` and `StartEngine` name them.
As in the transport, an operator is a function of the code, and a handler is the
composition of the calls it makes; on the main thread that includes what the signals of
the player do in the handler, which runs at once. `main.out` is the queue of calls that
`dispatchCommand` posts to the engine's thread, `engine.out` the queue of signals from
it; an action of `PlaybackHandoff` is one command of the user, the delivery of one call
or signal, one update of the position, the result of a preparation, or a timer. Item
identities, queue item identities and generations only count up in the code and are
only compared; the model takes the least one that nothing refers to, which keeps it
finite. A track is its position in the playlist, which is played once, in order, after
whatever is queued. `CheckEnding` is one update of the position: how far the decoder and
the output have come, whether the boundary is audible and whether the prepared stream
was rendered are chosen freely. Tracks may fail to open, preparations may fail, and the
next track may need another format, so that nothing can be attached for it
(`Scenarios` says which of these happen). Left out: crossfades and fades at the
boundary, seeks, segments of one file, remote tracks, A-B repeat, other play modes, the
previous track and a restored session. `trackChangeRejected` is emitted only for manual
changes to remote tracks and is left out with them. `nextTrackReadiness` is modelled
where it says that the next track is not ready (`Unready`): while the controller waits
for the engine to move on to that track, the handler goes on by itself at once
(`HandleUnready`), as it does when the watchdog expires. The handler
remembers that a track is ready only to extend the watchdog (`enginehandler.cpp:584`),
which the rule about the watchdog under "Fairness" stands for; that signal is left out.

## The runs

| run | question | properties |
|---|---|---|
| `queue` | the queue as its class allows, two workers, shutdown | `TypeOK` `NoLostWake` `ShutdownStaysEmpty` `BarrierHolds` `CoalescedOnce` `Bounded` `RunOrder` `DirectTasksKept` `QueuedTaskLeaves` |
| `ring` | plain, overwriting, reserving and resetting clients of the ring | `TypeOK` `NoRace` `ResetOnce` `ImplementsFifo` |
| `order` | the mailbox with the store seen in order, or late | `SignalHasWakeInOrder` `FadeHasSignal` `OneWake` `FadesReachEngine` |
| `decode` | is a dry stream always fed again? (deadlock checked) | `TypeOK` `StoppedTimerForgets` `DryStreamIsFed` |
| `prepare` | preparation under cancels, aborts, and shutdown | `TypeOK` `NoAbortedResult` `ResultsInOrder` `NoLateStart` `CancelledJobEnds` `StopReturns` |
| `transport` | commands during the fades of others, late timers and events, failing devices (deadlock checked) | `TypeOK` `OnlyAskedFor` `DrainIsPolled` `PipeFollowsEngine` `DrainEnds` |
| `handoff` | do player and engine, each changing tracks on its own, end up agreeing? | `HandoffTypeOK` `NeverPlaysUnasked` `ShowsWhatIsHeard` `ArmedIsPrepared` `UpcomingAgrees` `ArmedNeverMovesOn` `QueueLosesOnlyWhatPlays` `TracksInOrder` `PlaysToTheEnd` |

Five runs find what the code does against what it says; each is a finding:

* `reset` (`EachItemOnce`): a reset applied by one side of the ring while the other is
  inside a call is half undone, and items are handed out twice. The header calls
  `requestReset` safe from both threads.
* `relaxed` (`SignalHasWake`): the store that allows a new wake may be seen after the
  load that looks for late signals; a signal marked in between waits for the next one.
  `decode` shows that a dry stream is fed all the same, by the position update.
* `pending` (`PendingManualHasJob`): while a manual change to a remote track waits to
  be buffered, the preparation of the following track takes its place in the worker's
  only slot; the change stays pending for ever and asking again does nothing.
* `silentplay` (`PlayingIsHeard`): a track chosen during a fade in sets `m_fadeOnNext`,
  which outlives that fade. A later play during the fade of a pause or a stop then keeps
  that fade instead of fading in, its result is dropped as out of date, and the engine
  plays in silence.
* `ignored` (`PlayerShowsWhatPlays`): a track is queued while the engine's commit of the
  next one is on its way. The handler compares the commit with the upcoming track, which
  is now the queued one, and ignores it; the player goes on showing the track before,
  and ignores its successor's boundary too. This is why `ShowsWhatIsHeard`,
  `UpcomingAgrees` and others exclude scenarios in which the queue changes.

More observations have no run of their own. Two are exceptions in properties of
`handoff`. A stop at the end of the last track is put off until the output has played
what it holds; if the engine changes to another track meanwhile, the timer finds another
generation and the stop is given up, with nothing sent to the player
(`NeverPlaysUnasked`; the comment at `audioengine.cpp:1255` says only that the stop
waits). And when the player has no next track to announce, the engine may still go on to
one that it prepared earlier, and the handler ignores the commit (`ShowsWhatIsHeard`,
`TracksInOrder`). A stop that overtakes a change of track leaves the session's request
behind (`Requested`), although the handler has forgotten the change. A duplicate commit
of a queued track removes another entry of the same track, since `commitCurrentTrack`
falls back on the first that matches. `NoRace` does not hold for the ring with a client
that overwrites and a live reader: a writer that makes room moves the reader's position
and copies into the slot that the reader is copying; the mailboxes of the analysis are
used that way. In `EngineTransport` a stop fade can begin while radio runs low; the next
decode tick then holds the pipeline, the fade stands still, and the stop waits for the
network (`fadeState = "toStop"` with `pipe = "held"` is reachable), which the comment at
`audioengine.cpp:1241` wants to avoid. And an output that is opened again during a fade
to pause or to stop drops what was asked for.

Three were met in the code around `PlaybackHandoff`, outside what it models. A change of
repeat-track (`audioengine.cpp:4440`) takes a prepared stream out of the pipeline without
rebuilding the current one, although the next track's decoder may have been adopted; the
switch of the automatic transitions (`audioengine.cpp:618`) does rebuild it there. A
change of the play mode while the output plays the rest of the last track announces a
next track, and the engine may move on to it although the player has stopped. And with
repeat-track and no position in the playlist yet, the next index is the one before any
track, so that play finds nothing (`playlist.cpp:667`).

### Bounds

* The queue holds 2 tasks and drains 2 at a time, both instead of 64, so that it is full,
  evicts and drains in several batches with 4 tasks (`MaxTasks`). Two barrier scopes
  (`MaxScopes`) show one raised after another. Two workers besides the engine show the
  race of wakes. Every thread may enqueue every type, which is more than `AudioEngine`
  does: its workers post only results, the engine its timers and pipeline wakes.
* A ring of 4 slots (`Slots`) with chunks of up to 3 wraps in the middle of a copy
  within the items of each client. One reset shows the finding, two show that a second
  request during the first is kept.
* Three queued fades (instead of 128) read 2 at a time (instead of 16) make the reader
  signal itself for the rest; 5 fades (`MaxFades`) overflow the queue; 2 stops (`MaxStops`) leave
  wakes behind twice.
* `decode`: a stream of 5 chunks with watermarks at 1 and 2 and the level that the
  mixer calls low at 3, as the smallest ratios of the settings give (5 %,
  `src/src/gui/settings/playback/outputpage.cpp:107`). Two reopenings of the device.
* `prepare`: two jobs, two cancels, two items of which one is remote and three tracks
  in a row (`MaxTracks`): enough for a result to be late by a job, a cancel and a
  track. `pending` has three items: the current, the remote and the one that follows.

* `transport`: two transport transitions (`MaxFades`): a stop during the fade of a pause,
  a second pause after an interrupted one. With three the run passes as well (167 199
  states instead of 63 210), too slowly to repeat for every change. A file and a radio
  source; no fades, all fades, or fades out only. `silentplay` needs one transition.

* `handoff`: a playlist of three tracks (one to play, one to follow, one to end with), a
  queue of two, and seven scenarios (`MCScenarios`), in which the user gives at most two to
  four commands of certain kinds while the tracks change on their own, and certain
  things may go wrong. The watchdog is late only in three of them. 14 identities
  (`MaxItem`) bound what is in use at once: `NamesLeft` guards every step, since the code's
  counters never run out, and no run comes near it. `MaxUnready`
  is 1: the next preparation ends once the handler has heard that the last one left no
  track ready, since the engine prepares the track again at every candidate and position
  update that finds nothing prepared, and the same signal could pile up without end. With 2
  the safety properties hold as well, scenario by scenario. The seventh scenario, four commands
  without faults, is there for what a stop that is put off meets. `ignored` is the
  scenario of a user who plays, pauses and queues, without faults.

The counters that only bound a behaviour are named `Max...` and stand in guards.

### Fairness

* Engine: its event loop delivers posted events and timers and finishes its handlers;
  worker threads finish a call they began (`EngineTaskQueue`). Nobody has to enqueue.
* Audio thread: it keeps running cycles and runs queued commands between two of them.
  That the device is ever full is not assumed. The timers of the engine (decode tick,
  position update) fire repeatedly while active: strong fairness, since handlers in
  between may disable a tick for a moment.
* A relaxed store becomes visible in the end.
* Transport: a timer that polls whether the output has played what it holds is delivered,
  and either it has or the watchdog of the pause expires (`audioengine.cpp:2591`).
  Nothing else: fades need not end, and users need not do anything.
* Hand-off: both event loops deliver what was posted, the engine updates its position
  while it plays and the stream moves on, preparations end, timers fire. TLC would have
  to evaluate ENABLED of actions that try every input; each weak fairness is therefore
  written out as "what enables the action is off again and again, or the action occurs
  again and again". Two rules bound the races to those that time allows: the stream
  leaves the body of a track only when no call or signal is on its way (a track is
  longer than the delivery of a message), and, unless a scenario has the fault `late`,
  the watchdog expires only when the engine is not about to move on, which is what its
  delay of half a buffer and its extension (`enginehandler.cpp:586`) are for.
* Prepare worker: it runs; opening a source ends (network time-outs); a decoder asked
  to abort returns, which is what `requestAbort` is documented for in
  `src/include/core/engine/audioinput.h`. A decoder that nobody aborts may block for
  ever, so `StopReturns` and `CancelledJobEnds` really depend on the abort.

## What is proved

For every value of the constants that the named assumptions of the modules allow:

* `SeqSelectProofs`: `SelectSpec`, `SelectDisjoint`, `SelectThins`. `Select` is a
  recursive function, and its facts are proved by induction on the natural numbers
  through an explicit sequence of choices (`Picks`).
* `EngineTaskQueueProofs`: `IInv` is inductive, and gives `TypeOK`, `NoLostWake`,
  `BarrierHolds`, `Bounded` and `ShutdownStaysEmpty`. `NoLostWake` alone is not
  inductive: one has to know that a set latch means that an event is posted, about to
  be posted or being handled (`LatchMeansWake`), that a runnable task means a set latch
  or somebody who will look (`RunnableMeansLatch`), and where drains and barrier scopes
  can be at the same time (`Control`). `OrderInv` adds the order of the tasks across
  both queues: what is held back is older than what is not, except between the two
  halves of `setBarrier(true)`, where it is the other way round. With it `CoalescedOnce`
  and `RunOrder` hold; `DirectTasksKept` follows from what eviction, coalescing and the
  two moves of a barrier take out of a queue. Any number of threads and tasks, any batch
  and capacity.
* `LockFreeRingBufferProofs`: `TypeOK` and `ResetOnce` for every client; for those that
  neither reset nor overwrite, `NoRace` and the refinement of `BoundedFifo`. Each side
  works with a copy of the other's position that may be old. The invariant (`Sided`)
  says that what it was told still holds: the other side's moves only add room for the
  writer and items for the reader (`WriterMoves`, `ReaderMoves`, which are about
  positions that wrap around). For the refinement, `Moved` says what a side that is
  about to publish has copied; a publishing store is then a step of the FIFO, and every
  other step leaves `Content` as it is. `ResetOnce` counts the requests, the applied
  ones and the one being applied (`ResetBalance`).
* `PipelineSignalsProofs`: `FadeInv` gives `TypeOK` and `FadeHasSignal`, and with the
  bound on owed wakes `OneWake`, with the store in or out of order; `WakeInv` gives
  `SignalHasWakeInOrder`, that is `SignalHasWake` where the store is in order. The run
  `relaxed` shows that the condition is needed.
* `DecodeDemandProofs`: the loop implements the specification of the mailbox
  (`MailboxIsUsedAsSpecified`), so that its types come from there; `TypeOK`, and
  `StoppedTimerForgets`, which is inductive with the types.
* `NextTrackPrepareProofs`: `TypeOK`, `NoAbortedResult`, `ResultsInOrder`,
  `NoLateStart`. An abort names no job: it goes to whichever decoder is registered. That
  it only hits a cancelled one rests on three things in `WorkerInv`: inside a call that
  cancels, the slot is empty and the job's flag is set (`Flags`); a job whose decoder was
  told to abort is cancelled and not about to post (`Aborts`); and the registered decoder
  is the job's, until after its last look at the flag (`JobHeld`). `Tokens` orders what
  was posted, the job, the slot and what is to come. For the engine, `Wanted` ties a
  pending manual change to what the user chose last.
* `EngineTransportProofs`: `TypeOK`, `DrainIsPolled`, `PipeFollowsEngine` and
  `OnlyAskedFor`, for any number of transitions. The two invariants are inductive only
  together with `BufferOk` (only radio buffers, and only with a decoder), `FadeOk` (a
  fade out is pending only while the engine plays) and `SuspendOk` (a live stream given
  up by a pause neither plays nor drains); `FadeAsked` says that what a pending fade
  leads to was asked for. A handler is a composition of operators, and so is its proof:
  each operator has a lemma that says which fields it keeps and what it leaves.
* `PlaybackHandoffProofs`: `ArmedIsPrepared`, `ArmedNeverMovesOn` and
  `QueueLosesOnlyWhatPlays`, for any playlist, queue, scenario and number of commands. `IInv` has one half for each side. The
  engine's (`Sound`) says that while something is attached no preparation runs, and that
  a running one has nothing prepared beside it (`Held`); and that once automatic changes
  are off, nothing is attached, nothing is announced, and a change that is under way has
  no stream, or nothing prepared, to go on with (`Off`). It is shown for a call of any kind, so that it
  depends on the player only in one point: a next track is named only while automatic
  changes are on. That is the other half (`Tells`): the calls on their way, read in
  order, leave the engine with what the player wants, and name a next track only where
  the switch is on (`OnAt`). Every operator of the player and the handler is shown to
  keep it. For the queue, `Tied` says that what was made from an entry (the request, the
  change that the handler waits for, the announced next track) names the track of that
  entry for as long as the entry is there, whatever was queued or cleared meanwhile; a
  commit therefore removes the entry of the track that plays (`CommitTied`), and no other
  step that a signal or a timer causes touches the queue. It needs that a new entry gets
  an identity that nothing refers to (`NewId`), and that a selected track that counts as
  queued has none.

  On top of these, `TInv` is inductive: the types of both records, of the queue and of
  everything on its way (`Fits`, `EngineTyped`); a boundary that waits to be heard or has
  been signalled belongs to a stream that has drained (`Marked`); and a signal on its way
  that would make the player show a pause or a stop, while the engine plays, is followed
  by one that says that it plays (`Announces`). It gives `HandoffTypes` for every
  playlist, queue and pool of names. `EndsFirst` follows step by step: what the engine
  does on its own either stays at its track, or starts from a drained stream, or has put
  the boundary in the channel (`Turns`, `Leaves`). `NeverUnasked` is about both
  channels at once. `Agreed` says of the pair that if the engine plays, the player shows
  it, or a playing signal is on its way, or a halting call with no play after it. A
  command of the user keeps it because whatever it does to what is shown it also sends, as the last
  call of that kind (`Goes`, `Passes`); a call of the handler because the engine answers
  it with the signal, or obeys (`Obeys`); a signal because a playing one makes the
  player show it, and of the halting ones the last is never the engine's latest word
  (`Slips`, with `Announces`). What is left is the end of the wait of a stop that was
  put off, which is the exception the property names.

  `SameNext` proves `UpcomingAgrees` from an invariant about the next track
  (`Announced`): the last candidate on its way, or with none the one that the engine
  holds, is what the player announces (`Hears`). A call could break it in one way: once
  the decoder of the next track has taken over, the engine ignores a candidate. By then
  the end of the input has been noticed (`Taken`, `Late`), which happens when nothing is
  on its way, and from there on the candidates on their way name no other track than the
  one before them, except after a call that switches automatic changes off, which the
  engine does not ignore (`Follows`, and `Ready` for one that is still to be sent).
  They stay so because the player announces another track only when it takes one over,
  and no signal is on its way that makes it do so (`Clear`): the engine sends one when it
  starts a track, and then nothing is `Late` any more (`Rests`, `Starts`).

### Only model-checked

* Liveness (`QueuedTaskLeaves`, `FadesReachEngine`, `DryStreamIsFed`, `CancelledJobEnds`,
  `StopReturns`, `DrainEnds`, `PlaysToTheEnd`): the prover has no rule for fairness or
  ENABLED.
* Of the hand-off, `ShowsWhatIsHeard` and the second half of `TracksInOrder` (its first
  half is `LeavesAtItsEnd`, which is proved): they compare tracks and not only items, and
  the track that plays, which a load, a commit, a commit that is not recognised and a
  track that cannot be played each change on one side first. Their invariant has to say
  what every sequence of calls and signals on both channels will lead to, for a request
  that a stop or a second request has outrun as well.
* What the violating runs show: each is a counterexample in one instance.

## Plan

What is left, the most important first.

1. Proofs: which track each side will play when both channels have been read, for
   `ShowsWhatIsHeard` and the rest of `TracksInOrder`.
2. The hand-off, the rest: crossfades and fades at the boundary, seeks, segments of one
   file, remote tracks; the previous track, the other play modes and a restored session.
3. `EngineTransport`, the rest: seeks, restored positions, rebuilds for another buffer
   length and the fade of a manual change; an abstract transport (what was asked for is
   what is reached) that it implements while no flag is left behind.
4. `PipelineCommands`: the command queue, streams, orphans; refines a queue.
5. `LibraryRequests`, `PlaylistChanges` (change sets against a reference definition),
   `TimedAudioFifo`, `AnalysisWake`.

## Not modelled, and why

In the hand-off: crossfades, seeks, segments, radio and the start-up from a saved session
(see its paragraph above); each adds states to both records, and the run is near the size
that can be repeated for every change. Samples and their arithmetic, formats, DSPs and mixing; decoders, network protocols,
tags and SQL, which belong to libraries; wording, logging and settings. The task queue
is not composed with the mailbox: a coalesced wake task evicted at 64 tasks is a
listed hazard. The ring's `memory_order` is not modelled beyond program order, as the
class uses acquire and release where the two sides meet.
