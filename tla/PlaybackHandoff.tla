-------------------------- MODULE PlaybackHandoff --------------------------
(***************************************************************************)
(* The player and the engine, which keep their own record of what plays and   *)
(* of what plays next, and tell each other of every change: the handler's     *)
(* calls run on the engine's thread in the order they were dispatched, the    *)
(* engine's signals are queued to the main thread in the order they were      *)
(* emitted, and neither side waits for the other.                             *)
(*                                                                         *)
(* An action is one command of the user, one call or one signal that is       *)
(* delivered, one update of the position, or a timer.                         *)
(***************************************************************************)
EXTENDS PlaybackSession, TrackHandover

CONSTANTS
    Scenarios,       \* what a user does, how often, and what goes wrong
    MaxQueue,        \* a bound on the playback queue
    MaxUnready,      \* a bound on the preparations that end before the handler
                     \* has heard that the last ones left no track ready
    MaxItem          \* identities of items and queue items are 1 .. MaxItem,
                     \* generations too: no step is taken without one left

UserCommands == {"playPause", "stop", "next", "select", "enqueue", "clearQueue", "arm"}

\* open: a track cannot be opened; prepare: the preparation of one fails;
\* mismatch: the next track needs another output; late: the engine answers
\* after the watchdog.
KnownFaults == {"open", "prepare", "mismatch", "late"}

ASSUME HandoffAssumption ==
    /\ Scenarios \subseteq [does : SUBSET UserCommands, most : Nat, faults : SUBSET KnownFaults]
    /\ MaxQueue \in Nat /\ MaxUnready \in Nat /\ MaxItem \in Nat \ {0}

VARIABLES
    main,       \* the main thread's record (PlaybackSession)
    engine,     \* the engine thread's record (TrackHandover)
    scenario,   \* the member of Scenarios that happens
    commands    \* how many commands the user has given

vars == <<main, engine, scenario, commands>>

-----------------------------------------------------------------------------
(* Identities in use.                                                       *)

CarriedItems(c) == IF c.call \in {"load", "candidate", "prepare"} THEN {c.item.item} ELSE {}
SignalledItems(s) == IF s.signal \in {"committed", "unready"} THEN {s.item} ELSE {}
SignalledGens(s)  == IF s.signal \in {"state", "unready"} THEN {} ELSE {s.gen}

ItemsInUse ==
    {main.current.item, main.request.item, main.upcoming.item, main.change.item, main.heard,
     main.owned.item, main.current.qid, main.request.qid, main.upcoming.qid, main.change.qid,
     engine.current.item, engine.candidate.item, engine.prepared.item, engine.job.item,
     engine.armed.item}
    \cup {main.queue[k].qid : k \in DOMAIN main.queue}
    \cup UNION {CarriedItems(main.out[k]) : k \in DOMAIN main.out}
    \cup UNION {SignalledItems(engine.out[k]) : k \in DOMAIN engine.out}

GensInUse ==
    {main.changeGen, main.owned.gen, main.ending.gen, engine.gen, engine.armed.gen}
    \cup {t.gen : t \in main.timers} \cup engine.timers
    \cup UNION {SignalledGens(engine.out[k]) : k \in DOMAIN engine.out}

Main   == [main EXCEPT !.pool = (1 .. MaxItem) \ ItemsInUse]
Engine == [engine EXCEPT !.pool = (1 .. MaxItem) \ GensInUse]

\* The record of a thread after a step.
Settled(r) == [r EXCEPT !.pool = {}]

Opens == {TRUE} \cup (IF "open" \in scenario.faults THEN {FALSE} ELSE {})
Hows  == {"fits"} \cup (IF "prepare" \in scenario.faults THEN {"failed"} ELSE {})
                  \cup (IF "mismatch" \in scenario.faults THEN {"mismatch"} ELSE {})

-----------------------------------------------------------------------------

\* GaplessPlayback is a setting; the others have their defaults.
Init ==
    /\ \E gapless \in BOOLEAN : main = Fresh(gapless) /\ engine = StartEngine(gapless)
    /\ scenario \in Scenarios
    /\ commands = 0

Commanded(command, m) ==
    /\ command \in scenario.does /\ commands < scenario.most
    /\ main' = Settled(m)
    /\ commands' = commands + 1
    /\ UNCHANGED <<engine, scenario>>

UserPlayPause  == Commanded("playPause", PlayPause(Main))
UserStop       == Commanded("stop", Stop(Main))
UserNext       == Commanded("next", SkipToNext(Main))
UserSelect     == \E i \in Tracks : Commanded("select", Select(Main, i))
UserEnqueue    == /\ Len(main.queue) < MaxQueue
                  /\ \E i \in Tracks : Commanded("enqueue", Enqueue(Main, i))
UserClearQueue == main.queue # <<>> /\ Commanded("clearQueue", ClearQueue(Main))
UserArm        == Commanded("arm", SetArmed(Main, ~main.armed))

\* One call of the handler on the engine's thread.
EngineReceives ==
    /\ main.out # <<>>
    /\ \E opens \in Opens, rest \in BOOLEAN :
           engine' = Settled(Run(Engine, Head(main.out), opens, rest))
    /\ main' = [main EXCEPT !.out = Tail(@)]
    /\ UNCHANGED <<scenario, commands>>

\* One signal of the engine on the main thread.
HandlerReceives ==
    /\ engine.out # <<>>
    /\ main' = Settled(Handle(Main, Head(engine.out)))
    /\ engine' = [engine EXCEPT !.out = Tail(@)]
    /\ UNCHANGED <<scenario, commands>>

EngineSteps(e) ==
    /\ engine' = Settled(e)
    /\ UNCHANGED <<main, scenario, commands>>

NothingOnItsWay == main.out = <<>> /\ engine.out = <<>>

\* How far the decoder and the output may have come since the last update. A
\* track is longer than a call or a signal is on its way.
Later(stream) ==
    CASE stream = "body"  -> IF NothingOnItsWay THEN {"ended", "drained"} ELSE {}
      [] stream = "ended" -> {"ended", "drained"}
      [] OTHER            -> {stream}

\* updatePosition, checkTrackEnding: what the engine can find.
Updates ==
    IF engine.playback # "playing" \/ engine.stream = "none" THEN {}
    ELSE {CheckEnding(Engine, stream, heard, rendered, rest, how) :
             stream \in Later(engine.stream),
             heard \in BOOLEAN,
             rendered \in IF IsArmed(engine) THEN BOOLEAN ELSE {FALSE},
             rest \in BOOLEAN, how \in Hows}

PositionUpdate == \E e \in Updates : EngineSteps(e)

StreamMoves == PositionUpdate /\ engine'.stream # engine.stream

Unheard == {k \in DOMAIN engine.out : engine.out[k].signal = "unready"}

JobMayEnd == engine.job.track # 0 /\ Cardinality(Unheard) < MaxUnready

\* The result of a preparation is applied.
PrepareDone ==
    /\ JobMayEnd
    /\ \E how, now \in Hows : EngineSteps(JobDone(Engine, how, now))

\* The output has played what it held when the engine was told to stop.
StopTimerFires == \E gen \in engine.timers : EngineSteps(StopTimer(Engine, gen))

MainSteps(m) ==
    /\ main' = Settled(m)
    /\ UNCHANGED <<engine, scenario, commands>>

\* The output has played what it held at the boundary.
RestTimerFires == \E t \in main.timers : MainSteps(RestPlayed(Main, t))

EngineMovesOn == engine.playback = "playing" /\ (engine.job.track # 0 \/ IsArmed(engine))

\* The engine did not move on after the end of a track that it had said it
\* would leave.
WatchdogMayFire ==
    /\ main.watchdog
    /\ "late" \in scenario.faults \/ (NothingOnItsWay /\ ~EngineMovesOn)

WatchdogFires == WatchdogMayFire /\ MainSteps(WatchdogExpires(Main))

UserSteps == \/ UserPlayPause \/ UserStop \/ UserNext \/ UserSelect \/ UserEnqueue
             \/ UserClearQueue \/ UserArm

\* No step names more than two things on the main thread and one generation on
\* the engine's: MaxItem bounds what is in use at once, and no run comes near it.
NamesLeft == Cardinality(Main.pool) >= 2 /\ Engine.pool # {}

Next == /\ NamesLeft
        /\ \/ UserSteps
           \/ EngineReceives \/ HandlerReceives
           \/ PositionUpdate \/ PrepareDone \/ StopTimerFires
           \/ RestTimerFires \/ WatchdogFires

\* Both event loops run, the engine updates its position while it plays, and
\* timers fire: each of these actions is weakly fair. (ENABLED is written out as
\* what enables the action.) The user need not do anything.
Fairness ==
    /\ []<>(main.out = <<>>) \/ []<><<EngineReceives>>_vars
    /\ []<>(engine.out = <<>>) \/ []<><<HandlerReceives>>_vars
    /\ []<>(\A e \in Updates : Settled(e) = engine) \/ []<><<PositionUpdate>>_vars
    /\ []<>(\A e \in Updates : e.stream = engine.stream) \/ []<><<StreamMoves>>_vars
    /\ []<>(~JobMayEnd) \/ []<><<PrepareDone>>_vars
    /\ []<>(engine.timers = {}) \/ []<><<StopTimerFires>>_vars
    /\ []<>(main.timers = {}) \/ []<><<RestTimerFires>>_vars
    /\ []<>(~WatchdogMayFire) \/ []<><<WatchdogFires>>_vars

Spec     == Init /\ [][Next]_vars
FairSpec == Spec /\ Fairness

-----------------------------------------------------------------------------
(* Properties.                                                              *)

\* Every call and every signal has arrived, and the engine waits for nothing.
Quiet == NothingOnItsWay /\ engine.timers = {}

Without(commandsOf) == scenario.does \cap commandsOf = {}

Id == 0 .. MaxItem
PositionType   == 0 .. LastTrack
OccurrenceType == [track : PositionType, item : Id, queued : BOOLEAN, qid : Id]
RequestType    == [track : PositionType, item : Id, queued : BOOLEAN, qid : Id, manual : BOOLEAN]

\* The parts of the two records have their types, and what is announced as the
\* next track has a name exactly when there is one.
HandoffTypeOK ==
    /\ main.play \in {"stopped", "playing", "paused"}
    /\ {main.current, main.upcoming} \subseteq OccurrenceType
    /\ main.upcoming.item = 0 <=> main.upcoming.track = 0
    /\ {main.request, main.change} \subseteq RequestType
    /\ main.resume \in PositionType /\ main.index \in PositionType /\ Len(main.queue) <= MaxQueue
    /\ engine.playback \in {"stopped", "playing", "paused"}
    /\ engine.status \in {"none", "ok", "end", "invalid"}
    /\ engine.stream \in {"none", "body", "ended", "drained"}
    /\ {engine.current, engine.candidate, engine.job} \subseteq [track : PositionType, item : Id]
    /\ engine.prepared \in [track : PositionType, item : Id, fits : BOOLEAN]
    /\ engine.armed \in [track : PositionType, item : Id, gen : Id, adopted : BOOLEAN]
    /\ commands \in 0 .. scenario.most

\* A signal that the engine plays is on its way.
PlayingOnItsWay ==
    \E k \in DOMAIN engine.out : engine.out[k].signal = "state" /\ engine.out[k].play = "playing"

\* A call that ends the playback is on its way, and none that resumes it after.
HaltOnItsWay ==
    \E k \in DOMAIN main.out : /\ main.out[k].call \in {"pause", "stop"}
                               /\ \A j \in DOMAIN main.out : main.out[j].call = "play" => j < k

\* While the engine plays, the player shows it, or one will hear from the other.
TransportAgrees ==
    engine.playback = "playing" =>
        main.play = "playing" \/ PlayingOnItsWay \/ HaltOnItsWay \/ engine.gen \in engine.timers

\* Nothing is heard while the player shows that it is stopped or paused:
\* whatever overtakes a stop or a pause on its way (an automatic change of
\* track, the end of one, a retry by the watchdog), the engine ends up as the
\* player says. One thing alone undoes this: a stop that the engine has put off
\* until its output is drained is given up when the track changes meanwhile.
NeverPlaysUnasked ==
    TransportAgrees /\ [][TransportAgrees => TransportAgrees' \/ engine.gen \in engine.timers]_vars

\* The player shows the track that is heard, although each side changes the
\* track on its own and hears of the other's changes later. (A request that a
\* stop has outrun may stay; a change of the queue or of the stop after the
\* current track may cross a commit, see PlayerShowsWhatPlays; a selected track
\* may be followed by one that was prepared before. With nothing announced, the
\* engine may fall back on a track that it has prepared earlier, whose commit
\* the handler ignores.)
ShowsWhatIsHeard ==
    /\ Quiet /\ engine.playback = "playing" /\ ~Requested(main)
    /\ Without({"enqueue", "arm", "select"})
    => \/ main.current.track = engine.current.track
       \/ main.upcoming.track = 0 /\ main.heard # main.current.item

\* What is attached to follow the current stream is what has been prepared,
\* until its decoder takes over: none of the paths that give up a preparation
\* (a load, a new candidate, a stop, the failure of a later job) leaves a stream
\* attached whose decoder is gone.
ArmedIsPrepared ==
    IsArmed(engine) /\ ~engine.armed.adopted => Same(engine.prepared, engine.armed)

\* The track that the engine will go on to is the one that the player announces
\* as the next, after any sequence of commands, except that a change of the
\* queue may be ignored once the next decoder has taken over.
UpcomingAgrees ==
    /\ Quiet /\ engine.candidate.track # 0
    /\ Without({"enqueue"})
    => Same(main.upcoming, engine.candidate)

\* With the stop after the current track armed, and the engine told of it, the
\* engine does not change the track on its own, whatever it had prepared.
ArmedNeverMovesOn ==
    [][Quiet /\ main.armed /\ UNCHANGED main => engine'.current = engine.current]_vars

\* Without a command of the user, a track leaves the queue only when it becomes
\* the current track: the commit of a request that a later change of the queue
\* has outrun takes nothing else away.
QueueLosesOnlyWhatPlays ==
    [][commands' = commands
         => \A k \in DOMAIN main.queue :
                \/ \E j \in DOMAIN main'.queue : main'.queue[j] = main.queue[k]
                \/ main'.current.queued /\ main'.current.track = main.queue[k].track]_vars

\* The engine leaves a track on its own, with no call of the handler, only when
\* its stream has drained or its boundary has been signalled.
LeavesAtItsEnd ==
    [][engine'.current # engine.current /\ UNCHANGED main
         => \/ engine.stream = "drained"
            \/ \E k \in DOMAIN engine'.out :
                   engine'.out[k].signal = "boundary" /\ engine'.out[k].gen = engine.gen]_vars

\* Tracks are heard in the order of the playlist and to their end: although the
\* engine, the controller at the boundary and the watchdog may each go on to the
\* next one, none is skipped. (1 follows the end, and a stop. With nothing
\* announced, the engine falls back on a track that it has prepared earlier.)
TracksInOrder ==
    /\ LeavesAtItsEnd
    /\ [][engine'.current # engine.current /\ Without({"select", "enqueue"})
            => LET i == engine.current.track
               IN  \/ engine'.current.track \in {i, NextIndex(i), 1}
                   \/ /\ engine.candidate.track = 0 \/ Same(engine.candidate, engine.current)
                      /\ Same(engine.prepared, engine'.current)]_vars

\* What is started plays to the end: after one command of the user, the playlist
\* is played until both sides have stopped, or playback is paused at a track
\* that cannot be played. No lost preparation, late answer or ignored signal
\* leaves the player waiting at the end of a track.
PlaysToTheEnd ==
    main.play = "playing" /\ commands = 1 ~>
        \/ commands > 1
        \/ main.play = "stopped" /\ engine.playback = "stopped"
        \/ main.play = "paused" /\ engine.playback # "playing"

\* "Returns the currently playing track": Player::currentTrack is the engine's.
\* (Where the user has changed the queue while the engine changed the track, the
\* handler expects the queued track next and does not recognise the one that the
\* engine has gone on to.)
PlayerShowsWhatPlays ==
    Quiet /\ engine.playback = "playing" => main.current.track = engine.current.track
============================================================================
