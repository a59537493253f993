-------------------------- MODULE PlaybackSession --------------------------
(***************************************************************************)
(* The main thread's side of playback: the player controller with its         *)
(* session, queue and playlist position (src/core/playback/), and the engine  *)
(* handler that its signals call at once (src/core/engine/enginehandler.cpp). *)
(*                                                                         *)
(* The operators map a record m to the next one.  m.out holds the calls that  *)
(* the handler has dispatched to the engine's thread, oldest first.  The      *)
(* playback order is that of one playlist, played once from its first track   *)
(* to its last; a track is its position there, and 0 is no track.  Queued     *)
(* tracks are played before the playlist goes on.  Left out: the previous     *)
(* track, seeks and A-B repeat, other play modes, remote tracks, the queue as *)
(* the source of playback and a restored session.  Identities of playback     *)
(* items, queue items and generations are only ever compared, so that a new   *)
(* one is any that nothing refers to (m.pool).                                *)
(***************************************************************************)
EXTENDS Integers, Sequences, SequencesExt, FiniteSetsExt

CONSTANTS
    LastTrack     \* the number of tracks in the playlist

ASSUME PlaylistAssumption == LastTrack \in Nat \ {0}

Tracks == 1 .. LastTrack

NoItem == [track |-> 0, item |-> 0]

\* A track that plays, is asked for or comes next, and where it comes from.
NoOccurrence == [track |-> 0, item |-> 0, queued |-> FALSE, qid |-> 0]

NoRequest == [track |-> 0, item |-> 0, queued |-> FALSE, qid |-> 0, manual |-> FALSE]

Fresh(gapless) ==
    [play       |-> "stopped",     \* m_playState
     current    |-> NoOccurrence,  \* the session's m_currentTrack and its ids
     request    |-> NoRequest,     \* m_pendingRequest
     manual     |-> FALSE,         \* m_pendingChangeContext.userInitiated
     upcoming   |-> NoOccurrence,  \* m_lastUpcomingTrack, the handler's m_upcomingTrack
     resume     |-> 0,             \* m_scheduledTrack, of kind StopAfterCurrentResume
     queue      |-> <<>>,          \* PlaybackQueue
     index      |-> 0,             \* Playlist::m_currentTrackIndex + 1
     atEnd      |-> FALSE,         \* PlaybackCursor::m_boundaryStop = End
     armed      |-> FALSE,         \* m_stopAfterCurrentArmed
     gapless    |-> gapless,       \* the setting GaplessPlayback
     change     |-> NoRequest,     \* EngineHandler::m_pendingTrackChange
     changeGen  |-> 0,             \* m_pendingTrackChangeGeneration
     heard      |-> 0,             \* m_currentTrackItemId
     owned      |-> [track |-> 0, item |-> 0, gen |-> 0],  \* m_engineOwnedTransition*
     suppressed |-> FALSE,         \* m_endAdvanceSuppressed
     watchdog   |-> FALSE,         \* m_endAdvanceWatchdog runs
     ending     |-> [track |-> 0, gen |-> 0, ready |-> FALSE],  \* m_pendingBoundaryAdvance*
     timers     |-> {},            \* the single-shot timers of handleTrackBoundaryReached
     pool       |-> {},
     out        |-> <<>>]

Send(m, call) == [m EXCEPT !.out = Append(@, call)]

Item(o) == [track |-> o.track, item |-> o.item]
\* samePlaybackItem
SameItem(a, b) == IF a.item # 0 /\ b.item # 0 THEN a.item = b.item ELSE a.track = b.track

Requested(m) == m.request.track # 0                        \* hasPendingRequest
Idle(m)      == m.current.track = 0 /\ ~Requested(m)       \* isIdle
FromList(m)  == m.queue = <<>> /\ m.resume = 0 /\ ~m.current.queued

-----------------------------------------------------------------------------
(* What plays next.                                                         *)
\* Mutant: the last track has a next one.
NextIndexMutant(i) == i + 1

\* Playlist::nextIndexFrom in the default play mode
NextIndex(i) == IF i < LastTrack THEN i + 1 ELSE 0

\* previewPlaybackRelativeTrack(1): after the current track of the playlist,
\* or after the playlist's position while a queued track plays.
FollowingTrack(m) ==
    NextIndex(IF m.current.track # 0 /\ ~m.current.queued THEN m.current.track ELSE m.index)

FromPlaylist(i) == [NoOccurrence EXCEPT !.track = i]
QueueHead(m)    == [NoOccurrence EXCEPT !.track = Head(m.queue).track, !.queued = TRUE,
                                        !.qid = Head(m.queue).qid]

\* resolveUpcomingTrack
ResolveUpcoming(m) ==
    IF m.armed THEN NoOccurrence
    ELSE IF m.queue # <<>> THEN QueueHead(m)
    ELSE IF m.resume # 0 THEN FromPlaylist(m.resume)
    ELSE FromPlaylist(FollowingTrack(m))
\* emitUpcomingTrackChangedIfNeeded and handleUpcomingTrackChanged: an item
\* that now plays is not announced as the next one again.
EmitUpcoming(m) ==
    LET next  == ResolveUpcoming(m)
        reuse == /\ m.upcoming.track = next.track
                 /\ <<m.upcoming.queued, m.upcoming.qid>> = <<next.queued, next.qid>>
                 /\ m.upcoming.item \notin {0, m.current.item}
        item  == IF next.track = 0 THEN 0 ELSE IF reuse THEN m.upcoming.item ELSE Min(m.pool)
        up    == [next EXCEPT !.item = item]
    IN  IF up = m.upcoming THEN m
        ELSE Send([m EXCEPT !.upcoming = up, !.pool = @ \ {item}],
                  [call |-> "candidate", item |-> Item(up)])

\* selectPlaybackOrderTrack(1): the queue, or the playlist, whose position
\* moves and is lost at the end.
InOrder(m)       == IF m.queue # <<>> THEN QueueHead(m) ELSE FromPlaylist(FollowingTrack(m))
MoveInOrder(m)   == IF m.queue # <<>> THEN m ELSE [m EXCEPT !.index = FollowingTrack(m)]

-----------------------------------------------------------------------------
(* What the player's signals do in the handler.                             *)

\* clearPendingBoundaryAdvance
ForgetEnding(m) == [m EXCEPT !.ending = [track |-> 0, gen |-> 0, ready |-> FALSE]]

\* clearEngineOwnedTransition
ForgetOwned(m) ==
    [m EXCEPT !.owned = [track |-> 0, item |-> 0, gen |-> 0], !.suppressed = FALSE,
              !.watchdog = FALSE]

ForgetTransitions(m) == ForgetOwned(ForgetEnding(m))
\* handleTrackChangeRequest
HandleRequest(m, r) ==
    Send([ForgetTransitions(m) EXCEPT !.change = r, !.changeGen = 0],
         [call |-> "load", item |-> Item(r), manual |-> r.manual])

\* PlayerControllerPrivate::requestTrackChange: a stopped track that another
\* replaces is forgotten at once.
RequestTrackChange(m, o, manual) ==
    LET item == Min(m.pool)
        r    == [track |-> o.track, item |-> item, queued |-> o.queued, qid |-> o.qid,
                 manual |-> manual]
        forgotten == m.play = "stopped" /\ m.current.track # o.track
    IN  HandleRequest([m EXCEPT !.request = r, !.manual = manual, !.pool = @ \ {item},
                                !.current = IF forgotten THEN NoOccurrence ELSE @], r)

\* requestSelectedTrack: one request at a time.
RequestSelected(m, o, manual) ==
    IF o.track = 0 \/ Requested(m) THEN m ELSE RequestTrackChange(m, o, manual)

\* requestBoundaryRestart, restartPlaylistFromBeginning
RestartPlaylist(m, manual) ==
    IF Requested(m) THEN m
    ELSE RequestSelected([m EXCEPT !.index = 1, !.atEnd = FALSE], FromPlaylist(1), manual)
\* Mutant: the engine is not told.
EnterStoppedMutant(m, transport) == [m EXCEPT !.play = "stopped"]

\* enterStoppedState
EnterStopped(m, transport) ==
    IF m.play = "stopped" THEN m
    ELSE LET s == [m EXCEPT !.play = "stopped"]
         IN  IF transport THEN Send(s, [call |-> "stop"]) ELSE s

Stop(m) == EnterStopped(m, TRUE)

\* stopAtBoundary
StopAtEnd(m) == Stop([m EXCEPT !.atEnd = TRUE])

\* PlayerController::reset: the handler keeps its m_pendingTrackChange.
Reset(m) ==
    EmitUpcoming([m EXCEPT !.current = NoOccurrence, !.atEnd = FALSE, !.request = NoRequest,
                           !.manual = FALSE])

\* selectPlayFromIdleState
FromIdle(m) ==
    IF m.queue # <<>> THEN QueueHead(m)
    ELSE IF m.resume # 0 THEN FromPlaylist(m.resume)
    ELSE FromPlaylist(IF m.index # 0 THEN m.index ELSE NextIndex(0))

MoveFromIdle(m) == IF m.queue # <<>> THEN m ELSE [m EXCEPT !.index = FromIdle(m).track]

\* PlayerController::play, selectPlayAction
Play(m) ==
    LET selected ==
            IF /\ m.play = "stopped" /\ m.atEnd
               /\ m.current.track # 0 /\ ~Requested(m) /\ FromList(m)
            THEN RestartPlaylist(m, m.manual)
            ELSE IF Idle(m) THEN RequestSelected(MoveFromIdle(m), FromIdle(m), m.manual)
            ELSE m
    IN  IF Idle(selected) \/ selected.play = "playing" THEN selected
        ELSE Send([selected EXCEPT !.play = "playing"], [call |-> "play"])

Pause(m) ==
    IF m.play = "paused" THEN m ELSE Send([m EXCEPT !.play = "paused"], [call |-> "pause"])

PlayPause(m) == IF m.play = "playing" THEN Pause(m) ELSE Play(m)

PlayOrStop(m) == IF Requested(m) THEN Play(m) ELSE Stop(m)

-----------------------------------------------------------------------------
(* PlayerController::advance, selectAdvanceAction.                          *)

\* The end of a track after which playback is to stop: the next track becomes
\* the one to resume with.
StopAfterCurrent(m) ==
    IF ~FromList(m) THEN Stop(Reset(m))
    ELSE IF FollowingTrack(m) = 0 THEN StopAtEnd(m)
    ELSE Stop(Reset([MoveInOrder(m) EXCEPT !.resume = FollowingTrack(m)]))

\* advance(NaturalEnd)
AdvanceNaturally(m0) ==
    LET m == [m0 EXCEPT !.manual = FALSE]
    IN  IF m.armed THEN StopAfterCurrent(m)
        ELSE IF ResolveUpcoming(m).track = 0 THEN StopAtEnd(m)
        ELSE IF Requested(m) THEN PlayOrStop(m)
        ELSE IF m.resume # 0
        THEN PlayOrStop(RequestSelected([m EXCEPT !.index = m.resume],
                                        FromPlaylist(m.resume), FALSE))
        ELSE PlayOrStop(RequestSelected(MoveInOrder(m), InOrder(m), FALSE))

\* next(): the stop after the current track is skipped.
SkipToNext(m0) ==
    LET m       == [m0 EXCEPT !.manual = TRUE]
        resumed == IF m.resume = 0 THEN m ELSE [m EXCEPT !.index = m.resume, !.resume = 0]
        moved   == MoveInOrder(resumed)
    IN  IF m.play = "stopped" /\ m.atEnd /\ FromList(m)
        THEN PlayOrStop(RestartPlaylist(m, TRUE))
        ELSE IF Requested(m) THEN Play(m)
        ELSE IF InOrder(resumed).track # 0
        THEN PlayOrStop(RequestSelected(moved, InOrder(resumed), TRUE))
        ELSE IF FollowingTrack(moved) # 0 THEN moved
        ELSE StopAtEnd(moved)

-----------------------------------------------------------------------------
(* The other commands of the user.                                          *)

\* startPlayback: the selected position replaces whatever was asked for.
Select(m, i) ==
    LET queued == \E k \in DOMAIN m.queue : m.queue[k].track = i
    IN  Play(RequestTrackChange([m EXCEPT !.index = i],
                                [FromPlaylist(i) EXCEPT !.queued = queued], TRUE))

\* queueTracks
Enqueue(m, i) ==
    LET qid == Min(m.pool)
    IN  EmitUpcoming([m EXCEPT !.queue = Append(@, [track |-> i, qid |-> qid]),
                               !.pool = @ \ {qid}])

ClearQueue(m) == EmitUpcoming([m EXCEPT !.queue = <<>>])

\* setStopAfterCurrentArmed, and the handler's reaction to
\* trackEndAutoTransitionsEnabledChanged
SetArmed(m, armed) ==
    LET told == Send([ForgetTransitions(m) EXCEPT !.armed = armed],
                     [call |-> "auto", on |-> ~armed])
    IN  EmitUpcoming(IF armed THEN told
                     ELSE Send(told, [call |-> "candidate", item |-> Item(m.upcoming)]))

-----------------------------------------------------------------------------
(* What the engine's signals do, and the handler's timers.                  *)

\* PlaybackQueue::removeItem, or else removeFirstMatchingTrack
Dequeued(queue, r) ==
    LET k == IF \E j \in DOMAIN queue : queue[j].qid = r.qid
             THEN SelectInSeq(queue, LAMBDA q : q.qid = r.qid)
             ELSE SelectInSeq(queue, LAMBDA q : q.track = r.track)
    IN  IF k = 0 THEN queue ELSE RemoveAt(queue, k)

\* Mutant: a track of the playlist takes its place in the queue with it.
CommitMutant(m, r) ==
    LET from == IF Item(m.request) = Item(r) THEN m.request ELSE r
    IN  EmitUpcoming(
          [m EXCEPT !.current = [track |-> r.track, item |-> r.item, queued |-> from.queued,
                                 qid |-> from.qid],
                    !.manual = FALSE, !.resume = 0, !.request = NoRequest, !.atEnd = FALSE,
                    !.index = IF from.queued THEN @ ELSE r.track,
                    !.queue = Dequeued(@, from)])

\* commitCurrentTrack, commitRequest, syncCommittedPlaylistTrack: the pending
\* request goes, whether or not it is the one that is committed.
Commit(m, r) ==
    LET from == IF Item(m.request) = Item(r) THEN m.request ELSE r
    IN  EmitUpcoming(
          [m EXCEPT !.current = [track |-> r.track, item |-> r.item, queued |-> from.queued,
                                 qid |-> from.qid],
                    !.manual = FALSE, !.resume = 0, !.request = NoRequest, !.atEnd = FALSE,
                    !.index = IF from.queued THEN @ ELSE r.track,
                    !.queue = IF from.queued THEN Dequeued(@, from) ELSE @])

ForgetChange(m) == [m EXCEPT !.change = NoRequest, !.changeGen = 0]

HasAutoTransition(m) == ~m.armed /\ m.gapless       \* hasAutoTrackEndTransitionEnabled

DistinctUpcoming(m) ==                              \* hasDistinctUpcomingTrack
    /\ m.upcoming.track # 0
    /\ ~SameItem(m.upcoming, [track |-> m.current.track, item |-> m.heard])

\* tryPendingBoundaryAdvance
TryAdvance(m) ==
    IF m.ending.ready /\ m.change.track = 0 /\ m.current.track = m.ending.track
    THEN AdvanceNaturally(ForgetEnding(m))
    ELSE m

\* handleTrackBoundaryReached: either the engine changes to the next track on
\* its own, or the controller does when the output has played the rest.
HandleBoundary(m, s) ==
    LET note(n) == [n EXCEPT !.owned = [track |-> s.track, item |-> n.upcoming.item,
                                        gen |-> s.gen]]
        wait == [ForgetOwned(m) EXCEPT !.ending = [track |-> s.track, gen |-> s.gen,
                                                   ready |-> ~s.rest]]
    IN  IF m.current.track # s.track THEN m
        ELSE IF HasAutoTransition(m) /\ DistinctUpcoming(m)
        THEN IF s.owned THEN note(m)
             ELSE note(Send(Send(m, [call |-> "candidate", item |-> Item(m.upcoming)]),
                            [call |-> "prepare", item |-> Item(m.upcoming)]))
        ELSE IF s.rest
        THEN [wait EXCEPT !.timers = @ \cup {[track |-> s.track, gen |-> s.gen]}]
        ELSE TryAdvance(wait)

\* The single-shot timer of handleTrackBoundaryReached.
RestPlayed(m, t) ==
    LET fired == [m EXCEPT !.timers = @ \ {t}]
    IN  IF /\ m.ending.gen = t.gen /\ m.ending.track = t.track
           /\ m.current.track = t.track
        THEN TryAdvance([fired EXCEPT !.ending.ready = TRUE])
        ELSE fired

\* handleEndAdvanceWatchdogTimeout, resumeControllerNaturalEndAdvance
WatchdogExpires(m) ==
    LET fired == [m EXCEPT !.watchdog = FALSE]
    IN  IF m.suppressed /\ m.current.track = m.owned.track /\ m.play = "playing"
        THEN AdvanceNaturally(ForgetOwned(fired))
        ELSE fired

\* handleNextTrackReadiness, for a track that is not ready: the controller goes
\* on at once when it waits for the engine to move on to that track.
HandleUnready(m, s) ==
    IF /\ m.suppressed /\ m.current.track = m.owned.track
       /\ m.upcoming.track # 0 /\ SameItem(s, m.upcoming)
    THEN WatchdogExpires(m)
    ELSE m
\* Mutant: only a track that was asked for is taken over.
HandleCommittedMutant(m0, s) ==
    LET m == [ForgetEnding(m0) EXCEPT !.heard = s.item]
    IN  IF m.change.track # 0 /\ SameItem(m.change, s)
        THEN ForgetOwned(ForgetChange(Commit(m, m.change)))
        ELSE m

\* handleTrackCommitted: a track that was neither asked for nor comes next
\* is not taken over.
HandleCommitted(m0, s) ==
    LET m == [ForgetEnding(m0) EXCEPT !.heard = s.item]
        c == [track |-> s.track, item |-> s.item]
    IN  IF m.change.track # 0 /\ SameItem(m.change, c)
        THEN ForgetOwned(ForgetChange(Commit(m, m.change)))
        ELSE IF m.upcoming.track = 0 \/ ~SameItem(m.upcoming, c) THEN m
        ELSE IF m.armed THEN AdvanceNaturally(ForgetOwned(m))
        ELSE ForgetOwned(Commit(m, m.upcoming))

\* handleTrackStatus, and the pause of application.cpp for a track that
\* cannot be played.
HandleStatus(m, s) ==
    CASE s.status = "none" ->
            EnterStopped(ForgetChange(ForgetTransitions(m)), FALSE)
      [] s.status = "end" ->
            IF /\ m.current.track = s.track /\ m.owned.track = s.track
               /\ m.owned.gen = s.gen /\ m.owned.item # 0
            THEN [m EXCEPT !.suppressed = TRUE, !.watchdog = TRUE]
            ELSE m
      [] s.status = "invalid" ->
            LET f == ForgetTransitions(m)
            IN  Pause(IF m.change.track # 0 /\ (m.change.track = s.track \/ m.changeGen = s.gen)
                      THEN ForgetChange(Commit(f, m.change))
                      ELSE f)
      [] s.status = "loading" ->
            IF m.change.track # 0 /\ m.change.track = s.track
            THEN [m EXCEPT !.changeGen = s.gen]
            ELSE m

\* handleStateChange, syncPlayStateFromEngine
HandleState(m, s) ==
    CASE s.play = "stopped" -> EnterStopped(ForgetTransitions(m), FALSE)
      [] s.play = "paused"  -> [m EXCEPT !.play = "paused",
                                         !.watchdog = @ /\ ~m.suppressed]
      [] s.play = "playing" -> [m EXCEPT !.play = "playing",
                                         !.watchdog = @ \/ (m.suppressed /\ m.owned.track # 0)]

\* The signals of the engine are delivered one by one.
Handle(m, s) ==
    CASE s.signal = "boundary"  -> HandleBoundary(m, s)
      [] s.signal = "committed" -> HandleCommitted(m, s)
      [] s.signal = "status"    -> HandleStatus(m, s)
      [] s.signal = "state"     -> HandleState(m, s)
      [] s.signal = "unready"   -> HandleUnready(m, s)
=============================================================================
