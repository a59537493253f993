--------------------------- MODULE TrackHandover ---------------------------
(***************************************************************************)
(* The engine thread's side of a change of track: loads, the candidate for    *)
(* the next track, its preparation, and the gapless hand-over at the end of   *)
(* a track (src/core/engine/audioengine.cpp,                                  *)
(* control/playbacktransitioncoordinator.cpp).                                *)
(*                                                                         *)
(* The operators map a record e to the next one.  e.out holds the signals     *)
(* that are on their way to the main thread, oldest first.  Fades,            *)
(* crossfades, seeks, live radio and segments of one file are left out: every *)
(* load opens the track anew, and a track ends with its stream.  A stream     *)
(* that was prepared holds enough to hand over to.  New generations are taken *)
(* from e.pool.                                                               *)
(***************************************************************************)
EXTENDS Integers, Sequences, FiniteSetsExt

NoTrack    == [track |-> 0, item |-> 0]
NoPrepared == [track |-> 0, item |-> 0, fits |-> FALSE]
NoGapless  == [track |-> 0, item |-> 0, gen |-> 0, adopted |-> FALSE]

StartEngine(gapless) ==
    [playback  |-> "stopped",   \* m_playbackState
     status    |-> "none",      \* m_trackStatus: none, ok, end or invalid
     current   |-> NoTrack,     \* m_currentTrack, m_currentTrackItemId
     gen       |-> 0,           \* m_trackGeneration
     stream    |-> "none",      \* the current track's: none, body, input ended, drained
     candidate |-> NoTrack,     \* m_upcomingTrackCandidate
     prepared  |-> NoPrepared,  \* m_preparedNext
     job       |-> NoTrack,     \* the preparation that m_nextTrackPrepareWorker runs
     armed     |-> NoGapless,   \* m_preparedGaplessTransition
     auto      |-> TRUE,        \* m_trackEndAutoTransitionEnabled
     gapless   |-> gapless,     \* m_gaplessEnabled
     live      |-> FALSE,       \* PlaybackTransitionCoordinator::m_autoTransitionMode
     mode      |-> FALSE,       \* m_autoAdvanceState.mode is Gapless
     requested |-> FALSE,       \* m_autoAdvanceState.drainPrepareRequested
     anchor    |-> FALSE,       \* m_autoAdvanceState.boundaryAnchorSeen
     waiting   |-> FALSE,       \* m_autoAdvanceState.boundaryPendingUntilAudible
     latched   |-> FALSE,       \* PlaybackTransitionCoordinator::m_boundaryReached
     ended     |-> FALSE,       \* m_lastEndedTrack is the current track
     timers    |-> {},          \* the single-shot timers of stop(): generations
     pool      |-> {},
     out       |-> <<>>]

Emit(e, signal) == [e EXCEPT !.out = Append(@, signal)]

\* samePlaybackItem
Same(a, b) == IF a.item # 0 /\ b.item # 0 THEN a.item = b.item ELSE a.track = b.track

Plain(o) == [track |-> o.track, item |-> o.item]

IsArmed(e) == e.armed.track # 0 /\ e.armed.gen = e.gen

\* configuredTrackEndAutoTransitionMode, effectiveAutoTransitionMode
Configured(e) == e.auto /\ e.gapless
Effective(e)  == e.live \/ e.mode

\* updatePlaybackState
SetPlayback(e, p) ==
    IF e.playback = p THEN e
    ELSE Emit([e EXCEPT !.playback = p], [signal |-> "state", play |-> p])

\* updateTrackStatus, for the statuses that the handler reacts to
SetStatus(e, status) ==
    IF e.status = status THEN e
    ELSE Emit([e EXCEPT !.status = status],
              [signal |-> "status", status |-> status, track |-> e.current.track,
               gen |-> e.gen])
\* Mutant: the boundary of the last track counts for the next one.
ClearAdvanceMutant(e) == [e EXCEPT !.mode = FALSE, !.requested = FALSE, !.waiting = FALSE]

\* clearAutoAdvanceState
ClearAdvance(e) ==
    [e EXCEPT !.mode = FALSE, !.requested = FALSE, !.anchor = FALSE, !.waiting = FALSE]
\* Mutant: the boundary stays latched.
ClearEndingMutant(e) == [e EXCEPT !.live = FALSE, !.ended = FALSE]

\* clearTrackEnding, clearForStop and clearTrackEndLatch
ClearEnding(e) == [e EXCEPT !.live = FALSE, !.latched = FALSE, !.ended = FALSE]
\* Mutant: what is armed stays so.
ClearPreparedMutant(e) == [e EXCEPT !.prepared = NoPrepared]

\* clearPreparedNextTrack
ClearPrepared(e) == [e EXCEPT !.prepared = NoPrepared, !.armed = NoGapless]

CancelJobs(e) == [e EXCEPT !.job = NoTrack]

\* discardPreparedGaplessTransition: the prepared stream goes with it.
Disarm(e) ==
    IF e.armed.track = 0 THEN e
    ELSE [e EXCEPT !.armed = NoGapless,
                   !.prepared = IF Same(@, e.armed) THEN NoPrepared ELSE @]

\* disarmStalePreparedTransitions
DisarmStale(e, track) ==
    IF e.armed.track # 0 /\ (e.armed.gen # e.gen \/ e.armed.track # track)
    THEN Disarm(e) ELSE e

\* setCurrentTrackContext
SetContext(e, item) ==
    LET gen == Min(e.pool)
    IN  ClearAdvance([e EXCEPT !.current = Plain(item), !.gen = gen, !.pool = @ \ {gen}])

\* finaliseTrackCommit
Committed(e) ==
    Emit(ClearAdvance([e EXCEPT !.candidate = IF Same(@, e.current) THEN NoTrack ELSE @]),
         [signal |-> "committed", track |-> e.current.track, item |-> e.current.item,
          gen |-> e.gen])

-----------------------------------------------------------------------------
(* Loading a track.                                                         *)

\* evaluateAutoTransitionEligibility, for the track that is prepared
Eligible(e) ==
    Configured(e) /\ e.playback = "playing" /\ e.stream # "none" /\ e.prepared.fits

\* nextTrackReadiness(item, false). That a track is ready only extends the
\* handler's watchdog (WatchdogMayFire), and that signal is left out.
Unready(e, item) == Emit(e, [signal |-> "unready", track |-> item.track, item |-> item.item])

\* ensureCrossfadePrepared, for a change that nobody asked for: a preparation is
\* queued unless the track has been prepared.
EnsurePrepared(e, item) ==
    IF e.prepared.track # 0 /\ Same(e.prepared, item) THEN e
    ELSE [ClearPrepared(e) EXCEPT !.job = item]

\* prepareNextTrack
PrepareNext(e, item) ==
    IF item.track = 0 THEN Unready(ClearPrepared(CancelJobs(e)), item)
    ELSE IF Same(e.prepared, item) /\ ~Eligible(e) THEN Unready(e, item)
    ELSE EnsurePrepared(e, item)

\* loadTrack, executeFullReinitLoad: a decoder that is prepared is adopted,
\* another may fail to open; a track that cannot be played leaves the
\* playback state as it is. A change that nobody asked for is prepared too
\* (ensureCrossfadePrepared), though it is loaded at once.
Load(e, item, manual, opens) ==
    LET disarmed == IF manual THEN Disarm(e)
                    ELSE EnsurePrepared(DisarmStale(e, item.track), item)
        context  == [SetContext(disarmed, item) EXCEPT !.ended = FALSE]
        loading  == Emit([context EXCEPT !.status = "ok", !.stream = "none"],
                         [signal |-> "status", status |-> "loading", track |-> item.track,
                          gen |-> context.gen])
        adopts   == Same(loading.prepared, item) /\ (loading.prepared.fits \/ manual)
    IN  IF adopts \/ opens
        THEN LET adopted == IF Same(loading.prepared, item) THEN ClearPrepared(loading)
                            ELSE loading
             IN  Committed([ClearEnding(adopted) EXCEPT !.stream = "body"])
        ELSE SetStatus(loading, "invalid")

-----------------------------------------------------------------------------
(* The gapless hand-over.                                                   *)

\* armPreparedGaplessTransition: a stream of the same format is attached.
Arm(e0, target) ==
    LET e == DisarmStale(e0, target.track)
    IN  IF /\ e.playback = "playing" /\ Effective(e)
           /\ Same(e.prepared, target) /\ e.prepared.fits /\ e.armed.track = 0
        THEN [e EXCEPT !.armed = [track |-> target.track, item |-> target.item,
                                  gen |-> e.gen, adopted |-> FALSE]]
        ELSE e

\* What armPreparedGaplessTransition returned.
ArmedFor(e, target) ==
    /\ e.playback = "playing" /\ Effective(e)
    /\ Same(e.prepared, target) /\ e.prepared.fits
    /\ IsArmed(e) /\ Same(e.armed, target)

\* stagePreparedGaplessDecoder: the prepared decoder takes over before its
\* stream is heard.
CanStage(e, target) ==
    /\ e.armed.track # 0 /\ Same(target, e.armed)
    /\ e.armed.adopted \/ Same(e.prepared, target)

Stage(e) ==
    IF e.armed.adopted THEN e
    ELSE [e EXCEPT !.prepared = NoPrepared, !.armed.adopted = TRUE]

\* commitPreparedGaplessTransition
CommitGapless(e, target) ==
    LET next == SetContext(Stage(e), target)
    IN  [Committed([ClearEnding(next) EXCEPT !.stream = "body", !.status = "ok"])
            EXCEPT !.armed = NoGapless]
\* autoAdvanceTargetTrack
AdvanceTarget(e) ==
    LET other(o) == o.track # 0 /\ ~Same(o, e.current)
    IN  IF other(e.candidate) THEN e.candidate
        ELSE IF IsArmed(e) /\ other(e.armed) THEN Plain(e.armed)
        ELSE IF other(e.prepared) THEN Plain(e.prepared)
        ELSE NoTrack

\* What is prepared too late is prepared at once; how says with what success.
PrepareAtOnce(e, target, how) ==
    LET idle == [e EXCEPT !.requested = FALSE, !.job = IF e.requested THEN NoTrack ELSE @]
    IN  IF how = "failed" THEN ClearPrepared(idle)
        ELSE Arm([idle EXCEPT !.prepared = [track |-> target.track, item |-> target.item,
                                            fits |-> how = "fits"]], target)

ReadyFor(e, target) == ArmedFor(e, target) /\ CanStage(e, target)

\* A track that is not attached is loaded.
AdvanceTo(e, target, how) ==
    IF ReadyFor(e, target) THEN CommitGapless(e, target)
    ELSE Load(e, target, FALSE, how # "failed")

AdvanceArmed(e, target, how) ==
    IF ~e.anchor THEN e
    ELSE AdvanceTo(IF ReadyFor(e, target) THEN e ELSE PrepareAtOnce(e, target, how),
                   target, how)

AutoAdvance(e, target, how) ==
    IF target.track = 0 \/ ~Effective(e) THEN e
    ELSE AdvanceArmed(Arm(e, target), target, how)

\* tryAutoAdvanceCommit
TryAutoAdvance(e, how) == AutoAdvance(e, AdvanceTarget(e), how)

-----------------------------------------------------------------------------
(* The end of a track.                                                      *)

\* maybePrepareUpcomingTrackForDrainFill
PrepareForDrain(e) ==
    LET kept == [e EXCEPT !.mode = TRUE]
    IN  IF e.candidate.track = 0 \/ Same(e.candidate, e.current) \/ ~Configured(e) THEN e
        ELSE IF \/ IsArmed(e) /\ Same(e.armed, e.candidate)
                \/ Same(e.prepared, e.candidate) /\ e.prepared.fits
                \/ e.requested
        THEN kept
        ELSE [ClearPrepared(kept) EXCEPT !.requested = TRUE, !.job = e.candidate]

\* evaluateTrackEnding: the end of the input is noticed once, and so is the
\* boundary.
Reach(e, stream) ==
    LET live == IF stream = "drained" THEN FALSE
                ELSE e.live \/ (e.stream = "body" /\ stream = "ended" /\ Configured(e))
    IN  [e EXCEPT !.stream = stream, !.live = live, !.latched = @ \/ stream = "drained",
                  !.mode = @ \/ e.live \/ live]

\* signalTrackEndOnce
SignalEnd(e) == IF e.ended THEN e ELSE SetStatus([e EXCEPT !.ended = TRUE], "end")

\* The boundary: rest says that output remains to be played, owned that the
\* prepared stream follows and its commit waits until it is heard.
SignalBoundary(e, rendered, rest, how) ==
    LET owned    == IsArmed(e) /\ ~rendered
        signal   == [signal |-> "boundary", track |-> e.current.track, gen |-> e.gen,
                     rest |-> rest /\ ~owned /\ ~rendered, owned |-> owned]
        signalled == Emit([e EXCEPT !.waiting = FALSE, !.anchor = TRUE], signal)
    IN  IF owned THEN signalled ELSE TryAutoAdvance(signalled, how)

\* The decoder of the next track takes over once the stream has been played.
StageDrained(e) == IF IsArmed(e) /\ e.stream = "drained" THEN Stage(e) ELSE e

\* The prepared stream is being rendered.
Release(e, rendered, how) ==
    IF IsArmed(e) /\ e.anchor /\ rendered THEN TryAutoAdvance(e, how) ELSE e

\* The boundary is signalled when the output has come to it, but at once when
\* no stream follows.
PassBoundary(e, e0, heard, rendered, rest, how) ==
    LET first   == e.stream = "drained" /\ ~e0.latched
        audible == heard \/ (e.waiting /\ rendered)
    IN  IF e.gen # e0.gen THEN e
        ELSE IF first /\ IsArmed(e) /\ ~audible THEN [e EXCEPT !.waiting = TRUE]
        ELSE IF first \/ (e.waiting /\ audible) THEN SignalBoundary(e, rendered, rest, how)
        ELSE e

\* The end of a track to which the prepared stream is still to follow is not
\* signalled.
EndUnlessFollowed(e, e0) ==
    IF \/ e.gen # e0.gen \/ e.stream # "drained"
       \/ Effective(e) /\ IsArmed(e) /\ (~e.anchor \/ e.waiting)
    THEN e ELSE SignalEnd(e)

\* handleTrackEndingSignals: one update of the position, in which the stream
\* may have come to the end of its input or have been played, the boundary may
\* have become audible (heard), and the prepared stream may have been rendered.
CheckEnding(e, stream, heard, rendered, rest, how) ==
    IF stream = "body" THEN e
    ELSE EndUnlessFollowed(
            PassBoundary(
               Release(StageDrained(PrepareForDrain(Reach(e, stream))), rendered, how),
               e, heard, rendered, rest, how),
            e)

\* applyPreparedNextTrackResult: the handler hears of a track that is not ready
\* before the engine may move on.
JobDone(e, how, now) ==
    LET applied == IF how = "failed" THEN ClearPrepared(CancelJobs(e))
                   ELSE [CancelJobs(e) EXCEPT
                            !.prepared = [track |-> e.job.track, item |-> e.job.item,
                                          fits |-> how = "fits"]]
        told    == IF Eligible(applied) THEN applied ELSE Unready(applied, e.job)
    IN  IF Same(e.job, e.candidate)
        THEN TryAutoAdvance([told EXCEPT !.requested = FALSE], now)
        ELSE told

-----------------------------------------------------------------------------
(* The calls of the handler.                                                *)

\* play: nothing happens for a track that cannot be played; a stopped engine
\* loads its last track again.
PlayEngine(e, opens) ==
    LET loaded == IF e.stream = "none" /\ e.playback = "stopped" /\ e.current.track # 0
                  THEN Load(e, e.current, FALSE, opens) ELSE e
    IN  IF e.status = "invalid" \/ e.playback = "playing" THEN e
        ELSE IF loaded.stream = "none" THEN loaded
        ELSE [SetPlayback(loaded, "playing") EXCEPT !.status = "ok"]

PauseEngine(e) == IF e.playback = "playing" THEN SetPlayback(e, "paused") ELSE e

StopImmediate(e) ==
    SetStatus(SetPlayback(
        CancelJobs(ClearPrepared(ClearEnding(ClearAdvance(
            [e EXCEPT !.candidate = NoTrack, !.stream = "none"])))), "stopped"), "none")

\* stop: after the natural end of a track, what the output holds (rest) is
\* played first.
StopEngine(e, rest) ==
    LET played == e.stream = "drained" /\ ~(e.armed.track # 0 /\ e.armed.adopted)
    IN  IF played /\ e.status = "end" /\ rest THEN [e EXCEPT !.timers = @ \cup {e.gen}]
        ELSE IF e.stream # "none" /\ ~played /\ e.playback = "stopped" THEN e
        ELSE StopImmediate(e)

StopTimer(e, gen) ==
    LET fired == [e EXCEPT !.timers = @ \ {gen}]
    IN  IF gen = e.gen /\ e.status = "end" THEN StopImmediate(fired) ELSE fired

\* rebuildCurrentTrackStreamAt: the decoder of the next track is given up for
\* that of the current one.
Rebuild(e, opens) ==
    LET cleared == ClearEnding(e)
    IN  IF opens
        THEN [cleared EXCEPT !.stream = "body", !.status = IF @ = "end" THEN "ok" ELSE @]
        ELSE SetStatus([cleared EXCEPT !.stream = "none"], "invalid")
\* Mutant: the candidate is kept.
SetAutoMutant(e, on, opens) == [e EXCEPT !.auto = on]

\* setTrackEndAutoTransitionEnabled, clearTrackEndAutoTransitions
SetAuto(e, on, opens) ==
    LET rebuilt == IF IsArmed(e) /\ e.armed.adopted THEN Rebuild(e, opens) ELSE e
        changed == [rebuilt EXCEPT !.auto = on]
    IN  IF e.auto = on THEN e
        ELSE IF on THEN [e EXCEPT !.auto = on]
        ELSE CancelJobs(ClearPrepared(ClearAdvance([changed EXCEPT !.candidate = NoTrack])))
\* Mutant: no track as the next one is ignored.
SetCandidateMutant(e, item) ==
    IF item.track = 0 \/ Same(item, e.candidate) THEN e
    ELSE CancelJobs(ClearPrepared([e EXCEPT !.candidate = item, !.requested = FALSE]))

\* setUpcomingTrackCandidate, prepareUpcomingTrackCandidate: ignored once the
\* next decoder was adopted.
SetCandidate(e, item) ==
    LET armed    == e.armed.track # 0 /\ ~Same(item, e.armed)
        disarmed == IF armed THEN Disarm(e) ELSE e
        set      == CancelJobs([disarmed EXCEPT !.candidate = item, !.requested = FALSE])
    IN  IF Same(item, e.candidate) \/ (armed /\ e.armed.adopted) THEN e
        ELSE IF item.track = 0 \/ Same(item, e.current) THEN ClearPrepared(set)
        ELSE IF set.prepared.track # 0 /\ ~Same(item, set.prepared) THEN ClearPrepared(set)
        ELSE set

\* A call that the engine's thread runs.
Run(e, c, opens, rest) ==
    CASE c.call = "load"      -> Load(e, c.item, c.manual, opens)
      [] c.call = "play"      -> PlayEngine(e, opens)
      [] c.call = "pause"     -> PauseEngine(e)
      [] c.call = "stop"      -> StopEngine(e, rest)
      [] c.call = "auto"      -> SetAuto(e, c.on, opens)
      [] c.call = "candidate" -> SetCandidate(e, c.item)
      [] c.call = "prepare"   -> PrepareNext(e, c.item)
=============================================================================
