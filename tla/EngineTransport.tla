-------------------------- MODULE EngineTransport --------------------------
(***************************************************************************)
(* Play, pause and stop of AudioEngine, with fades that the audio thread      *)
(* completes later, pauses that wait until the output has played what it      *)
(* holds, tracks that are loaded in between, rebuffering of live radio, and   *)
(* output devices that are opened again                                       *)
(* (src/core/engine/audioengine.cpp, pipeline/audiopipeline.cpp).             *)
(*                                                                         *)
(* The record s holds what the engine, its fade controller, the pipeline and  *)
(* the fader know; a handler of the engine maps it to the next one, with the  *)
(* pipeline's commands done at once.  The audio thread completes fades, the    *)
(* event loop delivers its events and the timers of the engine.  Seeks,        *)
(* crossfades, gapless hand-overs and changes of the buffer length are left    *)
(* out, so that a track is changed by a full load.                            *)
(***************************************************************************)
EXTENDS FadeControl, Sequences, FiniteSets

CONSTANTS
    Sources,      \* the kinds of tracks: "file", and "radio" that cannot seek
    Settings,     \* the fadings that may be configured
    MaxFades      \* bound: transport transitions begun in a behaviour

ASSUME TransportAssumption ==
    /\ Sources \subseteq {"file", "radio"} /\ Sources # {}
    /\ Settings \subseteq Fadings /\ Settings # {}
    /\ MaxFades \in Nat

Ids == 0 .. MaxFades

VARIABLES
    s,            \* the engine and the pipeline
    fading,       \* m_fadingValues, m_fadingEnabled
    asked         \* what the user asked for and did not take back

vars == <<s, fading, asked>>

Playbacks == {"stopped", "playing", "paused"}
Phases    == {"stopped", "loading", "playing", "paused", "fadingToPause", "fadingToStop"}

Fresh(source) ==
    [playback  |-> "stopped",   \* m_playbackState
     phase     |-> "loading",   \* m_phase
     status    |-> "ok",        \* m_trackStatus: none, ok, end or invalid
     transport |-> 0,           \* m_activeTransportTransitionId
     lastId    |-> 0,           \* m_nextTransitionId - 1
     drain     |-> 0,           \* m_pendingAudiblePause
     polls     |-> {},          \* the timers of maybeCompletePendingAudiblePause
     endTimer  |-> FALSE,       \* the timer of stop() at the end of a track
     source    |-> source,      \* m_currentTrack
     stream    |-> "fed",       \* m_decoder and its stream
     buffering |-> FALSE,       \* m_inputBuffering.active
     suspended |-> FALSE,       \* m_pausedStreamSuspended
     output    |-> TRUE,        \* AudioPipeline::hasOutput
     pipe      |-> "stopped",   \* m_playing, m_pauseDrainActive, m_bufferingPaused
     events    |-> <<>>]        \* m_fadeEvents

\* The records with the fields of the fade besides.
With(r, fade) ==
    [x \in DOMAIN r \cup DOMAIN fade |-> IF x \in DOMAIN r THEN r[x] ELSE fade[x]]

\* A decoder without a stream is one for which no output could be opened.
HasStream(e) == e.stream \notin {"none", "undriven"}

FadingTransport(e) == e.phase \in {"fadingToPause", "fadingToStop"}

\* The first track was loaded and nothing was played.
Init ==
    /\ \E source \in Sources : s = With(Fresh(source), NoFade)
    /\ fading \in Settings
    /\ asked = {}

-----------------------------------------------------------------------------
(* State, timers and output.                                                *)

\* updatePlaybackState: the phase follows a change of state, except that
\* playing keeps the phase of a fade.
SetPlayback(e, p) ==
    [e EXCEPT !.playback = p,
              !.phase = IF e.playback = p \/ (p = "playing" /\ FadingTransport(e))
                        THEN @ ELSE p]

\* clearInputBufferingState
ClearBuffering(e, resume) ==
    [e EXCEPT !.buffering = FALSE,
              !.pipe = IF e.buffering /\ resume /\ @ = "held" THEN "running" ELSE @]

Recovered(e) == e.buffering /\ e.stream = "fed"

\* maybeUpdateInputBuffering: only radio prebuffers.
UpdateBuffering(e) ==
    IF e.source # "radio" \/ e.stream = "none" THEN ClearBuffering(e, FALSE)
    ELSE IF e.stream \in {"undriven", "ended"} \/ e.playback # "playing"
    THEN ClearBuffering(e, TRUE)
    ELSE IF Recovered(e)
    THEN [ClearBuffering(e, TRUE) EXCEPT !.status = "ok"]
    ELSE IF ~e.buffering /\ e.stream = "dry"
    THEN [e EXCEPT !.buffering = TRUE, !.status = "ok",
                   !.pipe = IF @ = "running" THEN "held" ELSE @]
    ELSE e

\* AudioPipeline::uninit; the fade events that were queued are dropped.
Uninit(e) == [e EXCEPT !.output = FALSE, !.pipe = "stopped", !.events = <<>>]

\* OutputController::initOutput
OpenOutput(e) == [e EXCEPT !.output = TRUE, !.events = <<>>]

\* The decoder, its stream, and the output with what it plays are given up.
Release(e) == [Uninit(e) EXCEPT !.stream = "none"]

-----------------------------------------------------------------------------
(* Pause and stop.                                                          *)

\* suspendPausedStream: a live stream cannot wait for its listener.
SuspendPaused(e) ==
    SetPlayback([Release(ClearBuffering(e, FALSE)) EXCEPT
                    !.suspended = TRUE, !.fadeState = "idle", !.fadeOnNext = FALSE],
                "paused")

\* finalisePausedState
FinalisePaused(e) ==
    LET f == [e EXCEPT !.transport = 0]
    IN IF f.source = "radio" /\ f.stream # "none"
       THEN SuspendPaused(f)
       ELSE [SetPlayback([f EXCEPT !.pipe = "paused", !.fadeState = "idle",
                                   !.fadeOnNext = FALSE], "paused")
                EXCEPT !.phase = "paused"]

\* Mutant: the poll does not go on when the output still holds frames.
PollAgainMutant(e) == e

\* The timer that looks again whether the output has played what it holds.
PollAgain(e) == [e EXCEPT !.polls = @ \cup {e.drain}]

\* maybeCompletePendingAudiblePause, for the pause it was begun for.
\* drained: the output has played what it held, or the watchdog expired.
CompletePause(e, drained) ==
    IF e.drain # e.transport THEN [e EXCEPT !.drain = 0]
    ELSE IF drained THEN FinalisePaused([e EXCEPT !.drain = 0])
    ELSE PollAgain(e)

\* beginAudiblePauseCompletion
BeginDrain(e, id, drained) ==
    CompletePause([SetPlayback([e EXCEPT !.pipe = "draining"], "paused")
                      EXCEPT !.drain = id], drained)

\* stopImmediate
StopImmediate(e) ==
    SetPlayback([Release(CancelAll(ClearBuffering(e, FALSE))) EXCEPT
                    !.drain = 0, !.suspended = FALSE, !.transport = 0,
                    !.status = "none", !.endTimer = FALSE], "stopped")

-----------------------------------------------------------------------------
(* Play.                                                                    *)

\* Mutant: a drain that was begun is not called off.
CancelDrainMutant(e) == [e EXCEPT !.pipe = "running"]

\* cancelPendingAudiblePause
CancelDrain(e) ==
    SetPlayback([ApplyPlayFade(e, "paused", fading) EXCEPT
                    !.drain = 0, !.transport = 0, !.pipe = "running"], "playing")

\* play(), once there are a stream and an output.  A load during a fade keeps
\* the fade; otherwise the fade of the new playback begins.
PlayLoaded(e) ==
    LET active == HasPendingFade(e) \/ IsFading(e)
        f      == [e EXCEPT !.fadeOnNext = @ /\ active]
        faded  == IF f.fadeOnNext /\ ~f.resume THEN f
                  ELSE ApplyPlayFade(f, e.playback, fading)
        on     == SetPlayback([faded EXCEPT !.pipe = "running"], "playing")
    IN UpdateBuffering([on EXCEPT !.status = "ok",
                                  !.phase = IF @ = "loading" THEN "playing" ELSE @])

\* interruptTransportFade
InterruptFade(e) ==
    LET canFadeIn == IF e.fadeState = "toStop" THEN fading.stopIn ELSE fading.pauseIn
        f == [IF canFadeIn THEN InvalidateActiveFade(e) ELSE CancelAll(e)
                 EXCEPT !.transport = 0]
    IN IF ~FadingTransport(e) /\ ~HasPendingFade(e) THEN e
       ELSE [f EXCEPT !.phase = IF f.playback = "playing" THEN "playing" ELSE @]

\* loadTrack up to the point where playback goes on (executeFullReinitLoad).
\* env tells whether the track can be decoded, whether the output has to be
\* opened for its format, and whether the device can be opened.
Load(e, source, manual, env) ==
    LET interrupted == IF manual THEN InterruptFade(e) ELSE e
        keepFade    == HasPendingFade(interrupted)
        cleared     == [ClearBuffering(interrupted, TRUE) EXCEPT
                           !.drain = 0, !.suspended = FALSE, !.endTimer = FALSE,
                           !.source = source, !.stream = "none", !.phase = "loading",
                           !.token = IF keepFade THEN @ ELSE 0]
        newFormat   == env.newFormat /\ cleared.output
        closed      == IF newFormat THEN Uninit(cleared) ELSE cleared
        opened      == IF closed.output THEN closed ELSE OpenOutput(closed)
        fadeOnNext  == IF e.playback # "playing" THEN FALSE
                       ELSE e.fadeOnNext \/ (~(manual /\ keepFade)
                                             /\ (IsFading(interrupted) \/ keepFade))
    IN IF ~env.decodes THEN [cleared EXCEPT !.status = "invalid"]
       ELSE IF ~closed.output /\ ~env.device
       THEN [closed EXCEPT !.status = "invalid", !.stream = "undriven"]
       ELSE [opened EXCEPT !.status = "ok", !.stream = "fed", !.fadeOnNext = fadeOnNext]

\* reinitOutputForCurrentFormat
Reinit(e, device) ==
    LET cancelled == IF e.playback = "stopped" THEN InvalidateActiveFade(e)
                     ELSE CancelForReinit(InvalidateActiveFade(e))
        closed    == Uninit(cancelled)
        wasActive == e.playback # "stopped"
    IN IF device
       THEN [OpenOutput(closed) EXCEPT
                !.pipe = IF e.playback = "playing" THEN "running" ELSE @]
       ELSE LET failed == [ClearBuffering(closed, FALSE) EXCEPT
                              !.drain = 0, !.transport = 0, !.pipe = "paused"]
            IN IF wasActive THEN SetPlayback(failed, "paused") ELSE failed

\* play(), from the state in which it is taken.
PlayFrom(e, env) ==
    LET f       == IF FadingTransport(e) THEN [e EXCEPT !.transport = 0] ELSE e
        reload  == f.suspended \/ (~HasStream(f) /\ f.playback = "stopped")
        loaded  == IF reload THEN Load(f, f.source, FALSE, env) ELSE f
        driven  == IF HasStream(loaded) /\ ~loaded.output
                   THEN Reinit(loaded, env.device) ELSE loaded
    IN IF HasStream(driven) /\ driven.output THEN PlayLoaded(driven) ELSE driven

-----------------------------------------------------------------------------
(* The commands of the user, which reach the engine as queued calls.        *)

Environments == [decodes : BOOLEAN, newFormat : BOOLEAN, device : BOOLEAN]

\* What was asked for before is taken back, unless its fade goes on: a play or a
\* load that keeps the fade keeps what it leads to.
TakeBack == asked' = IF HasPendingFade(s') THEN asked ELSE {}

\* play() is ignored for a track that cannot be played; a pause whose output
\* still drains is called off; and what plays already goes on.
Play ==
    /\ s.status # "invalid"
    /\ IF s.drain # 0 THEN s' = CancelDrain(s)
       ELSE IF /\ s.playback = "playing" /\ s.phase # "loading"
               /\ ~FadingTransport(s) /\ ~HasPendingFade(s)
       THEN UNCHANGED s
       ELSE \E env \in Environments : s' = PlayFrom(s, env)
    /\ TakeBack
    /\ UNCHANGED fading

\* Mutant: the id that the next transition will have.
BeginTransitionMutant(e) == [e EXCEPT !.lastId = @ + 1, !.transport = e.lastId + 2]

\* beginTransportTransition
BeginTransition(e) == [e EXCEPT !.lastId = @ + 1, !.transport = e.lastId + 1]

Pause ==
    /\ s.playback = "playing" /\ s.drain = 0 /\ s.fadeState # "toPause"
    /\ asked' = asked \cup {"pause"}
    /\ IF Configured(fading)
       THEN /\ s.lastId < MaxFades
            /\ s' = [BeginPauseFade(BeginTransition(s), s.lastId + 1)
                        EXCEPT !.phase = "fadingToPause"]
       ELSE s' = FinalisePaused(ClearBuffering(s, FALSE))
    /\ UNCHANGED fading

\* No fade can be waited for: the input stalls, or there is nothing to play.
StopsAtOnce(e) == e.buffering \/ ~HasStream(e)

\* stop().  At the end of a track it may wait for a timer until the output has
\* played what it holds.
Stop ==
    LET e == [s EXCEPT !.drain = 0]
    IN /\ asked' = asked \cup {"stop"}
       /\ IF StopsAtOnce(e) THEN s' = StopImmediate(e)
          ELSE IF e.stream = "ended"
          THEN \/ s' = StopImmediate(e)
               \/ e.status = "end" /\ s' = [e EXCEPT !.endTimer = TRUE]
          ELSE IF e.playback = "stopped" \/ e.fadeState = "toStop" THEN s' = e
          ELSE IF fading.stopOut /\ e.playback = "playing"
          THEN /\ e.lastId < MaxFades
               /\ s' = [BeginStopFade(BeginTransition(e), e.lastId + 1)
                           EXCEPT !.phase = "fadingToStop"]
          ELSE s' = StopImmediate(e)
       /\ UNCHANGED fading

\* loadTrack: the user chose a track (manual), or the player's next one after
\* the end of a track.
LoadTrack(manual) ==
    /\ manual \/ s.status = "end"
    /\ \E source \in Sources, env \in Environments :
          LET loaded == Load(s, source, manual, env)
          IN s' = IF loaded.status = "ok" /\ loaded.playback = "playing"
                  THEN PlayLoaded(loaded) ELSE loaded
    /\ IF manual THEN TakeBack ELSE UNCHANGED asked
    /\ UNCHANGED fading

\* setOutputDevice
SetOutputDevice(device) ==
    LET playing == s.playback = "playing"
        closed  == Uninit(IF playing THEN CancelForReinit(s) ELSE s)
        opened  == OpenOutput(closed)
    IN /\ s' = IF ~device THEN closed
               ELSE IF playing THEN [opened EXCEPT !.pipe = "running"] ELSE opened
       /\ UNCHANGED <<fading, asked>>

ChangeFading ==
    /\ fading' \in Settings \ {fading}
    /\ UNCHANGED <<s, asked>>

-----------------------------------------------------------------------------
(* What reaches the engine from other threads and from its timers.          *)

\* A result of a fade is stale if another command came since.
IsStale(e) == e.forId # 0 /\ e.forId # e.transport

\* handlePipelineFadeEvent and applyFadeResult
DeliverFade ==
    /\ s.events # <<>>
    /\ LET e == [s EXCEPT !.events = Tail(@)]
           f == FadeCompleted(e)
       IN IF ~IsActiveFade(e, Head(s.events)) THEN s' = e
          ELSE IF ~HasPendingFade(e) \/ IsStale(e) THEN s' = f
          ELSE IF e.fadeState = "toStop" THEN s' = StopImmediate(f)
          ELSE \E drained \in BOOLEAN : s' = BeginDrain(f, e.forId, drained)
    /\ UNCHANGED <<fading, asked>>

IsCurrentPoll(e, id) == e.drain # 0 /\ e.drain = id

\* A timer of maybeCompletePendingAudiblePause.
PollDrain(id, drained) ==
    /\ id \in s.polls
    /\ LET e == [s EXCEPT !.polls = @ \ {id}]
       IN s' = IF IsCurrentPoll(e, id) THEN CompletePause(e, drained) ELSE e
    /\ UNCHANGED <<fading, asked>>

\* Mutant: the timer stops whatever is played when it fires.
EndTimerMutant ==
    /\ s.endTimer /\ s' = StopImmediate(s)
    /\ UNCHANGED <<fading, asked>>

\* The timer of stop(): the output has played the end of the track.
EndTimer ==
    /\ s.endTimer
    /\ s' = IF s.status = "end" THEN StopImmediate(s) ELSE [s EXCEPT !.endTimer = FALSE]
    /\ UNCHANGED <<fading, asked>>

\* The decode timer or a demand for data.
DecodeTick ==
    /\ HasStream(s)
    /\ s' = UpdateBuffering(s)
    /\ UNCHANGED <<fading, asked>>

\* handleOutputStateChange, setAutomaticResampling and the change of a DSP.
ReinitOutput(device) ==
    /\ s.output
    /\ s' = Reinit(s, device)
    /\ UNCHANGED <<fading, asked>>

\* The end of the track is reported once; the player answers with a load.
TrackEnds ==
    /\ s.stream = "ended" /\ s.playback = "playing" /\ s.status = "ok"
    /\ s' = [s EXCEPT !.status = "end"]
    /\ UNCHANGED <<fading, asked>>

-----------------------------------------------------------------------------
(* The audio thread and the source of the stream.                           *)

Renders(e) == e.pipe = "running" /\ e.output /\ e.stream \in {"fed", "dry"}

QueueFade(e) == [e EXCEPT !.events = Append(@, e.gainToken)]

\* The last frame of a fade is rendered; only fades out have somebody waiting.
FadeEnds ==
    /\ Renders(s) /\ IsFading(s)
    /\ s' = IF s.gain = "out" THEN QueueFade(Faded(s)) ELSE Faded(s)
    /\ UNCHANGED <<fading, asked>>

\* The stream of radio runs low while it is played, and recovers; a file ends.
StreamChanges ==
    /\ \/ s.source = "radio" /\ Renders(s) /\ s' = [s EXCEPT !.stream = "dry"]
       \/ s.stream = "dry" /\ s' = [s EXCEPT !.stream = "fed"]
       \/ s.source = "file" /\ Renders(s) /\ s' = [s EXCEPT !.stream = "ended"]
    /\ UNCHANGED <<fading, asked>>

Next ==
    \/ Play \/ Pause \/ Stop \/ ChangeFading
    \/ \E b \in BOOLEAN : LoadTrack(b) \/ SetOutputDevice(b) \/ ReinitOutput(b)
    \/ DeliverFade \/ EndTimer \/ DecodeTick \/ TrackEnds
    \/ \E id \in Ids, drained \in BOOLEAN : PollDrain(id, drained)
    \/ FadeEnds \/ StreamChanges

\* The event loop delivers timers, and the output plays what it holds or the
\* watchdog of the pause expires.
Fairness == \A id \in Ids : WF_vars(PollDrain(id, TRUE))

Spec == Init /\ [][Next]_vars

FairSpec == Spec /\ Fairness

-----------------------------------------------------------------------------
(* Properties.                                                              *)

TransportTypes ==
    [playback |-> Playbacks, phase |-> Phases, status |-> {"none", "ok", "end", "invalid"},
     transport |-> Ids, lastId |-> Ids, drain |-> Ids, polls |-> SUBSET Ids,
     endTimer |-> BOOLEAN, source |-> Sources,
     stream |-> {"fed", "dry", "ended", "undriven", "none"}, buffering |-> BOOLEAN,
     suspended |-> BOOLEAN, output |-> BOOLEAN,
     pipe |-> {"stopped", "running", "held", "draining", "paused"}, events |-> Seq(Ids)]

\* Type correctness of the engine, the pipeline, the fades and the settings.
TypeOK ==
    /\ LET types == With(TransportTypes, FadeTypes(Ids))
       IN DOMAIN s = DOMAIN types /\ \A x \in DOMAIN types : s[x] \in types[x]
    /\ fading \in Settings /\ asked \subseteq {"pause", "stop"}

\* A fade or a timer never pauses or stops what the user wants to hear: unless a
\* play or a load keeps the fade itself, whatever was still on its way is out of
\* date then.  Only an output that cannot be opened pauses, and only a stop at the
\* end of a track still counts after a play (audioengine.cpp:2531, 2574).
OnlyAskedFor ==
    [][/\ s.playback = "playing" /\ s'.playback = "paused"
             => "pause" \in asked' \/ (~s'.output /\ ~s'.suspended)
       /\ s.playback # "stopped" /\ s'.playback = "stopped"
             => "stop" \in asked' \/ s.status = "end"]_vars

\* A pause that waits for the output to play what it holds has a timer that looks
\* again, is the pause of the last command, and is over once anything else is
\* played: no pause is left half done (audioengine.cpp:2554).
DrainIsPolled ==
    s.drain # 0 => /\ s.drain \in s.polls
                   /\ s.drain = s.transport
                   /\ s.playback = "paused"

\* Every pause that waits for its output to drain is finished or called off.
DrainEnds == s.drain # 0 ~> s.drain = 0

\* Whatever plays is heard: no fade out outlives the command it belonged to, and
\* leaves the fader silent while the engine plays (outputfader.cpp:46).
PlayingIsHeard ==
    s.playback = "playing" /\ s.fadeState = "idle" => s.gain \in {"full", "in"}

\* What the engine reports and what the pipeline does go together: it plays when
\* the engine plays and has an output, renders nothing otherwise, and is held only
\* while the engine waits for the input that lets it go on (audioengine.cpp:4175).
PipeFollowsEngine ==
    /\ s.playback = "playing" /\ s.output => s.pipe \in {"running", "held"}
    /\ s.playback # "playing" => s.pipe \notin {"running", "held"}
    /\ s.pipe = "held" => s.buffering
=============================================================================
