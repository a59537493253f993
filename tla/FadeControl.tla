---------------------------- MODULE FadeControl ----------------------------
(***************************************************************************)
(* Fades of the transport: FadeController, which belongs to the engine        *)
(* thread, and OutputFader, which the audio thread runs                       *)
(* (src/core/engine/output/fadecontroller.cpp, outputfader.cpp).              *)
(*                                                                         *)
(* The two are fields of one record e; an operator maps the record a call     *)
(* finds to the one it leaves.  A handler of the engine is a composition of   *)
(* such calls, and its commands reach the audio thread in order.  Gains and   *)
(* curves are left out: a fader is full, fades in, fades out, or is silent.   *)
(* Fades between two tracks, and with them FadingToManualChange, are not      *)
(* modelled: every fade that has a token fades out.                           *)
(***************************************************************************)
EXTENDS Naturals

FadeStates == {"idle", "toPause", "toStop"}
Gains      == {"full", "in", "out", "silent"}

\* Which of the four fades of the settings have a duration.  Fading that is
\* disabled has none of them.
Fadings == [pauseIn : BOOLEAN, pauseOut : BOOLEAN, stopIn : BOOLEAN, stopOut : BOOLEAN]

Configured(fading) == fading.pauseIn \/ fading.pauseOut

NoFade == [fadeState   |-> "idle",  \* m_state
           fadeOnNext  |-> FALSE,   \* m_fadeOnNext
           resume      |-> FALSE,   \* m_resumeFadePending
           forId       |-> 0,       \* m_fadingTransitionId
           token       |-> 0,       \* m_activeTransitionId
           gain        |-> "full",  \* OutputFader: m_fading, m_fadingOut, m_currentGain
           gainToken   |-> 0]       \* OutputFader::m_activeToken

\* The values of each field; ids are those of the transport's transitions.
FadeTypes(ids) ==
    [fadeState |-> FadeStates, fadeOnNext |-> BOOLEAN, resume |-> BOOLEAN, forId |-> ids,
     token |-> ids, gain |-> Gains, gainToken |-> ids]

IsFading(e)       == e.gain \in {"in", "out"}
HasPendingFade(e) == e.fadeState \in {"toPause", "toStop"}

-----------------------------------------------------------------------------
(* The fader.  A call of fadeIn or fadeOut goes on from the gain it finds.  *)

FadeIn(e)     == [e EXCEPT !.gain = "in", !.gainToken = 0]
FadeOut(e, t) == [e EXCEPT !.gain = "out", !.gainToken = t]

\* faderStop() and faderReset(), which the controller calls together.
ResetFader(e) == [e EXCEPT !.gain = "full", !.gainToken = 0]

\* What the fader is after the last frame of a fade.
Faded(e) == [e EXCEPT !.gain = IF @ = "in" THEN "full" ELSE "silent"]

-----------------------------------------------------------------------------
(* The controller.                                                          *)

InvalidateActiveFade(e) == [e EXCEPT !.token = 0]

CancelAll(e) ==
    ResetFader([InvalidateActiveFade(e) EXCEPT
                   !.fadeState = "idle", !.resume = FALSE, !.forId = 0])

CancelForReinit(e) == IF e.fadeState = "idle" /\ ~IsFading(e) THEN e ELSE CancelAll(e)

\* Playing from the playback state prev: a fade out that is pending is given up.
\* A fade in has no token, so the token of the fade out stays until its reset.
ApplyPlayFade(e, prev, fading) ==
    LET fadedOut == HasPendingFade(e)
        resumed  == prev \in {"paused", "stopped"} \/ fadedOut
        spec     == IF e.fadeState = "toStop" \/ prev = "stopped"
                    THEN fading.stopIn ELSE fading.pauseIn
        f        == [e EXCEPT !.fadeState = "idle", !.resume = FALSE]
    IN IF \/ e.resume /\ fading.pauseIn
          \/ spec /\ (resumed \/ IsFading(e))
       THEN FadeIn(f)
       ELSE IF resumed \/ e.resume \/ IsFading(e)
       THEN ResetFader([f EXCEPT !.token = 0])
       ELSE f

\* A pause during the fade of a stop goes along with that fade.
BeginPauseFade(e, id) ==
    IF HasPendingFade(e) THEN [e EXCEPT !.forId = id]
    ELSE FadeOut([e EXCEPT !.fadeState = "toPause", !.forId = id, !.token = id], id)

\* A stop takes over the fade of a pause.
BeginStopFade(e, id) ==
    IF HasPendingFade(e) THEN [e EXCEPT !.fadeState = "toStop", !.forId = id]
    ELSE FadeOut([e EXCEPT !.fadeState = "toStop", !.forId = id, !.token = id], id)

IsActiveFade(e, t) == t # 0 /\ t = e.token

\* What the controller is after the event of a completed fade out.  What the
\* engine has to do now follows from the state that the event finds.
FadeCompleted(e) ==
    [e EXCEPT !.token = 0, !.fadeOnNext = FALSE, !.fadeState = "idle",
              !.resume = CASE e.fadeState = "toPause" -> TRUE
                           [] e.fadeState = "toStop"  -> FALSE
                           [] OTHER                   -> @,
              !.forId  = IF HasPendingFade(e) THEN 0 ELSE @]
=============================================================================
