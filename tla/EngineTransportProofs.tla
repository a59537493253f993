----------------------- MODULE EngineTransportProofs -----------------------
(***************************************************************************)
(* Proofs about EngineTransport and the fades of FadeControl, for any         *)
(* settings, tracks and number of fades.  A handler of the engine is a         *)
(* composition of operators on the record of its state, so the proof is one    *)
(* too: each operator has a lemma that says what it keeps and what it leaves.  *)
(***************************************************************************)
EXTENDS EngineTransport, TLAPS

Fields ==
    {"playback", "phase", "status", "transport", "lastId", "drain", "polls", "endTimer",
     "source", "stream", "buffering", "suspended", "output", "pipe", "events",
     "fadeState", "fadeOnNext", "resume", "forId", "token", "gain", "gainToken"}

Statuses == {"none", "ok", "end", "invalid"}
Streams  == {"fed", "dry", "ended", "undriven", "none"}
Pipes    == {"stopped", "running", "held", "draining", "paused"}

\* The types of the fields, spelled out.
Typed(e) ==
    /\ DOMAIN e = Fields
    /\ e.playback \in Playbacks /\ e.phase \in Phases /\ e.status \in Statuses
    /\ e.transport \in Ids /\ e.lastId \in Ids /\ e.drain \in Ids /\ e.polls \in SUBSET Ids
    /\ e.endTimer \in BOOLEAN /\ e.source \in Sources /\ e.stream \in Streams
    /\ e.buffering \in BOOLEAN /\ e.suspended \in BOOLEAN /\ e.output \in BOOLEAN
    /\ e.pipe \in Pipes /\ e.events \in Seq(Ids)
    /\ e.fadeState \in FadeStates /\ e.fadeOnNext \in BOOLEAN /\ e.resume \in BOOLEAN
    /\ e.forId \in Ids /\ e.token \in Ids /\ e.gain \in Gains /\ e.gainToken \in Ids

(***************************************************************************)
(* The inductive invariant, of the record of the engine and the pipeline.     *)
(* DrainOk and PipeOk are the properties.  They need that only radio is       *)
(* buffered, and only while it has a decoder (a load, a pause and a stop clear *)
(* the buffering they find); that a fade out is pending only while the engine  *)
(* plays; and that a live stream given up by a pause is not played, nor         *)
(* drained, until it is loaded again.                                        *)
(***************************************************************************)
DrainOk(e) ==
    e.drain # 0 => /\ e.drain \in e.polls
                   /\ e.drain = e.transport
                   /\ e.playback = "paused"

PipeOk(e) ==
    /\ e.playback = "playing" /\ e.output => e.pipe \in {"running", "held"}
    /\ e.playback # "playing" => e.pipe \notin {"running", "held"}
    /\ e.pipe = "held" => e.buffering

BufferOk(e)  == e.buffering => e.source = "radio" /\ e.stream # "none"
FadeOk(e)    == HasPendingFade(e) => e.playback = "playing"
SuspendOk(e) == e.suspended => e.playback # "playing" /\ e.drain = 0

Sound(e) ==
    /\ Typed(e)
    /\ DrainOk(e) /\ PipeOk(e) /\ BufferOk(e) /\ FadeOk(e) /\ SuspendOk(e)

\* What a pending fade is to lead to was asked for and not taken back.
FadeAsked ==
    /\ s.fadeState = "toPause" => "pause" \in asked
    /\ s.fadeState = "toStop" => "stop" \in asked

IInv ==
    /\ Sound(s)
    /\ fading \in Settings /\ asked \subseteq {"pause", "stop"}
    /\ FadeAsked

\* r has the fields of e, and their values but for those in X.
Keeps(e, r, X) == DOMAIN r = DOMAIN e /\ \A x \in Fields \ X : r[x] = e[x]

FadeFields == {"fadeState", "resume", "forId", "token", "gain", "gainToken"}

\* A fade that is pending afterwards was pending before, for the same purpose.
SameFade(e, r) == r.fadeState \in {e.fadeState, "idle"}

-----------------------------------------------------------------------------
\* 0, which stands for no transition, is an id, and no events are some.
LEMMA ZeroId == 0 \in Ids
BY TransportAssumption DEF Ids

\* Without a fade no event of one is on its way.
LEMMA NoEvents == <<>> \in Seq(Ids)
OBVIOUS

\* The types of the specification are those spelled out.
LEMMA TypesAgree ==
    TypeOK <=> Typed(s) /\ fading \in Settings /\ asked \subseteq {"pause", "stop"}
<1> DEFINE types == With(TransportTypes, FadeTypes(Ids))
<1>1. DOMAIN types = Fields
  BY DEF With, TransportTypes, FadeTypes, Fields
<1>2. DOMAIN TransportTypes =
         Fields \ {"fadeState", "fadeOnNext", "resume", "forId", "token", "gain", "gainToken"}
  BY DEF TransportTypes, Fields
<1>3. \A x \in Fields :
         types[x] = IF x \in DOMAIN TransportTypes THEN TransportTypes[x] ELSE FadeTypes(Ids)[x]
  BY <1>1 DEF With
<1> HIDE DEF types
<1>4. /\ types.playback = Playbacks /\ types.phase = Phases /\ types.status = Statuses
      /\ types.transport = Ids /\ types.lastId = Ids /\ types.drain = Ids
      /\ types.polls = SUBSET Ids /\ types.endTimer = BOOLEAN /\ types.source = Sources
      /\ types.stream = Streams /\ types.buffering = BOOLEAN /\ types.suspended = BOOLEAN
      /\ types.output = BOOLEAN /\ types.pipe = Pipes /\ types.events = Seq(Ids)
  BY <1>2, <1>3 DEF TransportTypes, Streams, Pipes, Statuses, Fields
<1>5. /\ types.fadeState = FadeStates /\ types.fadeOnNext = BOOLEAN /\ types.resume = BOOLEAN
      /\ types.forId = Ids /\ types.token = Ids /\ types.gain = Gains
      /\ types.gainToken = Ids
  BY <1>2, <1>3 DEF FadeTypes, Fields
<1> QED BY <1>1, <1>4, <1>5 DEF TypeOK, Typed, types, Fields

-----------------------------------------------------------------------------
(***************************************************************************)
(* The operators that handlers are made of: what each changes, and what it    *)
(* leaves there.                                                            *)
(***************************************************************************)
LEMMA SetPlaybackSpec ==
    ASSUME NEW e, Typed(e), NEW p \in Playbacks
    PROVE  /\ Typed(SetPlayback(e, p)) /\ SetPlayback(e, p).playback = p
           /\ Keeps(e, SetPlayback(e, p), {"playback", "phase"})
<1> DEFINE r == SetPlayback(e, p)
<1>1. Typed(r) /\ r.playback = p
  BY DEF Typed, SetPlayback, Fields, Playbacks, Phases
<1>2. Keeps(e, r, {"playback", "phase"})
  BY DEF Typed, SetPlayback, Fields, Keeps
<1> QED BY <1>1, <1>2

\* Buffering is forgotten, and a held pipeline let go where that is asked for.
LEMMA ClearBufferingSpec ==
    ASSUME NEW e, Typed(e), NEW b \in BOOLEAN
    PROVE  /\ Typed(ClearBuffering(e, b))
           /\ Keeps(e, ClearBuffering(e, b), {"buffering", "pipe"})
           /\ ~ClearBuffering(e, b).buffering
           /\ ClearBuffering(e, b).pipe = IF e.buffering /\ b /\ e.pipe = "held"
                                          THEN "running" ELSE e.pipe
<1> DEFINE r == ClearBuffering(e, b)
<1>1. Typed(r) /\ ~r.buffering
  BY DEF Typed, ClearBuffering, Fields, Pipes
<1>2. Keeps(e, r, {"buffering", "pipe"})
  BY DEF Typed, ClearBuffering, Fields, Keeps
<1>3. r.pipe = IF e.buffering /\ b /\ e.pipe = "held" THEN "running" ELSE e.pipe
  BY DEF Typed, ClearBuffering, Fields
<1> QED BY <1>1, <1>2, <1>3

\* The output is closed.
LEMMA UninitSpec ==
    ASSUME NEW e, Typed(e)
    PROVE  /\ Typed(Uninit(e))
           /\ Keeps(e, Uninit(e), {"output", "pipe", "events"})
           /\ Uninit(e).pipe = "stopped" /\ ~Uninit(e).output
<1> DEFINE r == Uninit(e)
<1>1. Typed(r) /\ r.pipe = "stopped" /\ ~r.output
  BY NoEvents DEF Typed, Uninit, Fields, Pipes
<1>2. Keeps(e, r, {"output", "pipe", "events"})
  BY DEF Typed, Uninit, Fields, Keeps
<1> QED BY <1>1, <1>2

\* The output is opened, or fails to.
LEMMA OpenOutputSpec ==
    ASSUME NEW e, Typed(e)
    PROVE  /\ Typed(OpenOutput(e)) /\ OpenOutput(e).output
           /\ Keeps(e, OpenOutput(e), {"output", "events"})
<1> DEFINE r == OpenOutput(e)
<1>1. Typed(r) /\ r.output
  BY NoEvents DEF Typed, OpenOutput, Fields
<1>2. Keeps(e, r, {"output", "events"})
  BY DEF Typed, OpenOutput, Fields, Keeps
<1> QED BY <1>1, <1>2

\* The stream is dropped and the output closed.
LEMMA ReleaseSpec ==
    ASSUME NEW e, Typed(e)
    PROVE  /\ Typed(Release(e))
           /\ Keeps(e, Release(e), {"output", "pipe", "events", "stream"})
           /\ Release(e).pipe = "stopped" /\ ~Release(e).output /\ Release(e).stream = "none"
<1> DEFINE r == Release(e)
<1>1. Typed(r) /\ r.pipe = "stopped" /\ ~r.output /\ r.stream = "none"
  BY NoEvents DEF Typed, Release, Uninit, Fields, Pipes, Streams
<1>2. Keeps(e, r, {"output", "pipe", "events", "stream"})
  BY DEF Typed, Release, Uninit, Fields, Keeps
<1> QED BY <1>1, <1>2

\* Every fade is given up.
LEMMA CancelAllSpec ==
    ASSUME NEW e, Typed(e)
    PROVE  /\ Typed(CancelAll(e)) /\ CancelAll(e).fadeState = "idle"
           /\ Keeps(e, CancelAll(e), FadeFields)
<1> DEFINE r == CancelAll(e)
<1>1. Typed(r) /\ r.fadeState = "idle"
  BY ZeroId DEF Typed, CancelAll, ResetFader, InvalidateActiveFade, Fields, FadeStates, Gains
<1>2. Keeps(e, r, FadeFields)
  BY DEF Typed, CancelAll, ResetFader, InvalidateActiveFade, Fields, Keeps, FadeFields
<1> QED BY <1>1, <1>2

\* The fade that runs is out of date.
LEMMA InvalidateSpec ==
    ASSUME NEW e, Typed(e)
    PROVE  /\ Typed(InvalidateActiveFade(e))
           /\ Keeps(e, InvalidateActiveFade(e), {"token"})
<1> DEFINE r == InvalidateActiveFade(e)
<1>1. Typed(r)
  BY ZeroId DEF Typed, InvalidateActiveFade, Fields
<1>2. Keeps(e, r, {"token"})
  BY DEF Typed, InvalidateActiveFade, Fields, Keeps
<1> QED BY <1>1, <1>2

\* The fade is given up because the output is opened again.
LEMMA CancelForReinitSpec ==
    ASSUME NEW e, Typed(e)
    PROVE  /\ Typed(CancelForReinit(e)) /\ CancelForReinit(e).fadeState = "idle"
           /\ Keeps(e, CancelForReinit(e), FadeFields)
BY CancelAllSpec DEF CancelForReinit, Keeps

\* A play ends the fade that was pending, and fades in, or not.
LEMMA ApplyPlayFadeSpec ==
    ASSUME NEW e, Typed(e), NEW prev, NEW f \in Fadings
    PROVE  /\ Typed(ApplyPlayFade(e, prev, f)) /\ ApplyPlayFade(e, prev, f).fadeState = "idle"
           /\ Keeps(e, ApplyPlayFade(e, prev, f), FadeFields)
<1> DEFINE g == [e EXCEPT !.fadeState = "idle", !.resume = FALSE]
           r == ApplyPlayFade(e, prev, f)
<1>1. /\ Typed(g) /\ g.fadeState = "idle" /\ Keeps(e, g, FadeFields)
  BY DEF Typed, Fields, FadeStates, Keeps, FadeFields
<1>2. r \in {FadeIn(g), ResetFader([g EXCEPT !.token = 0]), g}
  BY DEF ApplyPlayFade
<1> HIDE DEF g, r
<1>3. Typed(FadeIn(g)) /\ FadeIn(g).fadeState = "idle" /\ Keeps(g, FadeIn(g), FadeFields)
  BY <1>1, ZeroId DEF FadeIn, Typed, Fields, Gains, Keeps, FadeFields
<1>4. LET h == ResetFader([g EXCEPT !.token = 0])
      IN  Typed(h) /\ h.fadeState = "idle" /\ Keeps(g, h, FadeFields)
  BY <1>1, ZeroId DEF ResetFader, Typed, Fields, Gains, Keeps, FadeFields
<1>5. Typed(r) /\ r.fadeState = "idle" /\ Keeps(e, r, FadeFields)
  BY <1>1, <1>2, <1>3, <1>4 DEF Keeps
<1> QED BY <1>5 DEF r

\* A drained pause, or the pause of a live stream: nothing is drained, buffered or
\* rendered any more.
LEMMA FinalisePausedSpec ==
    ASSUME NEW e, Typed(e), BufferOk(e), e.drain = 0
    PROVE  /\ Sound(FinalisePaused(e)) /\ FinalisePaused(e).fadeState = "idle"
           /\ FinalisePaused(e).playback = "paused"
<1> DEFINE f == [e EXCEPT !.transport = 0]
<1>1. Typed(f) /\ BufferOk(f) /\ f.drain = 0
  BY ZeroId DEF Typed, BufferOk, Fields
<1> DEFINE a == ClearBuffering(f, FALSE)
           b == Release(a)
           c == [b EXCEPT !.suspended = TRUE, !.fadeState = "idle", !.fadeOnNext = FALSE]
           r == SetPlayback(c, "paused")
           g == [f EXCEPT !.pipe = "paused", !.fadeState = "idle", !.fadeOnNext = FALSE]
           h == SetPlayback(g, "paused")
           q == [h EXCEPT !.phase = "paused"]
<1>2. FinalisePaused(e) = IF f.source = "radio" /\ f.stream # "none" THEN r ELSE q
  BY DEF FinalisePaused, SuspendPaused
<1> HIDE DEF f
<1>3. Sound(r) /\ r.fadeState = "idle" /\ r.playback = "paused"
  <2>1. Typed(a) /\ ~a.buffering /\ a.drain = 0
    BY <1>1, ClearBufferingSpec DEF Keeps, Fields
  <2> HIDE DEF a
  <2>2. Typed(b) /\ ~b.buffering /\ b.drain = 0 /\ b.pipe = "stopped"
    BY <2>1, ReleaseSpec DEF Keeps, Fields
  <2> HIDE DEF b
  <2>3. Typed(c) /\ ~c.buffering /\ c.drain = 0 /\ c.pipe = "stopped" /\ c.fadeState = "idle"
    BY <2>2 DEF Typed, Fields, FadeStates
  <2> HIDE DEF c
  <2>4. /\ Typed(r) /\ ~r.buffering /\ r.drain = 0 /\ r.pipe = "stopped"
        /\ r.fadeState = "idle" /\ r.playback = "paused"
    BY <2>3, SetPlaybackSpec DEF Keeps, Fields, Playbacks
  <2> HIDE DEF r
  <2> QED BY <2>4 DEF Sound, DrainOk, PipeOk, BufferOk, FadeOk, SuspendOk, HasPendingFade
<1>4. ASSUME ~(f.source = "radio" /\ f.stream # "none")
      PROVE  Sound(q) /\ q.fadeState = "idle" /\ q.playback = "paused"
  <2>1. ~f.buffering
    BY <1>1, <1>4 DEF BufferOk
  <2>2. Typed(g) /\ ~g.buffering /\ g.drain = 0 /\ g.pipe = "paused" /\ g.fadeState = "idle"
    BY <1>1, <2>1 DEF Typed, Fields, FadeStates, Pipes
  <2> HIDE DEF g
  <2>3. /\ Typed(h) /\ ~h.buffering /\ h.drain = 0 /\ h.pipe = "paused"
        /\ h.fadeState = "idle" /\ h.playback = "paused"
    BY <2>2, SetPlaybackSpec DEF Keeps, Fields, Playbacks
  <2> HIDE DEF h
  <2>4. /\ Typed(q) /\ ~q.buffering /\ q.drain = 0 /\ q.pipe = "paused"
        /\ q.fadeState = "idle" /\ q.playback = "paused"
    BY <2>3 DEF Typed, Fields, Phases
  <2> HIDE DEF q
  <2> QED BY <2>4 DEF Sound, DrainOk, PipeOk, BufferOk, FadeOk, SuspendOk, HasPendingFade
<1> HIDE DEF r, q
<1> QED BY <1>2, <1>3, <1>4

\* The pause of the last command goes on draining, or is finished.
LEMMA CompletePauseSpec ==
    ASSUME NEW e, Typed(e), BufferOk(e), ~e.suspended, ~HasPendingFade(e),
           e.playback = "paused", e.pipe \notin {"running", "held"}, NEW drained
    PROVE  /\ Sound(CompletePause(e, drained)) /\ SameFade(e, CompletePause(e, drained))
           /\ CompletePause(e, drained).playback = "paused"
<1> DEFINE z == [e EXCEPT !.drain = 0]
           p == [e EXCEPT !.polls = @ \cup {e.drain}]
           r == CompletePause(e, drained)
<1>1. /\ Typed(z) /\ BufferOk(z) /\ z.drain = 0
      /\ Keeps(e, z, {"drain"})
  BY ZeroId DEF Typed, BufferOk, Fields, Keeps
<1>2. /\ Typed(p) /\ p.drain \in p.polls
      /\ Keeps(e, p, {"polls"})
  BY DEF Typed, Fields, Keeps
<1>3. \/ r = z
      \/ r = FinalisePaused(z)
      \/ e.drain = e.transport /\ r = p
  BY DEF CompletePause, PollAgain
<1> HIDE DEF z, p, r
<1>4. Sound(z) /\ SameFade(e, z) /\ z.playback = "paused"
  <2>1. /\ ~z.suspended /\ z.playback = "paused" /\ z.pipe \notin {"running", "held"}
        /\ z.fadeState = e.fadeState
    BY <1>1 DEF Keeps, Fields
  <2> QED
    BY <1>1, <2>1 DEF Sound, DrainOk, PipeOk, FadeOk, SuspendOk, HasPendingFade, SameFade
<1>5. Sound(FinalisePaused(z)) /\ SameFade(e, FinalisePaused(z))
      /\ FinalisePaused(z).playback = "paused"
  BY <1>1, FinalisePausedSpec DEF SameFade
<1>6. ASSUME e.drain = e.transport, r = p
      PROVE  Sound(p) /\ SameFade(e, p) /\ p.playback = "paused"
  <2>1. /\ ~p.suspended /\ p.playback = "paused" /\ p.pipe \notin {"running", "held"}
        /\ p.fadeState = e.fadeState /\ p.drain = p.transport
        /\ p.buffering = e.buffering /\ p.source = e.source /\ p.stream = e.stream
    BY <1>2, <1>6 DEF Keeps, Fields
  <2> QED
    BY <1>2, <2>1
       DEF Sound, DrainOk, PipeOk, BufferOk, FadeOk, SuspendOk, HasPendingFade, SameFade
<1>7. Sound(r) /\ SameFade(e, r) /\ r.playback = "paused"
  BY <1>3, <1>4, <1>5, <1>6
<1> QED BY <1>7 DEF r

\* The fade of a pause is over: the output plays what it holds.
LEMMA BeginDrainSpec ==
    ASSUME NEW e, Typed(e), BufferOk(e), ~e.suspended, ~HasPendingFade(e),
           NEW id \in Ids, NEW drained
    PROVE  /\ Sound(BeginDrain(e, id, drained)) /\ SameFade(e, BeginDrain(e, id, drained))
           /\ BeginDrain(e, id, drained).playback = "paused"
<1> DEFINE a == [e EXCEPT !.pipe = "draining"]
           b == SetPlayback(a, "paused")
           c == [b EXCEPT !.drain = id]
<1>1. Typed(a) /\ Keeps(e, a, {"pipe"}) /\ a.pipe = "draining"
  BY DEF Typed, Fields, Pipes, Keeps
<1> HIDE DEF a
<1>2. Typed(b) /\ Keeps(a, b, {"playback", "phase"}) /\ b.playback = "paused"
  BY <1>1, SetPlaybackSpec DEF Playbacks
<1> HIDE DEF b
<1>3. Typed(c) /\ Keeps(b, c, {"drain"})
  BY <1>2 DEF Typed, Fields, Keeps
<1> HIDE DEF c
<1>4. /\ ~c.suspended /\ c.fadeState = e.fadeState /\ c.playback = "paused"
      /\ c.pipe = "draining" /\ c.buffering = e.buffering /\ c.source = e.source
      /\ c.stream = e.stream
  BY <1>1, <1>2, <1>3 DEF Keeps, Fields
<1>5. BufferOk(c) /\ ~HasPendingFade(c)
  BY <1>4 DEF BufferOk, HasPendingFade
<1>6. BeginDrain(e, id, drained) = CompletePause(c, drained)
  BY DEF BeginDrain, a, b, c
<1> QED BY <1>3, <1>4, <1>5, <1>6, CompletePauseSpec DEF SameFade

\* A stop without a fade leaves nothing that could pause or play later.
LEMMA StopImmediateSpec ==
    ASSUME NEW e, Typed(e)
    PROVE  /\ Sound(StopImmediate(e)) /\ StopImmediate(e).fadeState = "idle"
           /\ StopImmediate(e).playback = "stopped"
<1> DEFINE a == ClearBuffering(e, FALSE)
           b == CancelAll(a)
           c == Release(b)
           d == [c EXCEPT !.drain = 0, !.suspended = FALSE, !.transport = 0,
                          !.status = "none", !.endTimer = FALSE]
           r == SetPlayback(d, "stopped")
<1>1. Typed(a) /\ ~a.buffering
  BY ClearBufferingSpec
<1> HIDE DEF a
<1>2. Typed(b) /\ ~b.buffering /\ b.fadeState = "idle"
  BY <1>1, CancelAllSpec DEF Keeps, Fields, FadeFields
<1> HIDE DEF b
<1>3. Typed(c) /\ ~c.buffering /\ c.fadeState = "idle" /\ c.pipe = "stopped"
  BY <1>2, ReleaseSpec DEF Keeps, Fields
<1> HIDE DEF c
<1>4. /\ Typed(d) /\ ~d.buffering /\ d.fadeState = "idle" /\ d.pipe = "stopped"
      /\ d.drain = 0 /\ ~d.suspended
  BY <1>3, ZeroId DEF Typed, Fields, Statuses
<1> HIDE DEF d
<1>5. /\ Typed(r) /\ ~r.buffering /\ r.fadeState = "idle" /\ r.pipe = "stopped"
      /\ r.drain = 0 /\ ~r.suspended /\ r.playback = "stopped"
  BY <1>4, SetPlaybackSpec DEF Playbacks, Keeps, Fields
<1>6. r = StopImmediate(e)
  BY DEF r, d, c, b, a, StopImmediate
<1> HIDE DEF r
<1>7. Sound(r)
  BY <1>5 DEF Sound, DrainOk, PipeOk, BufferOk, FadeOk, SuspendOk, HasPendingFade
<1> QED BY <1>5, <1>6, <1>7

\* Playing on takes back a pause that drains.
LEMMA CancelDrainSpec ==
    ASSUME NEW e, Sound(e), e.drain # 0, fading \in Fadings
    PROVE  /\ Sound(CancelDrain(e)) /\ CancelDrain(e).fadeState = "idle"
           /\ CancelDrain(e).playback = "playing"
<1> DEFINE a == ApplyPlayFade(e, "paused", fading)
           b == [a EXCEPT !.drain = 0, !.transport = 0, !.pipe = "running"]
           r == SetPlayback(b, "playing")
<1>1. Typed(e) /\ ~e.suspended /\ BufferOk(e)
  BY DEF Sound, SuspendOk, Typed
<1>2. Typed(a) /\ a.fadeState = "idle" /\ Keeps(e, a, FadeFields)
  BY <1>1, ApplyPlayFadeSpec
<1> HIDE DEF a
<1>3. /\ Typed(b) /\ b.drain = 0 /\ b.pipe = "running" /\ b.fadeState = "idle"
      /\ Keeps(a, b, {"drain", "transport", "pipe"})
  BY <1>2, ZeroId DEF Typed, Fields, Pipes, Keeps
<1> HIDE DEF b
<1>4. Typed(r) /\ r.playback = "playing" /\ Keeps(b, r, {"playback", "phase"})
  BY <1>3, SetPlaybackSpec DEF Playbacks
<1>5. r = CancelDrain(e)
  BY DEF r, b, a, CancelDrain
<1> HIDE DEF r
<1>6. /\ r.drain = 0 /\ r.pipe = "running" /\ r.fadeState = "idle" /\ ~r.suspended
      /\ r.buffering = e.buffering /\ r.source = e.source /\ r.stream = e.stream
  BY <1>1, <1>2, <1>3, <1>4 DEF Keeps, Fields, FadeFields
<1>7. Sound(r)
  BY <1>1, <1>4, <1>6 DEF Sound, DrainOk, PipeOk, BufferOk, FadeOk, SuspendOk, HasPendingFade
<1> QED BY <1>4, <1>5, <1>6, <1>7

\* Buffering changes how the pipeline plays, and nothing else.
LEMMA UpdateBufferingSpec ==
    ASSUME NEW e, Sound(e)
    PROVE  /\ Sound(UpdateBuffering(e))
           /\ Keeps(e, UpdateBuffering(e), {"buffering", "pipe", "status"})
<1> DEFINE a == ClearBuffering(e, FALSE)
           b == ClearBuffering(e, TRUE)
           c == [b EXCEPT !.status = "ok"]
           d == [e EXCEPT !.buffering = TRUE, !.status = "ok",
                          !.pipe = IF @ = "running" THEN "held" ELSE @]
           r == UpdateBuffering(e)
           X == {"buffering", "pipe", "status"}
<1>t. /\ Typed(e) /\ DrainOk(e) /\ PipeOk(e) /\ BufferOk(e) /\ FadeOk(e) /\ SuspendOk(e)
  BY DEF Sound
<1>1. \/ ~(e.source = "radio" /\ e.stream # "none") /\ r = a
      \/ r = b \/ r = c
      \/ /\ e.source = "radio" /\ e.stream # "none" /\ e.playback = "playing"
         /\ r = d
      \/ r = e
  BY DEF UpdateBuffering
<1>2. /\ Typed(a) /\ ~a.buffering /\ Keeps(e, a, X)
      /\ a.pipe = e.pipe
  <2>1. Typed(a) /\ ~a.buffering /\ Keeps(e, a, {"buffering", "pipe"}) /\ a.pipe = e.pipe
    BY <1>t, ClearBufferingSpec
  <2> HIDE DEF a
  <2> QED BY <2>1 DEF Keeps
<1>3. /\ Typed(b) /\ ~b.buffering /\ Keeps(e, b, X)
      /\ b.pipe = IF e.buffering /\ e.pipe = "held" THEN "running" ELSE e.pipe
  <2>1. /\ Typed(b) /\ ~b.buffering /\ Keeps(e, b, {"buffering", "pipe"})
        /\ b.pipe = IF e.buffering /\ e.pipe = "held" THEN "running" ELSE e.pipe
    BY <1>t, ClearBufferingSpec
  <2> HIDE DEF b
  <2> QED BY <2>1 DEF Keeps
<1>4. Typed(c) /\ ~c.buffering /\ Keeps(e, c, X) /\ c.pipe = b.pipe
  <2> HIDE DEF b
  <2>1. Typed(c) /\ c.buffering = b.buffering /\ c.pipe = b.pipe /\ Keeps(b, c, {"status"})
    BY <1>3 DEF Typed, Fields, Statuses, Keeps
  <2> QED BY <1>3, <2>1 DEF Keeps
<1>5. /\ Typed(d) /\ d.buffering /\ Keeps(e, d, X)
      /\ d.pipe = IF e.pipe = "running" THEN "held" ELSE e.pipe
  <2>1. Typed(d) /\ d.buffering
    BY <1>t DEF Typed, Fields, Statuses, Pipes
  <2>2. Keeps(e, d, X) /\ d.pipe = IF e.pipe = "running" THEN "held" ELSE e.pipe
    BY <1>t DEF Typed, Fields, Keeps
  <2> QED BY <2>1, <2>2
<1>6. Typed(r) /\ Keeps(e, r, X)
  <2>1. Keeps(e, e, X)
    BY DEF Keeps
  <2> HIDE DEF a, b, c, d, r, X
  <2> QED BY <1>1, <1>2, <1>3, <1>4, <1>5, <1>t, <2>1
<1>7. /\ r.buffering => (e.source = "radio" /\ e.stream # "none")
      /\ r.pipe = "held" => r.buffering
      /\ (e.playback = "playing" /\ e.output) => r.pipe \in {"running", "held"}
      /\ e.playback # "playing" => r.pipe \notin {"running", "held"}
  <2> HIDE DEF a, b, c, d, r
  <2>0. Typed(r)
    BY <1>6
  <2>1. CASE ~(e.source = "radio" /\ e.stream # "none") /\ r = a
    BY <1>t, <1>2, <2>1 DEF PipeOk, BufferOk
  <2>2. CASE r = b
    BY <1>t, <1>3, <2>2 DEF PipeOk, BufferOk
  <2>3. CASE r = c
    BY <1>t, <1>3, <1>4, <2>3 DEF PipeOk, BufferOk
  <2>4. CASE e.source = "radio" /\ e.stream # "none" /\ e.playback = "playing" /\ r = d
    BY <1>t, <1>5, <2>4 DEF PipeOk, BufferOk
  <2>5. CASE r = e
    BY <1>t, <2>5 DEF PipeOk, BufferOk
  <2> QED BY <1>1, <2>1, <2>2, <2>3, <2>4, <2>5
<1> HIDE DEF r
<1>8. /\ r.playback = e.playback /\ r.output = e.output /\ r.source = e.source
      /\ r.stream = e.stream /\ r.drain = e.drain /\ r.polls = e.polls
      /\ r.transport = e.transport /\ r.suspended = e.suspended /\ r.fadeState = e.fadeState
  BY <1>6 DEF Keeps, Fields
<1>9. Sound(r)
  BY <1>t, <1>6, <1>7, <1>8
     DEF Sound, DrainOk, PipeOk, BufferOk, FadeOk, SuspendOk, HasPendingFade
<1> QED BY <1>6, <1>9 DEF r

(***************************************************************************)
(* Loading and playing.                                                     *)
(***************************************************************************)

\* Once there are a stream and an output, play() plays.
LEMMA PlayLoadedSpec ==
    ASSUME NEW e, Typed(e), BufferOk(e), ~e.suspended, e.drain = 0, fading \in Fadings
    PROVE  /\ Sound(PlayLoaded(e)) /\ SameFade(e, PlayLoaded(e))
           /\ PlayLoaded(e).playback = "playing"
<1> DEFINE f  == [e EXCEPT !.fadeOnNext = @ /\ (HasPendingFade(e) \/ IsFading(e))]
           g  == IF f.fadeOnNext /\ ~f.resume THEN f ELSE ApplyPlayFade(f, e.playback, fading)
           h  == [g EXCEPT !.pipe = "running"]
           on == SetPlayback(h, "playing")
           k  == [on EXCEPT !.status = "ok", !.phase = IF @ = "loading" THEN "playing" ELSE @]
           r  == UpdateBuffering(k)
<1>1. Typed(f) /\ Keeps(e, f, {"fadeOnNext"})
  <2>1. (HasPendingFade(e) \/ IsFading(e)) \in BOOLEAN
    BY DEF HasPendingFade, IsFading
  <2> QED BY <2>1 DEF Typed, Fields, Keeps
<1>2. Typed(g) /\ SameFade(f, g) /\ Keeps(f, g, FadeFields)
  <2> HIDE DEF f
  <2>1. Typed(f) /\ SameFade(f, f) /\ Keeps(f, f, FadeFields)
    BY <1>1 DEF SameFade, Keeps
  <2> DEFINE p == ApplyPlayFade(f, e.playback, fading)
  <2>2. Typed(p) /\ SameFade(f, p) /\ Keeps(f, p, FadeFields)
    BY <1>1, ApplyPlayFadeSpec DEF SameFade
  <2> HIDE DEF p
  <2>3. g = f \/ g = p
    BY DEF p
  <2> HIDE DEF g
  <2> QED BY <2>1, <2>2, <2>3
<1>6. r = PlayLoaded(e)
  BY DEF PlayLoaded
<1> HIDE DEF f, g
<1>3. Typed(h) /\ h.pipe = "running" /\ Keeps(g, h, {"pipe"})
  BY <1>2 DEF Typed, Fields, Pipes, Keeps
<1> HIDE DEF h
<1>4. Typed(on) /\ on.playback = "playing" /\ Keeps(h, on, {"playback", "phase"})
  BY <1>3, SetPlaybackSpec DEF Playbacks
<1> HIDE DEF on
<1>5. Typed(k) /\ Keeps(on, k, {"status", "phase"})
  BY <1>4 DEF Typed, Fields, Statuses, Phases, Keeps
<1> HIDE DEF k
<1>7. /\ k.drain = 0 /\ k.playback = "playing" /\ k.pipe = "running" /\ ~k.suspended
      /\ k.buffering = e.buffering /\ k.source = e.source /\ k.stream = e.stream
      /\ k.fadeState = g.fadeState /\ f.fadeState = e.fadeState
  BY <1>1, <1>2, <1>3, <1>4, <1>5 DEF Keeps, Fields, FadeFields
<1>8. Sound(k)
  BY <1>5, <1>7 DEF Sound, DrainOk, PipeOk, BufferOk, FadeOk, SuspendOk
<1>9. Sound(r) /\ r.playback = k.playback /\ r.fadeState = k.fadeState
  BY <1>8, UpdateBufferingSpec DEF Keeps, Fields
<1> HIDE DEF r
<1> QED BY <1>2, <1>6, <1>7, <1>9 DEF SameFade

\* A load by the user gives up the fade of a pause or a stop, or keeps it.
LEMMA InterruptFadeSpec ==
    ASSUME NEW e, Typed(e), fading \in Fadings
    PROVE  /\ Typed(InterruptFade(e)) /\ SameFade(e, InterruptFade(e))
           /\ Keeps(e, InterruptFade(e), FadeFields \cup {"transport", "phase"})
<1> DEFINE canFadeIn == IF e.fadeState = "toStop" THEN fading.stopIn ELSE fading.pauseIn
           g == IF canFadeIn THEN InvalidateActiveFade(e) ELSE CancelAll(e)
           f == [g EXCEPT !.transport = 0]
           h == [f EXCEPT !.phase = IF f.playback = "playing" THEN "playing" ELSE @]
           r == InterruptFade(e)
           X == FadeFields \cup {"transport", "phase"}
<1>1. r = e \/ r = h
  BY DEF InterruptFade
<1>2. Typed(g) /\ SameFade(e, g) /\ Keeps(e, g, FadeFields)
  <2>1. /\ Typed(InvalidateActiveFade(e)) /\ SameFade(e, InvalidateActiveFade(e))
        /\ Keeps(e, InvalidateActiveFade(e), FadeFields)
    BY InvalidateSpec DEF Keeps, Fields, FadeFields, SameFade
  <2>2. /\ Typed(CancelAll(e)) /\ SameFade(e, CancelAll(e))
        /\ Keeps(e, CancelAll(e), FadeFields)
    BY CancelAllSpec DEF SameFade
  <2>3. g = InvalidateActiveFade(e) \/ g = CancelAll(e)
    OBVIOUS
  <2> HIDE DEF g
  <2> QED BY <2>1, <2>2, <2>3
<1> HIDE DEF g, r
<1>3. Typed(f) /\ Keeps(g, f, {"transport"})
  BY <1>2, ZeroId DEF Typed, Fields, Keeps
<1> HIDE DEF f
<1>4. Typed(h) /\ Keeps(f, h, {"phase"})
  BY <1>3 DEF Typed, Fields, Keeps, Phases
<1> HIDE DEF h
<1>5. Keeps(e, h, X) /\ SameFade(e, h)
  BY <1>2, <1>3, <1>4 DEF Keeps, Fields, FadeFields, SameFade
<1>6. Keeps(e, e, X) /\ SameFade(e, e)
  BY DEF Keeps, SameFade
<1>7. Typed(r) /\ SameFade(e, r) /\ Keeps(e, r, X)
  BY <1>1, <1>4, <1>5, <1>6
<1> QED BY <1>7 DEF r

\* What a load leaves: nothing is drained, buffered or suspended; the pipeline
\* plays on if the engine plays, unless the output was opened for the new track,
\* which has then to be started.
Loaded(e, r) ==
    /\ Typed(r) /\ SameFade(e, r) /\ r.playback = e.playback
    /\ r.drain = 0 /\ ~r.buffering /\ ~r.suspended /\ r.pipe # "held"
    /\ e.playback # "playing" => r.pipe # "running"
    /\ e.playback = "playing" /\ r.status # "ok" /\ r.output => r.pipe = "running"

\* A track is loaded, or fails to open.
LEMMA LoadSpec ==
    ASSUME NEW e, Sound(e), fading \in Fadings, NEW source \in Sources,
           NEW manual \in BOOLEAN, NEW env \in Environments
    PROVE  Loaded(e, Load(e, source, manual, env))
<1> DEFINE i        == IF manual THEN InterruptFade(e) ELSE e
           keepFade == HasPendingFade(i)
           b        == ClearBuffering(i, TRUE)
           c        == [b EXCEPT !.drain = 0, !.suspended = FALSE, !.endTimer = FALSE,
                                 !.source = source, !.stream = "none", !.phase = "loading",
                                 !.token = IF keepFade THEN @ ELSE 0]
           closed   == IF env.newFormat /\ c.output THEN Uninit(c) ELSE c
           opened   == IF closed.output THEN closed ELSE OpenOutput(closed)
           next     == IF e.playback # "playing" THEN FALSE
                       ELSE e.fadeOnNext \/ (~(manual /\ keepFade)
                                             /\ (IsFading(i) \/ keepFade))
           r1       == [c EXCEPT !.status = "invalid"]
           r2       == [closed EXCEPT !.status = "invalid", !.stream = "undriven"]
           r3       == [opened EXCEPT !.status = "ok", !.stream = "fed", !.fadeOnNext = next]
           r        == Load(e, source, manual, env)
<1>t. Typed(e) /\ PipeOk(e)
  BY DEF Sound
<1>1. \/ r = r1
      \/ ~closed.output /\ r = r2
      \/ r = r3
  BY DEF Load
<1>n. next \in BOOLEAN
  BY <1>t DEF Typed, IsFading, HasPendingFade
<1> HIDE DEF r, next
<1>2. Typed(i) /\ SameFade(e, i) /\ Keeps(e, i, FadeFields \cup {"transport", "phase"})
  <2>1. Typed(e) /\ SameFade(e, e) /\ Keeps(e, e, FadeFields \cup {"transport", "phase"})
    BY <1>t DEF Keeps, SameFade
  <2> QED BY <2>1, InterruptFadeSpec
<1> HIDE DEF i
<1>3. /\ Typed(b) /\ Keeps(i, b, {"buffering", "pipe"}) /\ ~b.buffering
      /\ b.pipe = IF i.buffering /\ i.pipe = "held" THEN "running" ELSE i.pipe
  BY <1>2, ClearBufferingSpec
<1>4. /\ i.buffering = e.buffering /\ i.pipe = e.pipe /\ i.playback = e.playback
      /\ i.output = e.output
  BY <1>2 DEF Keeps, Fields, FadeFields
<1> HIDE DEF b
<1>5. /\ b.playback = e.playback /\ b.output = e.output /\ b.fadeState = i.fadeState
      /\ b.pipe # "held"
      /\ e.playback # "playing" => b.pipe # "running"
      /\ (e.playback = "playing" /\ e.output) => b.pipe = "running"
  <2>1. b.playback = i.playback /\ b.output = i.output /\ b.fadeState = i.fadeState
    BY <1>3 DEF Keeps, Fields
  <2> QED BY <1>t, <1>3, <1>4, <2>1 DEF PipeOk
<1>6. /\ Typed(c) /\ c.drain = 0 /\ ~c.suspended /\ c.stream = "none"
      /\ Keeps(b, c, {"drain", "suspended", "endTimer", "source", "stream", "phase", "token"})
  <2>1. Typed(c) /\ c.drain = 0 /\ ~c.suspended /\ c.stream = "none"
    BY <1>3, ZeroId DEF Typed, Fields, Streams, Phases
  <2>2. Keeps(b, c, {"drain", "suspended", "endTimer", "source", "stream", "phase", "token"})
    BY <1>3 DEF Typed, Fields, Keeps
  <2> QED BY <2>1, <2>2
<1> HIDE DEF c, keepFade
<1> DEFINE Good(x) ==
      /\ Typed(x) /\ SameFade(e, x) /\ x.playback = e.playback
      /\ x.drain = 0 /\ ~x.buffering /\ ~x.suspended /\ x.pipe # "held"
      /\ e.playback # "playing" => x.pipe # "running"
<1>7. Good(c) /\ c.output = e.output /\ c.pipe = b.pipe
  <2>1. /\ c.playback = b.playback /\ c.output = b.output /\ c.fadeState = b.fadeState
        /\ c.pipe = b.pipe /\ c.buffering = b.buffering
    BY <1>6 DEF Keeps, Fields
  <2> QED BY <1>2, <1>3, <1>5, <1>6, <2>1 DEF SameFade
<1>8. /\ Good(closed)
      /\ (e.playback = "playing" /\ closed.output) => closed.pipe = "running"
  <2>1. CASE closed = c
    BY <1>5, <1>7, <2>1
  <2>2. CASE closed = Uninit(c)
    <3> DEFINE u == Uninit(c)
    <3>1. Typed(u) /\ Keeps(c, u, {"output", "pipe", "events"}) /\ u.pipe = "stopped" /\ ~u.output
      BY <1>7, UninitSpec
    <3> HIDE DEF u
    <3>2. /\ u.playback = c.playback /\ u.fadeState = c.fadeState /\ u.drain = c.drain
          /\ u.buffering = c.buffering /\ u.suspended = c.suspended
      BY <3>1 DEF Keeps, Fields
    <3>3. closed = u
      BY <2>2 DEF u
    <3> HIDE DEF closed
    <3> QED BY <1>7, <3>1, <3>2, <3>3 DEF SameFade
  <2> QED BY <2>1, <2>2
<1> HIDE DEF closed
<1>9. Good(opened)
  <2>1. CASE opened = closed
    BY <1>8, <2>1
  <2>2. CASE opened = OpenOutput(closed)
    <3> DEFINE u == OpenOutput(closed)
    <3>1. Typed(u) /\ Keeps(closed, u, {"output", "events"})
      BY <1>8, OpenOutputSpec
    <3> HIDE DEF u
    <3>2. /\ u.playback = closed.playback /\ u.fadeState = closed.fadeState
          /\ u.drain = closed.drain /\ u.pipe = closed.pipe
          /\ u.buffering = closed.buffering /\ u.suspended = closed.suspended
      BY <3>1 DEF Keeps, Fields
    <3>3. opened = u
      BY <2>2 DEF u
    <3> HIDE DEF opened
    <3> QED BY <1>8, <3>1, <3>2, <3>3 DEF SameFade
  <2> QED BY <2>1, <2>2
<1> HIDE DEF opened, Good
<1>10. ASSUME NEW x, Good(x), NEW y, Typed(y), Keeps(x, y, {"status", "stream", "fadeOnNext"})
       PROVE  Good(y) /\ y.output = x.output /\ y.pipe = x.pipe
  <2>1. /\ y.playback = x.playback /\ y.fadeState = x.fadeState /\ y.drain = x.drain
        /\ y.buffering = x.buffering /\ y.suspended = x.suspended /\ y.pipe = x.pipe
        /\ y.output = x.output
    BY <1>10 DEF Keeps, Fields
  <2> QED BY <1>10, <2>1 DEF Good, SameFade
<1>11. CASE r = r1
  <2>1. Typed(r1) /\ Keeps(c, r1, {"status", "stream", "fadeOnNext"})
    BY <1>6 DEF Typed, Fields, Statuses, Keeps
  <2> HIDE DEF r1
  <2>2. Good(r1) /\ r1.output = c.output /\ r1.pipe = c.pipe
    BY <1>7, <1>10, <2>1
  <2>3. Loaded(e, r1)
    BY <1>5, <1>7, <2>2 DEF Loaded, Good
  <2> QED BY <1>11, <2>3 DEF r
<1>12. CASE ~closed.output /\ r = r2
  <2>0. Typed(closed)
    BY <1>8 DEF Good
  <2>1. Typed(r2) /\ Keeps(closed, r2, {"status", "stream", "fadeOnNext"})
    BY <2>0 DEF Typed, Fields, Statuses, Streams, Keeps
  <2> HIDE DEF r2
  <2>2. Good(r2) /\ r2.output = closed.output /\ r2.pipe = closed.pipe
    BY <1>8, <1>10, <2>1
  <2>3. Loaded(e, r2)
    BY <1>12, <2>2 DEF Loaded, Good
  <2> QED BY <1>12, <2>3 DEF r
<1>13. CASE r = r3
  <2>0. Typed(opened)
    BY <1>9 DEF Good
  <2>1. Typed(r3) /\ Keeps(opened, r3, {"status", "stream", "fadeOnNext"}) /\ r3.status = "ok"
    <3>1. Typed(r3) /\ r3.status = "ok"
      BY <1>n, <2>0 DEF Typed, Fields, Statuses, Streams
    <3>2. Keeps(opened, r3, {"status", "stream", "fadeOnNext"})
      BY <2>0 DEF Typed, Fields, Keeps
    <3> QED BY <3>1, <3>2
  <2> HIDE DEF r3
  <2>2. Good(r3)
    BY <1>9, <1>10, <2>1
  <2>3. Loaded(e, r3)
    BY <2>1, <2>2 DEF Loaded, Good
  <2> QED BY <1>13, <2>3 DEF r
<1> QED BY <1>1, <1>11, <1>12, <1>13

\* A load that is not followed by play() leaves a sound state.
LEMMA LoadedIsSound ==
    ASSUME NEW e, Sound(e), NEW r, Loaded(e, r), r.playback # "playing" \/ r.status # "ok"
    PROVE  Sound(r)
<1>1. r.fadeState = e.fadeState \/ r.fadeState = "idle"
  BY DEF Loaded, SameFade
<1> QED
  BY <1>1 DEF Loaded, Sound, DrainOk, PipeOk, BufferOk, FadeOk, SuspendOk, HasPendingFade

(***************************************************************************)
(* Opening the output again.  Only an output that cannot be opened pauses      *)
(* what plays.                                                              *)
(***************************************************************************)
PausedForOutput(e, r) ==
    e.playback = "playing" /\ r.playback = "paused" => ~r.output /\ ~r.suspended

Continues(e, r) ==
    /\ Sound(r) /\ SameFade(e, r) /\ PausedForOutput(e, r)
    /\ r.playback = "stopped" => e.playback = "stopped"

\* The output is opened again.
LEMMA ReinitSpec ==
    ASSUME NEW e, Sound(e), NEW device \in BOOLEAN
    PROVE  /\ Continues(e, Reinit(e, device))
           /\ Reinit(e, device).drain \in {e.drain, 0}
           /\ Reinit(e, device).suspended = e.suspended
<1> DEFINE i == InvalidateActiveFade(e)
           c == IF e.playback = "stopped" THEN i ELSE CancelForReinit(i)
           u == Uninit(c)
           o == OpenOutput(u)
           r1 == [o EXCEPT !.pipe = IF e.playback = "playing" THEN "running" ELSE @]
           b == ClearBuffering(u, FALSE)
           f == [b EXCEPT !.drain = 0, !.transport = 0, !.pipe = "paused"]
           r2 == SetPlayback(f, "paused")
           r == Reinit(e, device)
<1>t. /\ Typed(e) /\ DrainOk(e) /\ PipeOk(e) /\ BufferOk(e) /\ FadeOk(e) /\ SuspendOk(e)
  BY DEF Sound
<1>1. r = IF device THEN r1 ELSE IF e.playback # "stopped" THEN r2 ELSE f
  BY DEF Reinit
<1> HIDE DEF r
<1>2. Typed(i) /\ Keeps(e, i, {"token"})
  BY <1>t, InvalidateSpec
<1> HIDE DEF i
<1>3. /\ Typed(c) /\ Keeps(e, c, FadeFields)
      /\ c.fadeState = IF e.playback = "stopped" THEN e.fadeState ELSE "idle"
  <2>1. Keeps(e, i, FadeFields) /\ i.fadeState = e.fadeState
    BY <1>2 DEF Keeps, Fields, FadeFields
  <2>2. /\ Typed(CancelForReinit(i)) /\ CancelForReinit(i).fadeState = "idle"
        /\ Keeps(i, CancelForReinit(i), FadeFields)
    BY <1>2, CancelForReinitSpec
  <2> QED BY <1>2, <2>1, <2>2 DEF Keeps
<1> HIDE DEF c
<1>4. /\ Typed(u) /\ Keeps(c, u, {"output", "pipe", "events"})
      /\ u.pipe = "stopped" /\ ~u.output
  BY <1>3, UninitSpec
<1> HIDE DEF u
<1>5. Typed(o) /\ o.output /\ Keeps(u, o, {"output", "events"})
  BY <1>4, OpenOutputSpec
<1> HIDE DEF o
<1>6. /\ Typed(r1) /\ Keeps(o, r1, {"pipe"})
      /\ r1.pipe = IF e.playback = "playing" THEN "running" ELSE o.pipe
  BY <1>5 DEF Typed, Fields, Pipes, Keeps
<1> HIDE DEF r1
<1>7. Typed(b) /\ Keeps(u, b, {"buffering", "pipe"}) /\ ~b.buffering
  BY <1>4, ClearBufferingSpec
<1> HIDE DEF b
<1>8. Typed(f) /\ Keeps(b, f, {"drain", "transport", "pipe"}) /\ f.drain = 0 /\ f.pipe = "paused"
  BY <1>7, ZeroId DEF Typed, Fields, Pipes, Keeps
<1> HIDE DEF f
<1>9. Typed(r2) /\ Keeps(f, r2, {"playback", "phase"}) /\ r2.playback = "paused"
  BY <1>8, SetPlaybackSpec DEF Playbacks
<1> HIDE DEF r2
<1>10. /\ u.playback = e.playback /\ u.drain = e.drain /\ u.polls = e.polls
       /\ u.transport = e.transport /\ u.suspended = e.suspended
       /\ u.buffering = e.buffering /\ u.source = e.source /\ u.stream = e.stream
       /\ u.fadeState = IF e.playback = "stopped" THEN e.fadeState ELSE "idle"
  BY <1>3, <1>4 DEF Keeps, Fields, FadeFields
<1>f. SameFade(e, u) /\ ~HasPendingFade(u)
  BY <1>t, <1>10 DEF SameFade, HasPendingFade, FadeOk
<1>11. Continues(e, r1) /\ r1.drain = e.drain /\ r1.suspended = e.suspended
  <2>1. /\ r1.playback = u.playback /\ r1.drain = u.drain /\ r1.polls = u.polls
        /\ r1.transport = u.transport /\ r1.suspended = u.suspended
        /\ r1.buffering = u.buffering /\ r1.source = u.source /\ r1.stream = u.stream
        /\ r1.fadeState = u.fadeState /\ o.pipe = u.pipe
    BY <1>5, <1>6 DEF Keeps, Fields
  <2>2. ~HasPendingFade(r1) /\ SameFade(e, r1)
    BY <1>f, <2>1 DEF HasPendingFade, SameFade
  <2>3. DrainOk(r1) /\ BufferOk(r1) /\ FadeOk(r1) /\ SuspendOk(r1)
    BY <1>t, <1>10, <2>1, <2>2 DEF DrainOk, BufferOk, FadeOk, SuspendOk
  <2>4. PipeOk(r1)
    BY <1>4, <1>6, <1>10, <2>1 DEF PipeOk
  <2> QED
    BY <1>6, <1>10, <2>1, <2>2, <2>3, <2>4 DEF Sound, Continues, PausedForOutput
<1>12. /\ f.playback = e.playback /\ ~f.buffering /\ ~f.output /\ f.suspended = e.suspended
       /\ f.fadeState = u.fadeState
  BY <1>4, <1>7, <1>8, <1>10 DEF Keeps, Fields
<1>13. CASE e.playback = "stopped"
  <2>1. Continues(e, f) /\ f.drain = 0 /\ f.suspended = e.suspended
    <3>1. ~HasPendingFade(f) /\ SameFade(e, f)
      BY <1>f, <1>12 DEF HasPendingFade, SameFade
    <3>2. Sound(f)
      BY <1>8, <1>12, <1>13, <3>1
         DEF Sound, DrainOk, PipeOk, BufferOk, FadeOk, SuspendOk
    <3> QED BY <1>8, <1>12, <1>13, <3>1, <3>2 DEF Continues, PausedForOutput
  <2> QED BY <1>1, <1>11, <1>13, <2>1 DEF r
<1>14. CASE e.playback # "stopped"
  <2>1. Continues(e, r2) /\ r2.drain = 0 /\ r2.suspended = e.suspended
    <3>1. /\ ~r2.buffering /\ ~r2.output /\ r2.suspended = e.suspended
          /\ r2.fadeState = u.fadeState /\ r2.drain = 0 /\ r2.pipe = "paused"
      BY <1>8, <1>9, <1>12 DEF Keeps, Fields
    <3>2. ~HasPendingFade(r2) /\ SameFade(e, r2)
      BY <1>f, <3>1 DEF HasPendingFade, SameFade
    <3>3. Sound(r2)
      BY <1>9, <3>1, <3>2 DEF Sound, DrainOk, PipeOk, BufferOk, FadeOk, SuspendOk
    <3>4. PausedForOutput(e, r2)
      BY <1>t, <3>1 DEF PausedForOutput, SuspendOk
    <3> QED BY <1>9, <3>1, <3>2, <3>3, <3>4 DEF Continues
  <2> QED BY <1>1, <1>11, <1>14, <2>1 DEF r
<1> QED BY <1>13, <1>14

\* play(), from a state in which no pause drains.
LEMMA PlayFromSpec ==
    ASSUME NEW e, Sound(e), e.drain = 0, fading \in Fadings, NEW env \in Environments
    PROVE  Continues(e, PlayFrom(e, env))
<1> DEFINE f == IF FadingTransport(e) THEN [e EXCEPT !.transport = 0] ELSE e
           reload == f.suspended \/ (~HasStream(f) /\ f.playback = "stopped")
           l == IF reload THEN Load(f, f.source, FALSE, env) ELSE f
           d == IF HasStream(l) /\ ~l.output THEN Reinit(l, env.device) ELSE l
           r == PlayFrom(e, env)
<1>1. r = IF HasStream(d) /\ d.output THEN PlayLoaded(d) ELSE d
  BY DEF PlayFrom
<1> HIDE DEF r
<1>e. env.device \in BOOLEAN
  BY DEF Environments
<1>2. Sound(f) /\ f.drain = 0 /\ f.playback = e.playback /\ f.fadeState = e.fadeState
  <2>1. CASE f = e
    BY <2>1
  <2>2. CASE f = [e EXCEPT !.transport = 0]
    <3> DEFINE g == [e EXCEPT !.transport = 0]
    <3>1. Typed(g) /\ Keeps(e, g, {"transport"})
      BY ZeroId DEF Sound, Typed, Fields, Keeps
    <3>3. f = g
      BY <2>2
    <3> HIDE DEF g, f
    <3>2. /\ g.drain = e.drain /\ g.playback = e.playback /\ g.fadeState = e.fadeState
          /\ g.pipe = e.pipe /\ g.output = e.output /\ g.buffering = e.buffering
          /\ g.source = e.source /\ g.stream = e.stream /\ g.suspended = e.suspended
      BY <3>1 DEF Keeps, Fields
    <3> QED
      BY <3>1, <3>2, <3>3
         DEF Sound, DrainOk, PipeOk, BufferOk, FadeOk, SuspendOk, HasPendingFade
  <2> QED BY <2>1, <2>2
<1> HIDE DEF f
<1>3. Sound(l) /\ SameFade(f, l) /\ l.playback = f.playback /\ l.drain = 0
      /\ (l.playback = "playing" => ~l.suspended) /\ ~(reload /\ f.playback = "playing")
      /\ ~l.suspended
  <2>1. CASE ~reload
    BY <1>2, <2>1 DEF SameFade, Sound, SuspendOk
  <2>2. CASE reload
    <3>1. f.source \in Sources /\ f.playback # "playing"
      BY <1>2, <2>2 DEF Sound, Typed, SuspendOk
    <3> DEFINE x == Load(f, f.source, FALSE, env)
    <3>2. Loaded(f, x)
      BY <1>2, <3>1, LoadSpec
    <3>3. l = x
      BY <2>2
    <3> HIDE DEF x, l
    <3>4. Sound(x)
      BY <1>2, <3>1, <3>2, LoadedIsSound DEF Loaded
    <3> QED BY <3>1, <3>2, <3>3, <3>4 DEF Loaded
  <2> QED BY <2>1, <2>2
<1> HIDE DEF l, reload
<1>4. Continues(l, d) /\ d.drain = 0 /\ (HasStream(d) /\ d.output => ~d.suspended)
  <2>1. CASE d = l
    BY <1>3, <2>1 DEF Continues, SameFade, PausedForOutput
  <2>2. CASE d = Reinit(l, env.device)
    <3> DEFINE x == Reinit(l, env.device)
    <3>1. Continues(l, x) /\ x.drain \in {l.drain, 0} /\ x.suspended = l.suspended
      BY <1>3, <1>e, ReinitSpec
    <3>3. d = x
      BY <2>2
    <3> HIDE DEF x, d
    <3> QED BY <1>3, <3>1, <3>3
  <2> QED BY <2>1, <2>2
<1> HIDE DEF d
<1>5. CASE HasStream(d) /\ d.output
  <2>1. Typed(d) /\ BufferOk(d) /\ ~d.suspended /\ d.drain = 0
    BY <1>4, <1>5 DEF Continues, Sound
  <2> DEFINE x == PlayLoaded(d)
  <2>2. Sound(x) /\ SameFade(d, x) /\ x.playback = "playing"
    BY <2>1, PlayLoadedSpec
  <2>3. r = x
    BY <1>1, <1>5
  <2> HIDE DEF x
  <2>4. Continues(e, x)
    BY <1>2, <1>3, <1>4, <2>2 DEF Continues, SameFade, PausedForOutput
  <2> QED BY <2>3, <2>4 DEF r
<1>6. CASE ~(HasStream(d) /\ d.output)
  <2>1. r = d
    BY <1>1, <1>6
  <2>2. Continues(e, d)
    BY <1>2, <1>3, <1>4 DEF Continues, SameFade, PausedForOutput
  <2> QED BY <2>1, <2>2 DEF r
<1> QED BY <1>5, <1>6

-----------------------------------------------------------------------------
(***************************************************************************)
(* The actions: each leaves a sound state, and pauses or stops only what it   *)
(* may.                                                                     *)
(***************************************************************************)
Allowed ==
    /\ s.playback = "playing" /\ s'.playback = "paused"
          => "pause" \in asked' \/ (~s'.output /\ ~s'.suspended)
    /\ s.playback # "stopped" /\ s'.playback = "stopped"
          => "stop" \in asked' \/ s.status = "end"

\* What every action needs of the invariant.
LEMMA IInvFacts ==
    ASSUME IInv
    PROVE  /\ Typed(s) /\ Sound(s) /\ DrainOk(s) /\ PipeOk(s) /\ BufferOk(s) /\ FadeOk(s)
           /\ SuspendOk(s)
           /\ fading \in Settings /\ fading \in Fadings
BY TransportAssumption DEF IInv, Sound

\* A step that keeps the fade, or gives it up, needs nothing more to be asked for.
LEMMA SameFadeAsked ==
    ASSUME IInv, Sound(s'), SameFade(s, s'), UNCHANGED fading,
           UNCHANGED asked \/ TakeBack
    PROVE  IInv'
<1>1. /\ s'.fadeState = "toPause" => s.fadeState = "toPause" /\ asked' = asked
      /\ s'.fadeState = "toStop" => s.fadeState = "toStop" /\ asked' = asked
  BY DEF SameFade, TakeBack, HasPendingFade
<1>2. asked' = asked \/ asked' = {}
  BY DEF TakeBack
<1>3. fading' \in Settings /\ asked' \subseteq {"pause", "stop"}
  BY <1>2 DEF IInv
<1>4. FadeAsked'
  BY <1>1 DEF IInv, FadeAsked
<1> QED BY <1>3, <1>4 DEF IInv

\* A new record with the same playback, drain, pipeline, buffering and fade.
LEMMA QuietIsSound ==
    ASSUME NEW e, Sound(e), NEW r, Typed(r), NEW X, Keeps(e, r, X),
           X \subseteq {"status", "endTimer", "events", "lastId", "phase", "fadeOnNext",
                        "resume", "forId", "token", "gain", "gainToken"}
    PROVE  Sound(r) /\ SameFade(e, r) /\ r.playback = e.playback
<1>1. /\ r.playback = e.playback /\ r.drain = e.drain /\ r.polls = e.polls
      /\ r.transport = e.transport /\ r.suspended = e.suspended /\ r.buffering = e.buffering
      /\ r.source = e.source /\ r.stream = e.stream /\ r.fadeState = e.fadeState
      /\ r.pipe = e.pipe /\ r.output = e.output
  BY DEF Keeps, Fields
<1> QED
  BY <1>1 DEF Sound, DrainOk, PipeOk, BufferOk, FadeOk, SuspendOk, HasPendingFade, SameFade

\* play() of the engine.
LEMMA PlayStep == ASSUME IInv, Play PROVE IInv' /\ Allowed
<1>1. Sound(s) /\ fading \in Fadings
  BY IInvFacts
<1>2. TakeBack /\ UNCHANGED fading
  BY DEF Play
<1>3. Continues(s, s') \/ (Sound(s') /\ SameFade(s, s') /\ s'.playback = "playing")
  <2>1. CASE s.drain # 0
    <3>1. s' = CancelDrain(s)
      BY <2>1 DEF Play
    <3>2. /\ Sound(CancelDrain(s)) /\ CancelDrain(s).fadeState = "idle"
          /\ CancelDrain(s).playback = "playing"
      BY <1>1, <2>1, CancelDrainSpec
    <3> QED BY <3>1, <3>2 DEF SameFade
  <2>2. CASE s.drain = 0 /\ UNCHANGED s
    <3>1. Continues(s, s)
      BY <1>1 DEF Continues, SameFade, PausedForOutput
    <3> QED BY <2>2, <3>1
  <2>3. CASE s.drain = 0 /\ \E env \in Environments : s' = PlayFrom(s, env)
    <3>1. PICK env \in Environments : s' = PlayFrom(s, env)
      BY <2>3
    <3>2. Continues(s, PlayFrom(s, env))
      BY <1>1, <2>3, PlayFromSpec
    <3> QED BY <3>1, <3>2
  <2> QED BY <2>1, <2>2, <2>3 DEF Play
<1>4. Sound(s') /\ SameFade(s, s')
  BY <1>3 DEF Continues
<1>5. Allowed
  BY <1>3 DEF Allowed, Continues, PausedForOutput
<1> QED BY <1>2, <1>4, <1>5, SameFadeAsked

\* A new transition has the next id.
LEMMA BeginTransitionSpec ==
    ASSUME NEW e, Sound(e), e.drain = 0, e.lastId < MaxFades
    PROVE  /\ e.lastId + 1 \in Ids /\ Sound(BeginTransition(e))
           /\ Keeps(e, BeginTransition(e), {"lastId", "transport"})
<1> DEFINE r == BeginTransition(e)
<1>1. e.lastId + 1 \in Ids
  BY TransportAssumption DEF Sound, Typed, Ids
<1>2. Typed(r) /\ Keeps(e, r, {"lastId", "transport"})
  BY <1>1 DEF Sound, Typed, Fields, Keeps, BeginTransition
<1> HIDE DEF r
<1>3. /\ r.playback = e.playback /\ r.drain = e.drain
      /\ r.suspended = e.suspended /\ r.buffering = e.buffering
      /\ r.source = e.source /\ r.stream = e.stream /\ r.fadeState = e.fadeState
      /\ r.pipe = e.pipe /\ r.output = e.output
  BY <1>2 DEF Keeps, Fields
<1>4. Sound(r)
  BY <1>2, <1>3 DEF Sound, DrainOk, PipeOk, BufferOk, FadeOk, SuspendOk, HasPendingFade
<1> QED BY <1>1, <1>2, <1>4 DEF r

\* A fade out begins while the engine plays, or an earlier one goes on.
LEMMA BeginFadeSpec ==
    ASSUME NEW e, Sound(e), e.playback = "playing", NEW id \in Ids
    PROVE  /\ Sound(BeginPauseFade(e, id)) /\ BeginPauseFade(e, id).playback = "playing"
           /\ BeginPauseFade(e, id).fadeState \in {e.fadeState, "toPause"}
           /\ Sound(BeginStopFade(e, id)) /\ BeginStopFade(e, id).playback = "playing"
           /\ BeginStopFade(e, id).fadeState \in {e.fadeState, "toStop"}
<1>t. Typed(e)
  BY DEF Sound
<1> DEFINE x    == [e EXCEPT !.forId = id]
           y    == [e EXCEPT !.fadeState = "toStop", !.forId = id]
           z(t) == FadeOut([e EXCEPT !.fadeState = t, !.forId = id, !.token = id], id)
<1>1. /\ BeginPauseFade(e, id) \in {x, z("toPause")}
      /\ BeginStopFade(e, id) \in {y, z("toStop")}
  BY DEF BeginPauseFade, BeginStopFade
<1>2. Typed(x) /\ Keeps(e, x, FadeFields) /\ x.fadeState = e.fadeState
  BY <1>t DEF Typed, Fields, Keeps, FadeFields
<1>3. Typed(y) /\ Keeps(e, y, FadeFields) /\ y.fadeState = "toStop"
  BY <1>t DEF Typed, Fields, FadeStates, Keeps, FadeFields
<1>4. ASSUME NEW t \in {"toPause", "toStop"}
      PROVE  Typed(z(t)) /\ Keeps(e, z(t), FadeFields) /\ z(t).fadeState = t
  BY <1>t DEF Typed, Fields, FadeStates, Gains, FadeOut, Keeps, FadeFields
<1> HIDE DEF x, y, z
<1>5. ASSUME NEW r, Typed(r), Keeps(e, r, FadeFields)
      PROVE  Sound(r) /\ r.playback = "playing"
  <2>1. /\ r.playback = e.playback /\ r.drain = e.drain /\ r.polls = e.polls
        /\ r.transport = e.transport /\ r.suspended = e.suspended /\ r.buffering = e.buffering
        /\ r.source = e.source /\ r.stream = e.stream
        /\ r.pipe = e.pipe /\ r.output = e.output
    BY <1>5 DEF Keeps, Fields, FadeFields
  <2> QED BY <1>5, <2>1 DEF Sound, DrainOk, PipeOk, BufferOk, FadeOk, SuspendOk
<1>6. ASSUME NEW r \in {x, y, z("toPause"), z("toStop")}
      PROVE  Sound(r) /\ r.playback = "playing"
  BY <1>2, <1>3, <1>4, <1>5
<1> QED BY <1>1, <1>2, <1>3, <1>4, <1>6

\* The phase that a handler sets last.
LEMMA SetPhaseSpec ==
    ASSUME NEW e, Sound(e), NEW phase \in Phases
    PROVE  LET r == [e EXCEPT !.phase = phase]
           IN  Sound(r) /\ SameFade(e, r) /\ r.playback = e.playback
                 /\ r.fadeState = e.fadeState
<1> DEFINE r == [e EXCEPT !.phase = phase]
<1>1. Typed(r) /\ Keeps(e, r, {"phase"}) /\ r.fadeState = e.fadeState
  BY DEF Sound, Typed, Fields, Keeps
<1> HIDE DEF r
<1>2. Sound(r) /\ SameFade(e, r) /\ r.playback = e.playback
  BY <1>1, QuietIsSound
<1> QED BY <1>1, <1>2 DEF r

\* pause() of the engine.
LEMMA PauseStep == ASSUME IInv, Pause PROVE IInv' /\ Allowed
<1>1. /\ Sound(s) /\ s.playback = "playing" /\ s.drain = 0 /\ s.fadeState # "toPause"
      /\ asked' = asked \cup {"pause"} /\ fading' = fading
  BY IInvFacts DEF Pause
<1>2. Sound(s') /\ s'.fadeState \in {s.fadeState, "toPause", "idle"} /\ s'.playback # "stopped"
  <2>1. CASE Configured(fading)
    <3> DEFINE b == BeginTransition(s)
    <3>1. /\ s.lastId < MaxFades
          /\ s' = [BeginPauseFade(b, s.lastId + 1) EXCEPT !.phase = "fadingToPause"]
      BY <2>1 DEF Pause
    <3>2. /\ s.lastId + 1 \in Ids /\ Sound(b) /\ b.playback = "playing"
          /\ b.fadeState = s.fadeState
      BY <1>1, <3>1, BeginTransitionSpec DEF Keeps, Fields
    <3> HIDE DEF b
    <3>3. "fadingToPause" \in Phases
      BY DEF Phases
    <3> DEFINE w == BeginPauseFade(b, s.lastId + 1)
    <3>4. Sound(w) /\ w.playback = "playing" /\ w.fadeState \in {b.fadeState, "toPause"}
      BY <3>2, BeginFadeSpec
    <3>5. s' = [w EXCEPT !.phase = "fadingToPause"]
      BY <3>1
    <3> HIDE DEF w
    <3> QED BY <3>2, <3>3, <3>4, <3>5, SetPhaseSpec
  <2>2. CASE ~Configured(fading)
    <3> DEFINE c == ClearBuffering(s, FALSE)
    <3>1. s' = FinalisePaused(c)
      BY <2>2 DEF Pause
    <3>2. Typed(c) /\ ~c.buffering /\ c.drain = 0
      BY <1>1, ClearBufferingSpec DEF Sound, Keeps, Fields
    <3> HIDE DEF c
    <3>3. BufferOk(c)
      BY <3>2 DEF BufferOk
    <3>4. Sound(FinalisePaused(c)) /\ FinalisePaused(c).fadeState = "idle"
          /\ FinalisePaused(c).playback = "paused"
      BY <3>2, <3>3, FinalisePausedSpec
    <3> QED BY <3>1, <3>4
  <2> QED BY <2>1, <2>2
<1>3. FadeAsked' /\ fading' \in Settings /\ asked' \subseteq {"pause", "stop"}
  BY <1>1, <1>2 DEF IInv, FadeAsked
<1>4. Allowed
  BY <1>1, <1>2 DEF Allowed
<1> QED BY <1>2, <1>3, <1>4 DEF IInv

\* stop() of the engine.
LEMMA StopStep == ASSUME IInv, Stop PROVE IInv' /\ Allowed
<1> DEFINE e == [s EXCEPT !.drain = 0]
<1>1. /\ Sound(s) /\ asked' = asked \cup {"stop"} /\ fading' = fading
  BY IInvFacts DEF Stop
<1>2. Typed(e) /\ Keeps(s, e, {"drain"}) /\ e.drain = 0
  BY <1>1, ZeroId DEF Sound, Typed, Fields, Keeps
<1>3. \/ s' = StopImmediate(e)
      \/ s' = [e EXCEPT !.endTimer = TRUE]
      \/ s' = e
      \/ /\ e.playback = "playing" /\ e.lastId < MaxFades
         /\ s' = [BeginStopFade(BeginTransition(e), e.lastId + 1)
                      EXCEPT !.phase = "fadingToStop"]
  BY DEF Stop
<1> HIDE DEF e
<1>4. /\ e.playback = s.playback /\ e.polls = s.polls
      /\ e.transport = s.transport /\ e.suspended = s.suspended /\ e.buffering = s.buffering
      /\ e.source = s.source /\ e.stream = s.stream /\ e.fadeState = s.fadeState
      /\ e.pipe = s.pipe /\ e.output = s.output
  BY <1>2 DEF Keeps, Fields
<1>5. Sound(e)
  BY <1>1, <1>2, <1>4
     DEF Sound, DrainOk, PipeOk, BufferOk, FadeOk, SuspendOk, HasPendingFade
<1>6. Sound(s') /\ s'.fadeState \in {s.fadeState, "toStop", "idle"}
      /\ (s'.playback = "paused" => s.playback = "paused")
  <2>1. CASE s' = StopImmediate(e)
    <3>1. Sound(StopImmediate(e)) /\ StopImmediate(e).fadeState = "idle"
          /\ StopImmediate(e).playback = "stopped"
      BY <1>2, StopImmediateSpec
    <3> QED BY <2>1, <3>1
  <2>2. CASE s' = [e EXCEPT !.endTimer = TRUE]
    <3>1. Typed(s') /\ Keeps(e, s', {"endTimer"})
      BY <1>2, <2>2 DEF Typed, Fields, Keeps
    <3>2. Sound(s') /\ SameFade(e, s') /\ s'.playback = e.playback
      BY <1>5, <3>1, QuietIsSound
    <3> QED BY <1>4, <3>2 DEF SameFade
  <2>3. CASE s' = e
    BY <1>4, <1>5, <2>3
  <2>4. CASE /\ e.playback = "playing" /\ e.lastId < MaxFades
             /\ s' = [BeginStopFade(BeginTransition(e), e.lastId + 1)
                          EXCEPT !.phase = "fadingToStop"]
    <3> DEFINE b == BeginTransition(e)
    <3>2. /\ e.lastId + 1 \in Ids /\ Sound(b) /\ b.playback = "playing"
          /\ b.fadeState = e.fadeState
      BY <1>2, <1>5, <2>4, BeginTransitionSpec DEF Keeps, Fields
    <3>1. s' = [BeginStopFade(b, e.lastId + 1) EXCEPT !.phase = "fadingToStop"]
      BY <2>4
    <3> HIDE DEF b
    <3>3. "fadingToStop" \in Phases
      BY DEF Phases
    <3> DEFINE w == BeginStopFade(b, e.lastId + 1)
    <3>4. Sound(w) /\ w.playback = "playing" /\ w.fadeState \in {b.fadeState, "toStop"}
      BY <3>2, BeginFadeSpec
    <3>5. s' = [w EXCEPT !.phase = "fadingToStop"]
      BY <3>1
    <3> HIDE DEF w
    <3> QED BY <1>4, <3>2, <3>3, <3>4, <3>5, SetPhaseSpec
  <2> QED BY <1>3, <2>1, <2>2, <2>3, <2>4
<1>7. FadeAsked' /\ fading' \in Settings /\ asked' \subseteq {"pause", "stop"}
  BY <1>1, <1>6 DEF IInv, FadeAsked
<1>8. Allowed
  BY <1>1, <1>6 DEF Allowed
<1> QED BY <1>6, <1>7, <1>8 DEF IInv

\* A track is loaded.
LEMMA LoadTrackStep ==
    ASSUME IInv, NEW manual \in BOOLEAN, LoadTrack(manual) PROVE IInv' /\ Allowed
<1>1. Sound(s) /\ fading \in Fadings
  BY IInvFacts
<1>2. /\ fading' = fading
      /\ UNCHANGED asked \/ TakeBack
  BY DEF LoadTrack
<1>3. PICK source \in Sources, env \in Environments :
         s' = LET loaded == Load(s, source, manual, env)
              IN  IF loaded.status = "ok" /\ loaded.playback = "playing"
                  THEN PlayLoaded(loaded) ELSE loaded
  BY DEF LoadTrack
<1> DEFINE l == Load(s, source, manual, env)
<1>4. Loaded(s, l)
  BY <1>1, LoadSpec
<1>5. s' = IF l.status = "ok" /\ l.playback = "playing" THEN PlayLoaded(l) ELSE l
  BY <1>3
<1> HIDE DEF l
<1>6. Sound(s') /\ SameFade(s, s') /\ s'.playback = s.playback
  <2>1. CASE l.status = "ok" /\ l.playback = "playing"
    <3>1. Typed(l) /\ BufferOk(l) /\ ~l.suspended /\ l.drain = 0
      BY <1>4 DEF Loaded, BufferOk
    <3> DEFINE x == PlayLoaded(l)
    <3>2. Sound(x) /\ SameFade(l, x) /\ x.playback = "playing"
      BY <1>1, <3>1, PlayLoadedSpec
    <3>3. s' = x
      BY <1>5, <2>1
    <3> HIDE DEF x
    <3> QED BY <1>4, <2>1, <3>2, <3>3 DEF Loaded, SameFade
  <2>2. CASE ~(l.status = "ok" /\ l.playback = "playing")
    <3>1. Sound(l)
      BY <1>1, <1>4, <2>2, LoadedIsSound
    <3> QED BY <1>4, <1>5, <2>2, <3>1 DEF Loaded
  <2> QED BY <2>1, <2>2
<1>7. Allowed
  BY <1>6 DEF Allowed
<1> QED BY <1>2, <1>6, <1>7, SameFadeAsked

\* Another device is chosen.
LEMMA SetOutputDeviceStep ==
    ASSUME IInv, NEW device \in BOOLEAN, SetOutputDevice(device) PROVE IInv' /\ Allowed
<1> DEFINE c == IF s.playback = "playing" THEN CancelForReinit(s) ELSE s
           u == Uninit(c)
           o == OpenOutput(u)
           p == [o EXCEPT !.pipe = "running"]
<1>t. /\ Typed(s) /\ DrainOk(s) /\ PipeOk(s) /\ BufferOk(s) /\ FadeOk(s) /\ SuspendOk(s)
  BY IInvFacts
<1>1. /\ s' = IF ~device THEN u ELSE IF s.playback = "playing" THEN p ELSE o
      /\ UNCHANGED <<fading, asked>>
  BY DEF SetOutputDevice
<1>2. Typed(c) /\ Keeps(s, c, FadeFields) /\ SameFade(s, c)
  <2>1. /\ Typed(CancelForReinit(s)) /\ CancelForReinit(s).fadeState = "idle"
        /\ Keeps(s, CancelForReinit(s), FadeFields)
    BY <1>t, CancelForReinitSpec
  <2> QED BY <1>t, <2>1 DEF Keeps, SameFade
<1> HIDE DEF c
<1>3. /\ Typed(u) /\ Keeps(c, u, {"output", "pipe", "events"})
      /\ u.pipe = "stopped" /\ ~u.output
  BY <1>2, UninitSpec
<1> HIDE DEF u
<1>4. Typed(o) /\ o.output /\ Keeps(u, o, {"output", "events"})
  BY <1>3, OpenOutputSpec
<1> HIDE DEF o
<1>5. Typed(p) /\ Keeps(o, p, {"pipe"}) /\ p.pipe = "running"
  BY <1>4 DEF Typed, Fields, Pipes, Keeps
<1> HIDE DEF p
<1>6. \A r : Typed(r) /\ Keeps(s, r, FadeFields \cup {"output", "pipe", "events"})
             /\ SameFade(s, r) /\ PipeOk(r)
                => Sound(r) /\ r.playback = s.playback
  <2> SUFFICES ASSUME NEW r, Typed(r), SameFade(s, r), PipeOk(r),
                      Keeps(s, r, FadeFields \cup {"output", "pipe", "events"})
               PROVE  Sound(r) /\ r.playback = s.playback
    OBVIOUS
  <2>1. /\ r.playback = s.playback /\ r.drain = s.drain /\ r.polls = s.polls
        /\ r.transport = s.transport /\ r.suspended = s.suspended
        /\ r.buffering = s.buffering /\ r.source = s.source /\ r.stream = s.stream
    BY DEF Keeps, Fields, FadeFields
  <2> QED
    BY <1>t, <2>1
       DEF Sound, DrainOk, BufferOk, FadeOk, SuspendOk, HasPendingFade, SameFade
<1>7. /\ Keeps(s, u, FadeFields \cup {"output", "pipe", "events"}) /\ SameFade(s, u)
      /\ u.playback = s.playback
  BY <1>2, <1>3 DEF Keeps, Fields, FadeFields, SameFade
<1>8. /\ Keeps(s, o, FadeFields \cup {"output", "pipe", "events"}) /\ SameFade(s, o)
      /\ o.pipe = "stopped" /\ o.playback = s.playback
  BY <1>3, <1>4, <1>7 DEF Keeps, Fields, FadeFields, SameFade
<1>9. /\ Keeps(s, p, FadeFields \cup {"output", "pipe", "events"}) /\ SameFade(s, p)
      /\ p.playback = s.playback
  BY <1>5, <1>8 DEF Keeps, Fields, FadeFields, SameFade
<1>10. Sound(s') /\ SameFade(s, s') /\ s'.playback = s.playback
  <2>1. CASE s' = u
    <3>1. PipeOk(u)
      BY <1>3 DEF PipeOk
    <3> QED BY <1>3, <1>6, <1>7, <2>1, <3>1
  <2>2. CASE s.playback = "playing" /\ s' = p
    <3>1. PipeOk(p)
      BY <1>5, <1>9, <2>2 DEF PipeOk
    <3> QED BY <1>5, <1>6, <1>9, <2>2, <3>1
  <2>3. CASE s.playback # "playing" /\ s' = o
    <3>1. PipeOk(o)
      BY <1>8, <2>3 DEF PipeOk
    <3> QED BY <1>4, <1>6, <1>8, <2>3, <3>1
  <2> QED BY <1>1, <2>1, <2>2, <2>3
<1>11. Allowed
  BY <1>10 DEF Allowed
<1> QED BY <1>1, <1>10, <1>11, SameFadeAsked

\* The settings of the fades change.
LEMMA ChangeFadingStep == ASSUME IInv, ChangeFading PROVE IInv' /\ Allowed
BY DEF ChangeFading, IInv, FadeAsked, Allowed

\* The device is opened again.
LEMMA ReinitOutputStep ==
    ASSUME IInv, NEW device \in BOOLEAN, ReinitOutput(device) PROVE IInv' /\ Allowed
<1>1. Continues(s, Reinit(s, device))
  BY IInvFacts, ReinitSpec
<1>2. s' = Reinit(s, device) /\ UNCHANGED <<fading, asked>>
  BY DEF ReinitOutput
<1>3. Sound(s') /\ SameFade(s, s')
  BY <1>1, <1>2 DEF Continues
<1>4. Allowed
  BY <1>1, <1>2 DEF Allowed, Continues, PausedForOutput
<1> QED BY <1>2, <1>3, <1>4, SameFadeAsked

\* The event of a fade out ends the fade, and pauses or stops as was asked for.
LEMMA DeliverFadeStep == ASSUME IInv, DeliverFade PROVE IInv' /\ Allowed
<1> DEFINE e == [s EXCEPT !.events = Tail(@)]
           f == FadeCompleted(e)
<1>t. /\ Typed(s) /\ Sound(s) /\ DrainOk(s) /\ PipeOk(s) /\ BufferOk(s) /\ FadeOk(s)
      /\ SuspendOk(s)
  BY IInvFacts
<1>1. /\ \/ s' = e
         \/ s' = f
         \/ e.fadeState = "toStop" /\ s' = StopImmediate(f)
         \/ e.fadeState # "toStop" /\ HasPendingFade(e)
            /\ \E drained \in BOOLEAN : s' = BeginDrain(f, e.forId, drained)
      /\ UNCHANGED <<fading, asked>>
  BY DEF DeliverFade
<1>2. Typed(e) /\ Keeps(s, e, {"events"})
  <2>1. Tail(s.events) \in Seq(Ids)
    BY <1>t DEF DeliverFade, Typed
  <2> QED BY <1>t, <2>1 DEF Typed, Fields, Keeps
<1> HIDE DEF e
<1>3. Sound(e) /\ SameFade(s, e) /\ e.playback = s.playback
  BY <1>t, <1>2, QuietIsSound
<1>e. e.fadeState = s.fadeState /\ e.suspended = s.suspended
  BY <1>2 DEF Keeps, Fields
<1>4. Typed(f) /\ f.fadeState = "idle" /\ Keeps(e, f, FadeFields \cup {"fadeOnNext"})
  <2>1. Typed(f) /\ f.fadeState = "idle"
    BY <1>2, ZeroId DEF Typed, Fields, FadeStates, FadeCompleted
  <2>2. Keeps(e, f, FadeFields \cup {"fadeOnNext"})
    BY <1>2 DEF Typed, Fields, Keeps, FadeFields, FadeCompleted
  <2> QED BY <2>1, <2>2
<1> HIDE DEF f
<1>5. /\ f.playback = e.playback /\ f.drain = e.drain /\ f.polls = e.polls
      /\ f.transport = e.transport /\ f.suspended = e.suspended /\ f.buffering = e.buffering
      /\ f.source = e.source /\ f.stream = e.stream /\ f.pipe = e.pipe
      /\ f.output = e.output
  BY <1>4 DEF Keeps, Fields, FadeFields
<1>6. Sound(f) /\ SameFade(s, f) /\ ~HasPendingFade(f)
  BY <1>3, <1>4, <1>5
     DEF Sound, DrainOk, PipeOk, BufferOk, FadeOk, SuspendOk, HasPendingFade, SameFade
<1>7. CASE s' = e
  <2>1. Allowed
    BY <1>3, <1>7 DEF Allowed
  <2> QED BY <1>1, <1>3, <1>7, <2>1, SameFadeAsked
<1>8. CASE s' = f
  <2>1. Allowed
    BY <1>3, <1>5, <1>8 DEF Allowed
  <2> QED BY <1>1, <1>6, <1>8, <2>1, SameFadeAsked
<1>9. CASE e.fadeState = "toStop" /\ s' = StopImmediate(f)
  <2>1. /\ Sound(StopImmediate(f)) /\ StopImmediate(f).fadeState = "idle"
        /\ StopImmediate(f).playback = "stopped"
    BY <1>4, StopImmediateSpec
  <2>2. "stop" \in asked'
    BY <1>1, <1>9, <1>e DEF IInv, FadeAsked
  <2>3. Allowed
    BY <1>9, <2>1, <2>2 DEF Allowed
  <2>4. SameFade(s, s') /\ Sound(s')
    BY <1>9, <2>1 DEF SameFade
  <2> QED BY <1>1, <2>3, <2>4, SameFadeAsked
<1>10. CASE e.fadeState # "toStop" /\ HasPendingFade(e)
            /\ \E drained \in BOOLEAN : s' = BeginDrain(f, e.forId, drained)
  <2>1. PICK drained \in BOOLEAN : s' = BeginDrain(f, e.forId, drained)
    BY <1>10
  <2>2. e.forId \in Ids /\ ~f.suspended /\ BufferOk(f)
    BY <1>2, <1>3, <1>5, <1>6, <1>10 DEF Typed, Sound, FadeOk, SuspendOk
  <2> DEFINE r == BeginDrain(f, e.forId, drained)
  <2>3. Sound(r) /\ SameFade(f, r) /\ r.playback = "paused"
    BY <1>4, <1>6, <2>2, BeginDrainSpec
  <2>4. s' = r
    BY <2>1
  <2> HIDE DEF r
  <2>5. "pause" \in asked'
    BY <1>1, <1>10, <1>e DEF IInv, FadeAsked, HasPendingFade
  <2>6. Allowed
    BY <2>3, <2>4, <2>5 DEF Allowed
  <2>7. SameFade(s, s') /\ Sound(s')
    BY <1>4, <2>3, <2>4 DEF SameFade
  <2> QED BY <1>1, <2>6, <2>7, SameFadeAsked
<1> QED BY <1>1, <1>7, <1>8, <1>9, <1>10

\* A timer of a pause that drains: it looks again, or finishes the pause.
LEMMA PollDrainStep ==
    ASSUME IInv, NEW id \in Ids, NEW drained \in BOOLEAN, PollDrain(id, drained)
    PROVE  IInv' /\ Allowed
<1> DEFINE e == [s EXCEPT !.polls = @ \ {id}]
<1>t. /\ Typed(s) /\ DrainOk(s) /\ PipeOk(s) /\ BufferOk(s) /\ FadeOk(s) /\ SuspendOk(s)
  BY IInvFacts
<1>1. /\ s' = IF IsCurrentPoll(e, id) THEN CompletePause(e, drained) ELSE e
      /\ UNCHANGED <<fading, asked>>
  BY DEF PollDrain
<1>2. Typed(e) /\ Keeps(s, e, {"polls"}) /\ e.polls = s.polls \ {id}
  BY <1>t DEF Typed, Fields, Keeps
<1> HIDE DEF e
<1>3. /\ e.playback = s.playback /\ e.drain = s.drain
      /\ e.transport = s.transport /\ e.suspended = s.suspended /\ e.buffering = s.buffering
      /\ e.source = s.source /\ e.stream = s.stream /\ e.pipe = s.pipe
      /\ e.output = s.output /\ e.fadeState = s.fadeState
  BY <1>2 DEF Keeps, Fields
<1>4. BufferOk(e)
  BY <1>t, <1>3 DEF BufferOk
<1>5. CASE IsCurrentPoll(e, id)
  <2>1. e.playback = "paused" /\ ~e.suspended
    BY <1>t, <1>3, <1>5 DEF DrainOk, SuspendOk, IsCurrentPoll
  <2>2. e.pipe \notin {"running", "held"} /\ ~HasPendingFade(e)
    BY <1>t, <1>3, <2>1 DEF PipeOk, FadeOk, HasPendingFade
  <2> DEFINE r == CompletePause(e, drained)
  <2>3. Sound(r) /\ SameFade(e, r) /\ r.playback = "paused"
    BY <1>2, <1>4, <2>1, <2>2, CompletePauseSpec
  <2>4. s' = r
    BY <1>1, <1>5
  <2> HIDE DEF r
  <2>5. Sound(s') /\ SameFade(s, s')
    BY <1>3, <2>3, <2>4 DEF SameFade
  <2>6. Allowed
    BY <1>3, <2>1, <2>3, <2>4 DEF Allowed
  <2> QED BY <1>1, <2>5, <2>6, SameFadeAsked
<1>6. CASE ~IsCurrentPoll(e, id)
  <2>1. s' = e
    BY <1>1, <1>6
  <2>2. DrainOk(e)
    BY <1>t, <1>2, <1>3, <1>6 DEF DrainOk, IsCurrentPoll
  <2>3. Sound(e) /\ SameFade(s, e)
    BY <1>t, <1>2, <1>3, <1>4, <2>2
       DEF Sound, PipeOk, FadeOk, SuspendOk, HasPendingFade, SameFade
  <2>4. Allowed
    BY <1>3, <2>1 DEF Allowed
  <2> QED BY <1>1, <2>1, <2>3, <2>4, SameFadeAsked
<1> QED BY <1>5, <1>6

\* The timer that ends playback after the last track expires.
LEMMA EndTimerStep == ASSUME IInv, EndTimer PROVE IInv' /\ Allowed
<1> DEFINE e == [s EXCEPT !.endTimer = FALSE]
<1>1. /\ s' = IF s.status = "end" THEN StopImmediate(s) ELSE e
      /\ UNCHANGED <<fading, asked>>
  BY DEF EndTimer
<1>t. Typed(s) /\ Sound(s)
  BY IInvFacts
<1>2. CASE s.status = "end"
  <2>1. /\ Sound(StopImmediate(s)) /\ StopImmediate(s).fadeState = "idle"
        /\ StopImmediate(s).playback = "stopped"
    BY <1>t, StopImmediateSpec
  <2>2. Sound(s') /\ SameFade(s, s') /\ Allowed
    BY <1>1, <1>2, <2>1 DEF SameFade, Allowed
  <2> QED BY <1>1, <2>2, SameFadeAsked
<1>3. CASE s.status # "end"
  <2>1. Typed(e) /\ Keeps(s, e, {"endTimer"})
    BY <1>t DEF Typed, Fields, Keeps
  <2> HIDE DEF e
  <2>2. Sound(e) /\ SameFade(s, e) /\ e.playback = s.playback
    BY <1>t, <2>1, QuietIsSound
  <2>3. Sound(s') /\ SameFade(s, s') /\ Allowed
    BY <1>1, <1>3, <2>2 DEF Allowed
  <2> QED BY <1>1, <2>3, SameFadeAsked
<1> QED BY <1>2, <1>3

\* A tick of the decode timer.
LEMMA DecodeTickStep == ASSUME IInv, DecodeTick PROVE IInv' /\ Allowed
<1>1. s' = UpdateBuffering(s) /\ UNCHANGED <<fading, asked>>
  BY DEF DecodeTick
<1>2. /\ Sound(UpdateBuffering(s))
      /\ Keeps(s, UpdateBuffering(s), {"buffering", "pipe", "status"})
  BY IInvFacts, UpdateBufferingSpec
<1>3. Sound(s') /\ s'.playback = s.playback /\ s'.fadeState = s.fadeState
  BY <1>1, <1>2 DEF Keeps, Fields
<1>4. SameFade(s, s') /\ Allowed
  BY <1>3 DEF SameFade, Allowed
<1> QED BY <1>1, <1>3, <1>4, SameFadeAsked

\* The decoder reaches the end of the track.
LEMMA TrackEndsStep == ASSUME IInv, TrackEnds PROVE IInv' /\ Allowed
<1>1. s' = [s EXCEPT !.status = "end"] /\ UNCHANGED <<fading, asked>>
  BY DEF TrackEnds
<1>t. Typed(s) /\ Sound(s)
  BY IInvFacts
<1>2. Typed(s') /\ Keeps(s, s', {"status"})
  BY <1>1, <1>t DEF Typed, Fields, Statuses, Keeps
<1>3. Sound(s') /\ SameFade(s, s') /\ s'.playback = s.playback
  BY <1>t, <1>2, QuietIsSound
<1>4. Allowed
  BY <1>3 DEF Allowed
<1> QED BY <1>1, <1>3, <1>4, SameFadeAsked

\* The audio thread changes the gain, and may leave an event.
LEMMA FadeEndsStep == ASSUME IInv, FadeEnds PROVE IInv' /\ Allowed
<1> DEFINE g == Faded(s)
           q == QueueFade(g)
<1>1. (s' = g \/ s' = q) /\ UNCHANGED <<fading, asked>>
  BY DEF FadeEnds
<1>t. Typed(s) /\ Sound(s)
  BY IInvFacts
<1>2. Typed(g) /\ Keeps(s, g, {"gain"})
  BY <1>t DEF Typed, Fields, Gains, Keeps, Faded
<1> HIDE DEF g
<1>3. Sound(g) /\ SameFade(s, g) /\ g.playback = s.playback
  BY <1>t, <1>2, QuietIsSound
<1>4. Typed(q) /\ Keeps(g, q, {"events"})
  <2>1. Append(g.events, g.gainToken) \in Seq(Ids)
    BY <1>2 DEF Typed
  <2> QED BY <1>2, <2>1 DEF Typed, Fields, Keeps, QueueFade
<1> HIDE DEF q
<1>5. Sound(q) /\ SameFade(g, q) /\ q.playback = g.playback
  BY <1>3, <1>4, QuietIsSound
<1>6. Sound(s') /\ SameFade(s, s') /\ s'.playback = s.playback
  BY <1>1, <1>3, <1>5 DEF SameFade
<1>7. Allowed
  BY <1>6 DEF Allowed
<1> QED BY <1>1, <1>6, <1>7, SameFadeAsked

\* The stream runs low, or full again.
LEMMA StreamChangesStep == ASSUME IInv, StreamChanges PROVE IInv' /\ Allowed
<1>t. /\ Typed(s) /\ DrainOk(s) /\ PipeOk(s) /\ BufferOk(s) /\ FadeOk(s) /\ SuspendOk(s)
  BY IInvFacts
<1>1. PICK x \in {"dry", "fed", "ended"} : s' = [s EXCEPT !.stream = x]
  BY DEF StreamChanges
<1>2. UNCHANGED <<fading, asked>>
  BY DEF StreamChanges
<1>3. Typed(s') /\ Keeps(s, s', {"stream"}) /\ s'.stream # "none"
  BY <1>1, <1>t DEF Typed, Fields, Streams, Keeps
<1>4. /\ s'.playback = s.playback /\ s'.drain = s.drain /\ s'.polls = s.polls
      /\ s'.transport = s.transport /\ s'.suspended = s.suspended
      /\ s'.buffering = s.buffering /\ s'.source = s.source
      /\ s'.pipe = s.pipe /\ s'.output = s.output /\ s'.fadeState = s.fadeState
  BY <1>3 DEF Keeps, Fields
<1>5. Sound(s') /\ SameFade(s, s')
  BY <1>t, <1>3, <1>4
     DEF Sound, DrainOk, PipeOk, BufferOk, FadeOk, SuspendOk, HasPendingFade, SameFade
<1>6. Allowed
  BY <1>4 DEF Allowed
<1> QED BY <1>2, <1>5, <1>6, SameFadeAsked

-----------------------------------------------------------------------------
\* The engine starts with the invariant.
LEMMA InitHolds == Init => IInv
<1> SUFFICES ASSUME Init PROVE IInv
  OBVIOUS
<1>1. PICK source \in Sources : s = With(Fresh(source), NoFade)
  BY DEF Init
<1>2. /\ DOMAIN s = Fields
      /\ \A x \in Fields : s[x] = IF x \in DOMAIN Fresh(source) THEN Fresh(source)[x]
                                  ELSE NoFade[x]
  BY <1>1, ZenonT(30) DEF With, Fresh, NoFade, Fields
<1>3. DOMAIN Fresh(source) =
         Fields \ {"fadeState", "fadeOnNext", "resume", "forId", "token", "gain", "gainToken"}
  BY DEF Fresh, Fields
<1>4. /\ s.playback = "stopped" /\ s.phase = "loading" /\ s.status = "ok"
      /\ s.transport = 0 /\ s.lastId = 0 /\ s.drain = 0 /\ s.polls = {}
      /\ s.endTimer = FALSE /\ s.source = source /\ s.stream = "fed"
      /\ s.buffering = FALSE /\ s.suspended = FALSE /\ s.output = TRUE
      /\ s.pipe = "stopped" /\ s.events = <<>>
  BY <1>2, <1>3 DEF Fresh, Fields
<1>5. /\ s.fadeState = "idle" /\ s.fadeOnNext = FALSE /\ s.resume = FALSE /\ s.forId = 0
      /\ s.token = 0 /\ s.gain = "full" /\ s.gainToken = 0
  BY <1>2, <1>3 DEF NoFade, Fields
<1>6. Typed(s)
  BY <1>2, <1>4, <1>5, ZeroId, NoEvents
     DEF Typed, Playbacks, Phases, Statuses, Streams, Pipes, FadeStates, Gains
<1>7. Sound(s)
  BY <1>4, <1>5, <1>6 DEF Sound, DrainOk, PipeOk, BufferOk, FadeOk, SuspendOk, HasPendingFade
<1> QED BY <1>5, <1>7 DEF Init, IInv, FadeAsked

\* Every action keeps the invariant.
LEMMA NextKeepsIInv == IInv /\ Next => IInv' /\ Allowed
<1> SUFFICES ASSUME IInv, Next PROVE IInv' /\ Allowed
  OBVIOUS
<1>1. CASE Play \/ Pause \/ Stop \/ ChangeFading
  BY <1>1, PlayStep, PauseStep, StopStep, ChangeFadingStep
<1>2. ASSUME NEW b \in BOOLEAN, LoadTrack(b) \/ SetOutputDevice(b) \/ ReinitOutput(b)
      PROVE  IInv' /\ Allowed
  BY <1>2, LoadTrackStep, SetOutputDeviceStep, ReinitOutputStep
<1>3. CASE DeliverFade \/ EndTimer \/ DecodeTick \/ TrackEnds
  BY <1>3, DeliverFadeStep, EndTimerStep, DecodeTickStep, TrackEndsStep
<1>4. ASSUME NEW id \in Ids, NEW drained \in BOOLEAN, PollDrain(id, drained)
      PROVE  IInv' /\ Allowed
  BY <1>4, PollDrainStep
<1>5. CASE FadeEnds \/ StreamChanges
  BY <1>5, FadeEndsStep, StreamChangesStep
<1> QED BY <1>1, <1>2, <1>3, <1>4, <1>5 DEF Next

\* What the engine reports, what the pipeline does and what a fade is for fit
\* together after every command, event and timer.
THEOREM InductiveInvariant == Spec => []IInv
<1>1. Init => IInv
  BY InitHolds
<1>2. IInv /\ [Next]_vars => IInv'
  <2>1. IInv /\ UNCHANGED vars => IInv'
    BY DEF IInv, FadeAsked, vars
  <2> QED BY <2>1, NextKeepsIInv
<1> QED BY <1>1, <1>2, PTL DEF Spec

(***************************************************************************)
(* Every field of the engine, the pipeline and the fades keeps its type.      *)
(***************************************************************************)
THEOREM TypeCorrect == Spec => []TypeOK
<1>1. IInv => TypeOK
  BY TypesAgree DEF IInv, Sound
<1> QED BY <1>1, InductiveInvariant, PTL

(***************************************************************************)
(* No pause is left half done: one that waits for the output has a timer that  *)
(* looks again, and is the pause of the last command.                        *)
(***************************************************************************)
THEOREM PausesArePolled == Spec => []DrainIsPolled
<1>1. IInv => DrainIsPolled
  BY DEF IInv, Sound, DrainOk, DrainIsPolled
<1> QED BY <1>1, InductiveInvariant, PTL

(***************************************************************************)
(* What the engine reports and what the pipeline does go together.           *)
(***************************************************************************)
THEOREM EngineAndPipeAgree == Spec => []PipeFollowsEngine
<1>1. IInv => PipeFollowsEngine
  BY DEF IInv, Sound, PipeOk, PipeFollowsEngine
<1> QED BY <1>1, InductiveInvariant, PTL

(***************************************************************************)
(* No fade and no timer pauses or stops what the user wants to hear.          *)
(***************************************************************************)
THEOREM NothingUnasked == Spec => OnlyAskedFor
<1>1. IInv /\ [Next]_vars => [Allowed]_vars
  BY NextKeepsIInv
<1>2. Spec => [][Allowed]_vars
  BY <1>1, InductiveInvariant, PTL DEF Spec
<1> QED BY <1>2 DEF OnlyAskedFor, Allowed
=============================================================================
