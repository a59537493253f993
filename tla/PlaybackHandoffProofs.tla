----------------------- MODULE PlaybackHandoffProofs -----------------------
(***************************************************************************)
(* Proofs about PlaybackHandoff, for any playlist, scenario and bound.         *)
(* Each operator on the record of a thread has a lemma that says what it       *)
(* keeps and what it leaves; a call or a signal is a composition of them.      *)
(***************************************************************************)
EXTENDS PlaybackHandoff, FiniteSetTheorems, WellFoundedInduction, TLAPS

EngineFields ==
    {"playback", "status", "current", "gen", "stream", "candidate", "prepared", "job",
     "armed", "auto", "gapless", "live", "mode", "requested", "anchor", "waiting", "latched",
     "ended", "timers", "pool", "out"}

\* A signal that the handler knows.
SignalOk(s) ==
    \/ s.signal \in {"boundary", "committed", "unready"}
    \/ s.signal = "status" /\ s.status \in {"none", "end", "invalid", "loading"}
    \/ s.signal = "state" /\ s.play \in {"stopped", "paused", "playing"}

IsSeq(s) == \E S : s \in Seq(S)

SignalsOk(out) == IsSeq(out) /\ \A k \in 1 .. Len(out) : SignalOk(out[k])

\* The fields of the engine's record, as far as they matter here.
Shape(e) ==
    /\ DOMAIN e = EngineFields
    /\ DOMAIN e.armed = {"track", "item", "gen", "adopted"}
    /\ SignalsOk(e.out)

(***************************************************************************)
(* What is attached is what has been prepared, or has taken over; no          *)
(* preparation runs meanwhile, and what a running one is to replace is given   *)
(* up when it starts, so that its result cannot part the two.                 *)
(***************************************************************************)
Held(e) ==
    /\ e.armed.track # 0 => e.job.track = 0
    /\ (e.armed.track # 0 /\ ~e.armed.adopted) => Same(e.prepared, e.armed)
    /\ e.job.track # 0 => e.prepared = NoPrepared

\* r differs from e in the fields X at most.
Keeps(e, r, X) ==
    /\ Shape(r)
    /\ \A f \in EngineFields \ X : r[f] = e[f]

Advance == {"mode", "requested", "anchor", "waiting"}

-----------------------------------------------------------------------------
(* The steps that a handler of the engine is made of.                       *)

\* A sequence that grows at its end.
LEMMA AppendSeq ==
    ASSUME NEW s, NEW x, IsSeq(s)
    PROVE  /\ IsSeq(Append(s, x))
           /\ Len(Append(s, x)) = Len(s) + 1 /\ Len(s) \in Nat
           /\ \A k \in 1 .. Len(s) : Append(s, x)[k] = s[k]
           /\ Append(s, x)[Len(s) + 1] = x
<1>1. PICK S : s \in Seq(S)
  BY DEF IsSeq
<1>2. s \in Seq(S \cup {x})
  BY <1>1
<1>3. Append(s, x) \in Seq(S \cup {x})
  BY <1>2
<1> QED
  BY <1>2, <1>3 DEF IsSeq

\* A sequence that loses its first element.
LEMMA TailSeq ==
    ASSUME NEW s, IsSeq(s), s # <<>>
    PROVE  /\ IsSeq(Tail(s))
           /\ Len(Tail(s)) = Len(s) - 1 /\ Len(s) \in Nat \ {0}
           /\ Head(s) = s[1]
           /\ \A k \in 1 .. Len(s) - 1 : Tail(s)[k] = s[k + 1]
<1>1. PICK S : s \in Seq(S)
  BY DEF IsSeq
<1>2. Tail(s) \in Seq(S)
  BY <1>1
<1> QED
  BY <1>1, <1>2 DEF IsSeq

\* A signal is added to those on their way.
LEMMA EmitKeeps ==
    ASSUME NEW e, NEW signal, Shape(e), SignalOk(signal)
    PROVE  Keeps(e, Emit(e, signal), {"out"})
<1>1. SignalsOk(Append(e.out, signal))
  <2>1. IsSeq(e.out) /\ \A k \in 1 .. Len(e.out) : SignalOk(e.out[k])
    BY DEF Shape, SignalsOk
  <2> QED
    BY <2>1, AppendSeq DEF SignalsOk
<1> QED
  BY <1>1 DEF Emit, Keeps, Shape, EngineFields

\* The playback state changes, and is signalled.
LEMMA SetPlaybackKeeps ==
    ASSUME NEW e, NEW p, Shape(e), p \in {"stopped", "paused", "playing"}
    PROVE  Keeps(e, SetPlayback(e, p), {"out", "playback"})
<1> DEFINE c      == [e EXCEPT !.playback = p]
           signal == [signal |-> "state", play |-> p]
<1>1. Keeps(e, c, {"playback"})
  BY DEF Keeps, Shape, EngineFields
<1>2. SignalOk(signal)
  BY DEF SignalOk
<1>3. SetPlayback(e, p) \in {e, Emit(c, signal)}
  BY DEF SetPlayback
<1> HIDE DEF c, signal
<1>4. Keeps(c, Emit(c, signal), {"out"})
  BY <1>1, <1>2, EmitKeeps DEF Keeps
<1> QED
  BY <1>1, <1>3, <1>4 DEF Keeps

\* The status changes, and is signalled.
LEMMA SetStatusKeeps ==
    ASSUME NEW e, NEW status, Shape(e), status \in {"none", "end", "invalid"}
    PROVE  Keeps(e, SetStatus(e, status), {"out", "status"})
<1> DEFINE c      == [e EXCEPT !.status = status]
           signal == [signal |-> "status", status |-> status, track |-> e.current.track,
                      gen |-> e.gen]
<1>1. Keeps(e, c, {"status"})
  BY DEF Keeps, Shape, EngineFields
<1>2. SignalOk(signal)
  BY DEF SignalOk
<1>3. SetStatus(e, status) \in {e, Emit(c, signal)}
  BY DEF SetStatus
<1> HIDE DEF c, signal
<1>4. Keeps(c, Emit(c, signal), {"out"})
  BY <1>1, <1>2, EmitKeeps DEF Keeps
<1> QED
  BY <1>1, <1>3, <1>4 DEF Keeps

\* What is known of an automatic change is forgotten.
LEMMA ClearAdvanceKeeps ==
    ASSUME NEW e, Shape(e)
    PROVE  /\ Keeps(e, ClearAdvance(e), Advance)
           /\ ClearAdvance(e).mode = FALSE
BY DEF ClearAdvance, Advance, Keeps, Shape, EngineFields

\* What is known of the end of the track is forgotten.
LEMMA ClearEndingKeeps ==
    ASSUME NEW e, Shape(e)
    PROVE  /\ Keeps(e, ClearEnding(e), {"live", "latched", "ended"})
           /\ ClearEnding(e).live = FALSE
BY DEF ClearEnding, Keeps, Shape, EngineFields

\* What is prepared goes, with what is attached.
LEMMA ClearPreparedKeeps ==
    ASSUME NEW e, Shape(e)
    PROVE  /\ Keeps(e, ClearPrepared(e), {"prepared", "armed"})
           /\ ClearPrepared(e).prepared = NoPrepared
           /\ ClearPrepared(e).armed = NoGapless
BY DEF ClearPrepared, NoGapless, Keeps, Shape, EngineFields

\* A preparation that runs is given up.
LEMMA CancelJobsKeeps ==
    ASSUME NEW e, Shape(e)
    PROVE  /\ Keeps(e, CancelJobs(e), {"job"})
           /\ CancelJobs(e).job = NoTrack
BY DEF CancelJobs, Keeps, Shape, EngineFields

\* What is attached goes, with what was prepared for it.
LEMMA DisarmKeeps ==
    ASSUME NEW e, Shape(e)
    PROVE  /\ Keeps(e, Disarm(e), {"prepared", "armed"})
           /\ Disarm(e).armed.track = 0
           /\ Disarm(e).prepared \in {e.prepared, NoPrepared}
BY DEF Disarm, NoGapless, Keeps, Shape, EngineFields

\* What is attached to another track, or is another track, goes.
LEMMA DisarmStaleKeeps ==
    ASSUME NEW e, NEW track, Shape(e)
    PROVE  /\ Keeps(e, DisarmStale(e, track), {"prepared", "armed"})
           /\ \/ DisarmStale(e, track) = e
              \/ /\ DisarmStale(e, track).armed.track = 0
                 /\ DisarmStale(e, track).prepared \in {e.prepared, NoPrepared}
<1>1. CASE DisarmStale(e, track) = e
  BY <1>1 DEF Keeps
<1>2. CASE DisarmStale(e, track) = Disarm(e)
  BY <1>2, DisarmKeeps
<1> QED
  BY <1>1, <1>2 DEF DisarmStale

\* Another track is the current one.
LEMMA SetContextKeeps ==
    ASSUME NEW e, NEW item, Shape(e)
    PROVE  /\ Keeps(e, SetContext(e, item), {"current", "gen", "pool"} \cup Advance)
           /\ SetContext(e, item).mode = FALSE
<1> DEFINE gen == Min(e.pool)
           c   == [e EXCEPT !.current = Plain(item), !.gen = gen, !.pool = @ \ {gen}]
<1>1. Keeps(e, c, {"current", "gen", "pool"})
  BY DEF Keeps, Shape, EngineFields
<1>2. SetContext(e, item) = ClearAdvance(c)
  BY DEF SetContext
<1>3. Shape(c)
  BY <1>1 DEF Keeps
<1> HIDE DEF c
<1> QED
  BY <1>1, <1>2, <1>3, ClearAdvanceKeeps DEF Keeps

\* A change of track is announced.
LEMMA CommittedKeeps ==
    ASSUME NEW e, Shape(e)
    PROVE  /\ Keeps(e, Committed(e), {"candidate", "out"} \cup Advance)
           /\ Committed(e).candidate \in {e.candidate, NoTrack}
           /\ Committed(e).mode = FALSE
<1> DEFINE c == [e EXCEPT !.candidate = IF Same(@, e.current) THEN NoTrack ELSE @]
           signal == [signal |-> "committed", track |-> e.current.track,
                      item |-> e.current.item, gen |-> e.gen]
<1>1. Keeps(e, c, {"candidate"}) /\ c.candidate \in {e.candidate, NoTrack}
  BY DEF Keeps, Shape, EngineFields
<1>2. Committed(e) = Emit(ClearAdvance(c), signal)
  BY DEF Committed
<1>3. Shape(c) /\ SignalOk(signal)
  BY <1>1 DEF Keeps, SignalOk
<1> HIDE DEF c, signal
<1>4. Keeps(c, ClearAdvance(c), Advance) /\ ClearAdvance(c).mode = FALSE
  BY <1>3, ClearAdvanceKeeps
<1>5. Keeps(ClearAdvance(c), Emit(ClearAdvance(c), signal), {"out"})
  BY <1>3, <1>4, EmitKeeps DEF Keeps
<1> QED
  BY <1>1, <1>2, <1>4, <1>5 DEF Keeps, EngineFields, Advance

-----------------------------------------------------------------------------
(* Loads and the hand-over.                                                 *)

\* Nothing prepared is another name for no track.
LEMMA NothingPrepared ==
    ASSUME NEW o
    PROVE  Same(NoPrepared, o) <=> o.track = 0
BY DEF Same, NoPrepared

\* A preparation starts only when what was prepared and attached has gone.
LEMMA EnsurePreparedKeeps ==
    ASSUME NEW e, NEW item, Shape(e)
    PROVE  LET r == EnsurePrepared(e, item)
           IN  /\ Keeps(e, r, {"prepared", "armed", "job"})
               /\ \/ r = e /\ Same(e.prepared, item) /\ e.prepared # NoPrepared
                  \/ r.armed = NoGapless /\ r.prepared = NoPrepared
<1> DEFINE r    == EnsurePrepared(e, item)
           bare == ClearPrepared(e)
<1>1. CASE e.prepared.track # 0 /\ Same(e.prepared, item)
  <2>1. r = e
    BY <1>1 DEF EnsurePrepared
  <2> QED
    BY <1>1, <2>1 DEF Keeps, NoPrepared
<1>2. CASE ~(e.prepared.track # 0 /\ Same(e.prepared, item))
  <2>1. r = [bare EXCEPT !.job = item]
    BY <1>2 DEF EnsurePrepared
  <2>2. Keeps(e, bare, {"prepared", "armed"}) /\ bare.prepared = NoPrepared
        /\ bare.armed = NoGapless
    BY ClearPreparedKeeps
  <2> HIDE DEF bare
  <2>3. Keeps(bare, r, {"job"})
    BY <2>1, <2>2 DEF Keeps, Shape, EngineFields
  <2> HIDE DEF r
  <2>4. /\ Keeps(e, r, {"prepared", "armed", "job"})
        /\ r.armed = NoGapless /\ r.prepared = NoPrepared
    BY <2>2, <2>3 DEF Keeps, EngineFields
  <2> QED
    BY <2>4 DEF r
<1> QED
  BY <1>1, <1>2

\* The handler is told that a track is not ready.
LEMMA UnreadyKeeps ==
    ASSUME NEW e, NEW item, Shape(e)
    PROVE  Keeps(e, Unready(e, item), {"out"})
BY EmitKeeps DEF Unready, SignalOk

\* A request of the player is one of three: it is withdrawn, it finds the track
\* prepared but of no use yet, or the track is prepared unless it has been.
LEMMA PrepareNextCases ==
    ASSUME NEW e, NEW item
    PROVE  \/ PrepareNext(e, item) = Unready(ClearPrepared(CancelJobs(e)), item)
           \/ item.track # 0 /\ PrepareNext(e, item) = Unready(e, item)
           \/ item.track # 0 /\ PrepareNext(e, item) = EnsurePrepared(e, item)
BY DEF PrepareNext

\* What a load may do: it keeps what is attached to the prepared stream, or
\* gives both up; a track that follows of itself and can be opened leaves nothing
\* prepared.
Loaded(e, r, manual, opens) ==
    /\ Shape(r)
    /\ r.auto = e.auto
    /\ r.candidate \in {e.candidate, NoTrack}
    /\ r.mode = FALSE
    /\ r.live = FALSE \/ r.stream = "none"
    /\ Held(e) => Held(r)
    /\ e.armed.track = 0 => r.armed.track = 0
    /\ ~manual /\ opens => r.armed = NoGapless /\ r.prepared = NoPrepared

\* A load gives up what was prepared for another track, and takes over what was
\* prepared for this one; a failing one leaves no stream.
LEMMA LoadKeeps ==
    ASSUME NEW e, NEW item, NEW manual, NEW opens, Shape(e)
    PROVE  Loaded(e, Load(e, item, manual, opens), manual, opens)
<1> DEFINE disarmed == IF manual THEN Disarm(e) ELSE EnsurePrepared(DisarmStale(e, item.track), item)
           set      == SetContext(disarmed, item)
           context  == [set EXCEPT !.ended = FALSE]
           begun    == [context EXCEPT !.status = "ok", !.stream = "none"]
           signal   == [signal |-> "status", status |-> "loading", track |-> item.track,
                        gen |-> context.gen]
           loading  == Emit(begun, signal)
           adopts   == Same(loading.prepared, item) /\ (loading.prepared.fits \/ manual)
           adopted  == IF Same(loading.prepared, item) THEN ClearPrepared(loading) ELSE loading
           ending   == ClearEnding(adopted)
           played   == [ending EXCEPT !.stream = "body"]
           r        == Load(e, item, manual, opens)
<1>1. r = IF adopts \/ opens THEN Committed(played) ELSE SetStatus(loading, "invalid")
  BY DEF Load
<1>2. /\ Keeps(e, disarmed, {"prepared", "armed", "job"})
      /\ Held(e) => Held(disarmed)
      /\ e.armed.track = 0 => disarmed.armed.track = 0
      /\ ~manual => \/ Same(disarmed.prepared, item)
                    \/ disarmed.armed = NoGapless /\ disarmed.prepared = NoPrepared
  <2>1. CASE manual
    BY <2>1, DisarmKeeps DEF Keeps, Held, EngineFields
  <2>2. CASE ~manual
    <3> DEFINE stale == DisarmStale(e, item.track)
    <3>1. Keeps(e, stale, {"prepared", "armed"})
      BY DisarmStaleKeeps
    <3>2. \/ stale = e
          \/ stale.armed.track = 0 /\ stale.prepared \in {e.prepared, NoPrepared}
      BY DisarmStaleKeeps
    <3>3. disarmed = EnsurePrepared(stale, item)
      BY <2>2
    <3> HIDE DEF stale, disarmed
    <3>4. Held(e) => Held(stale)
      BY <3>1, <3>2 DEF Held, Keeps, EngineFields
    <3>5. /\ Keeps(stale, disarmed, {"prepared", "armed", "job"})
          /\ \/ disarmed = stale /\ Same(stale.prepared, item)
             \/ disarmed.armed = NoGapless /\ disarmed.prepared = NoPrepared
      BY <3>1, <3>3, EnsurePreparedKeeps DEF Keeps
    <3> QED
      BY <2>2, <3>1, <3>2, <3>4, <3>5 DEF Held, Keeps, EngineFields, NoGapless
  <2> QED
    BY <2>1, <2>2
<1> HIDE DEF disarmed
<1>3. Keeps(disarmed, set, {"current", "gen", "pool"} \cup Advance) /\ set.mode = FALSE
  BY <1>2, SetContextKeeps DEF Keeps
<1> HIDE DEF set
<1>4. /\ Keeps(set, begun, {"ended", "status", "stream"})
      /\ begun.stream = "none"
  BY <1>3 DEF Keeps, Shape, EngineFields
<1>11. SignalOk(signal)
  BY DEF SignalOk
<1> HIDE DEF begun, signal
<1>5. Keeps(begun, loading, {"out"})
  BY <1>4, <1>11, EmitKeeps DEF Keeps
<1> HIDE DEF loading
<1>6. /\ Keeps(e, loading, EngineFields \ {"auto", "candidate", "live"})
      /\ loading.prepared = disarmed.prepared /\ loading.armed = disarmed.armed
      /\ loading.job = disarmed.job
      /\ loading.mode = FALSE /\ loading.stream = "none"
  BY <1>2, <1>3, <1>4, <1>5 DEF Keeps, EngineFields, Advance
<1>7. ASSUME adopts \/ opens
      PROVE  /\ Shape(r) /\ r.auto = e.auto /\ r.candidate \in {e.candidate, NoTrack}
             /\ r.mode = FALSE /\ r.live = FALSE
             /\ r.job = loading.job
             /\ r.prepared = adopted.prepared /\ r.armed = adopted.armed
  <2>1. Keeps(loading, adopted, {"prepared", "armed"})
    <3>1. CASE Same(loading.prepared, item)
      BY <3>1, <1>6, ClearPreparedKeeps DEF Keeps
    <3>2. CASE ~Same(loading.prepared, item)
      BY <3>2, <1>6 DEF Keeps
    <3> QED
      BY <3>1, <3>2
  <2> HIDE DEF adopted
  <2>2. Keeps(adopted, ending, {"live", "latched", "ended"}) /\ ending.live = FALSE
    BY <2>1, ClearEndingKeeps DEF Keeps
  <2> HIDE DEF ending
  <2>3. Keeps(ending, played, {"stream"})
    BY <2>2 DEF Keeps, Shape, EngineFields
  <2> HIDE DEF played
  <2>4. /\ Keeps(played, r, {"candidate", "out"} \cup Advance)
        /\ r.candidate \in {played.candidate, NoTrack} /\ r.mode = FALSE
    BY <2>3, <1>1, <1>7, CommittedKeeps, ZenonT(30) DEF Keeps
  <2> HIDE DEF r
  <2> QED
    BY <1>6, <2>1, <2>2, <2>3, <2>4 DEF Keeps, EngineFields, Advance
<1>8. ASSUME adopts \/ opens
      PROVE  /\ adopted.prepared \in {loading.prepared, NoPrepared}
             /\ \/ adopted.armed = NoGapless
                \/ adopted.armed = loading.armed /\ adopted.prepared = loading.prepared
             /\ ~manual => adopted.armed = NoGapless /\ adopted.prepared = NoPrepared
  BY <1>2, <1>6, ClearPreparedKeeps DEF Keeps
<1> HIDE DEF adopted
<1>9. CASE adopts \/ opens
  <2> HIDE DEF r
  <2>1. /\ Shape(r) /\ r.auto = e.auto /\ r.candidate \in {e.candidate, NoTrack}
        /\ r.mode = FALSE /\ r.live = FALSE
        /\ r.job = disarmed.job
        /\ r.prepared \in {disarmed.prepared, NoPrepared}
        /\ \/ r.armed = NoGapless
           \/ r.armed = disarmed.armed /\ r.prepared = disarmed.prepared
        /\ ~manual => r.armed = NoGapless /\ r.prepared = NoPrepared
    BY <1>6, <1>7, <1>8, <1>9
  <2>2. Held(e) => Held(r)
    BY <1>2, <2>1 DEF Held, NoGapless
  <2>3. e.armed.track = 0 => r.armed.track = 0
    BY <1>2, <2>1 DEF NoGapless
  <2> QED
    BY <2>1, <2>2, <2>3 DEF r, Loaded
<1>10. CASE ~(adopts \/ opens)
  <2>1. Keeps(loading, r, {"out", "status"})
    BY <1>10, <1>1, <1>6, SetStatusKeeps DEF Keeps
  <2> HIDE DEF r
  <2>2. Held(e) => Held(r)
    BY <1>2, <1>6, <2>1 DEF Held, Keeps, EngineFields
  <2>3. /\ Shape(r) /\ r.auto = e.auto /\ r.candidate = e.candidate
        /\ r.mode = FALSE /\ r.stream = "none" /\ r.armed = disarmed.armed
    BY <1>6, <2>1 DEF Keeps, EngineFields
  <2> QED
    BY <1>2, <1>10, <2>2, <2>3 DEF r, Loaded
<1> QED
  BY <1>9, <1>10

\* Nothing is prepared or attached for a track that is attached: its decoder
\* has taken over.
LEMMA StageKeeps ==
    ASSUME NEW e, Shape(e)
    PROVE  /\ Keeps(e, Stage(e), {"prepared", "armed"})
           /\ Stage(e).armed.track = e.armed.track
           /\ Held(e) => Held(Stage(e))
           /\ ~e.armed.adopted => Stage(e).prepared = NoPrepared
           /\ e.armed.adopted => Stage(e) = e
<1>1. CASE e.armed.adopted
  BY <1>1 DEF Stage, Keeps
<1>2. CASE ~e.armed.adopted
  <2>1. Stage(e) = [e EXCEPT !.prepared = NoPrepared, !.armed.adopted = TRUE]
    BY <1>2 DEF Stage
  <2> DEFINE taken == [e.armed EXCEPT !.adopted = TRUE]
  <2>3. DOMAIN taken = DOMAIN e.armed /\ taken.track = e.armed.track /\ taken.adopted = TRUE
    BY DEF Shape
  <2>4. Stage(e) = [e EXCEPT !.prepared = NoPrepared, !.armed = taken]
    BY <2>1
  <2> HIDE DEF taken
  <2>2. /\ Keeps(e, Stage(e), {"prepared", "armed"})
        /\ Stage(e).armed.track = e.armed.track /\ Stage(e).armed.adopted = TRUE
        /\ Stage(e).prepared = NoPrepared
    BY <2>3, <2>4 DEF Keeps, Shape, EngineFields
  <2> QED
    BY <1>2, <2>2 DEF Keeps, EngineFields, Held
<1> QED
  BY <1>1, <1>2

\* After the hand-over nothing is attached.
LEMMA CommitGaplessKeeps ==
    ASSUME NEW e, NEW target, Shape(e),
           e.armed.adopted => (e.job.track = 0 \/ e.prepared = NoPrepared)
    PROVE  LET r == CommitGapless(e, target)
           IN  /\ Shape(r)
               /\ Held(r)
               /\ r.armed = NoGapless
               /\ r.auto = e.auto
               /\ r.candidate \in {e.candidate, NoTrack}
<1> DEFINE staged  == Stage(e)
           next    == SetContext(staged, target)
           ending  == ClearEnding(next)
           played  == [ending EXCEPT !.stream = "body", !.status = "ok"]
           told    == Committed(played)
           r       == CommitGapless(e, target)
<1>1. r = [told EXCEPT !.armed = NoGapless]
  BY DEF CommitGapless
<1>2. /\ Keeps(e, staged, {"prepared", "armed"})
      /\ ~e.armed.adopted => staged.prepared = NoPrepared
      /\ e.armed.adopted => staged = e
  BY StageKeeps
<1> HIDE DEF staged
<1>3. Keeps(staged, next, {"current", "gen", "pool"} \cup Advance)
  BY <1>2, SetContextKeeps DEF Keeps
<1> HIDE DEF next
<1>4. Keeps(next, ending, {"live", "latched", "ended"})
  BY <1>3, ClearEndingKeeps DEF Keeps
<1> HIDE DEF ending
<1>5. Keeps(ending, played, {"stream", "status"})
  BY <1>4 DEF Keeps, Shape, EngineFields
<1> HIDE DEF played
<1>6. /\ Keeps(played, told, {"candidate", "out"} \cup Advance)
      /\ told.candidate \in {played.candidate, NoTrack}
  BY <1>5, CommittedKeeps DEF Keeps
<1> HIDE DEF told
<1>7. Keeps(told, r, {"armed"}) /\ r.armed = NoGapless
  BY <1>1, <1>6 DEF Keeps, Shape, EngineFields, NoGapless
<1> HIDE DEF r
<1>8. /\ Shape(r) /\ r.auto = e.auto /\ r.candidate \in {e.candidate, NoTrack}
      /\ r.job = e.job /\ r.prepared = staged.prepared
  BY <1>2, <1>3, <1>4, <1>5, <1>6, <1>7 DEF Keeps, EngineFields, Advance
<1>9. r.job.track = 0 \/ r.prepared = NoPrepared
  BY <1>2, <1>8
<1>10. Held(r)
  BY <1>7, <1>9 DEF Held, NoGapless
<1> QED
  BY <1>7, <1>8, <1>10 DEF r

\* A stream is attached only to what was prepared for it.
LEMMA ArmKeeps ==
    ASSUME NEW e, NEW target, Shape(e)
    PROVE  LET r == Arm(e, target)
           IN  /\ Keeps(e, r, {"prepared", "armed"})
               /\ Held(e) /\ target.track # 0 => Held(r)
               /\ r.armed.track # 0 /\ r.armed.adopted => r.armed = e.armed
<1> DEFINE stale == DisarmStale(e, target.track)
           r     == Arm(e, target)
<1>1. /\ Keeps(e, stale, {"prepared", "armed"})
      /\ \/ stale = e
         \/ stale.armed.track = 0 /\ stale.prepared \in {e.prepared, NoPrepared}
  BY DisarmStaleKeeps
<1>2. Held(e) => Held(stale)
  BY <1>1 DEF Held, Keeps, EngineFields
<1>3. CASE r = stale
  BY <1>1, <1>2, <1>3
<1>4. CASE /\ stale.playback = "playing" /\ Effective(stale)
           /\ Same(stale.prepared, target) /\ stale.prepared.fits /\ stale.armed.track = 0
  <2>1. r = [stale EXCEPT !.armed = [track |-> target.track, item |-> target.item,
                                     gen |-> stale.gen, adopted |-> FALSE]]
    BY <1>4 DEF Arm
  <2> HIDE DEF stale
  <2>2. /\ Keeps(stale, r, {"armed"})
        /\ r.armed = [track |-> target.track, item |-> target.item,
                      gen |-> stale.gen, adopted |-> FALSE]
    BY <1>1, <2>1 DEF Keeps, Shape, EngineFields
  <2> HIDE DEF r
  <2>3. Same(r.prepared, r.armed) /\ r.job = stale.job /\ r.prepared = stale.prepared
    BY <1>4, <2>2 DEF Keeps, EngineFields, Same
  <2>4. Held(e) /\ target.track # 0 => stale.job.track = 0
    BY <1>2, <1>4, NothingPrepared DEF Held
  <2>5. Held(e) /\ target.track # 0 => Held(r)
    BY <2>2, <2>3, <2>4 DEF Held
  <2>6. Keeps(e, r, {"prepared", "armed"}) /\ r.armed.adopted = FALSE
    BY <1>1, <2>2 DEF Keeps
  <2> QED
    BY <2>5, <2>6 DEF r
<1> QED
  BY <1>3, <1>4 DEF Arm

\* What a step towards the next track may meet: everything is in order, or the
\* next track has just been prepared at once.
Advancing(e, how) ==
    \/ Held(e)
    \/ /\ how # "failed"
       /\ e.armed.track # 0 /\ e.armed.adopted => e.job.track = 0

\* The change to the next track leaves everything in order.
LEMMA AdvanceToKeeps ==
    ASSUME NEW e, NEW target, NEW how, Shape(e), Advancing(e, how)
    PROVE  LET r == AdvanceTo(e, target, how)
           IN  /\ Shape(r)
               /\ Held(r)
               /\ r.auto = e.auto
               /\ r.candidate \in {e.candidate, NoTrack}
<1>1. CASE ReadyFor(e, target)
  <2>1. e.armed.track # 0
    BY <1>1 DEF ReadyFor, CanStage
  <2>2. e.armed.adopted => e.job.track = 0
    BY <2>1 DEF Advancing, Held
  <2>3. AdvanceTo(e, target, how) = CommitGapless(e, target)
    BY <1>1 DEF AdvanceTo
  <2> QED
    BY <2>2, <2>3, CommitGaplessKeeps
<1>2. CASE ~ReadyFor(e, target)
  <2> DEFINE r == AdvanceTo(e, target, how)
             opens == how # "failed"
  <2>1. r = Load(e, target, FALSE, opens)
    BY <1>2 DEF AdvanceTo
  <2> HIDE DEF opens
  <2>2. Loaded(e, r, FALSE, opens)
    BY <2>1, LoadKeeps
  <2> HIDE DEF r
  <2>3. CASE Held(e)
    BY <2>2, <2>3 DEF r, Loaded
  <2>4. CASE how # "failed"
    <3>1. r.armed = NoGapless /\ r.prepared = NoPrepared
      BY <2>2, <2>4 DEF opens, Loaded
    <3>2. Held(r)
      BY <3>1 DEF Held, NoGapless
    <3> QED
      BY <2>2, <3>2 DEF r, Loaded
  <2> QED
    BY <2>3, <2>4 DEF Advancing
<1> QED
  BY <1>1, <1>2

\* So does the change to a track that had to be prepared first.
LEMMA PrepareAtOnceKeeps ==
    ASSUME NEW e, NEW target, NEW how, Shape(e), Held(e)
    PROVE  LET r == PrepareAtOnce(e, target, how)
           IN  /\ Shape(r)
               /\ Advancing(r, how)
               /\ r.auto = e.auto /\ r.candidate = e.candidate
<1> DEFINE idle == [e EXCEPT !.requested = FALSE, !.job = IF e.requested THEN NoTrack ELSE @]
           held == [idle EXCEPT !.prepared = [track |-> target.track, item |-> target.item,
                                              fits |-> how = "fits"]]
           r    == PrepareAtOnce(e, target, how)
<1>1. Keeps(e, idle, {"requested", "job"}) /\ idle.job \in {e.job, NoTrack}
  BY DEF Keeps, Shape, EngineFields
<1>2. r = IF how = "failed" THEN ClearPrepared(idle) ELSE Arm(held, target)
  BY DEF PrepareAtOnce
<1> HIDE DEF idle
<1>3. CASE how = "failed"
  <2>1. /\ Keeps(idle, r, {"prepared", "armed"})
        /\ r.prepared = NoPrepared /\ r.armed = NoGapless
    BY <1>1, <1>2, <1>3, ClearPreparedKeeps DEF Keeps
  <2> HIDE DEF r
  <2>2. Held(r)
    BY <2>1 DEF Held, NoGapless
  <2>3. Shape(r) /\ r.auto = e.auto /\ r.candidate = e.candidate
    BY <1>1, <2>1 DEF Keeps, EngineFields
  <2> QED
    BY <2>2, <2>3 DEF Advancing, r
<1>4. CASE how # "failed"
  <2>1. Keeps(idle, held, {"prepared"})
    BY <1>1 DEF Keeps, Shape, EngineFields
  <2> HIDE DEF held
  <2>2. /\ Keeps(held, r, {"prepared", "armed"})
        /\ r.armed.track # 0 /\ r.armed.adopted => r.armed = held.armed
    BY <1>2, <1>4, <2>1, ArmKeeps DEF Keeps
  <2> HIDE DEF r
  <2>3. held.armed = e.armed /\ r.job = idle.job
    BY <1>1, <2>1, <2>2 DEF Keeps, EngineFields
  <2>4. r.armed.track # 0 /\ r.armed.adopted => r.job.track = 0
    BY <1>1, <2>2, <2>3 DEF Held, NoTrack
  <2>5. Shape(r) /\ r.auto = e.auto /\ r.candidate = e.candidate
    BY <1>1, <2>1, <2>2 DEF Keeps, EngineFields
  <2> QED
    BY <1>4, <2>4, <2>5 DEF Advancing, r
<1> QED
  BY <1>3, <1>4

\* The engine goes on to the next track, attaches it, or does nothing.
LEMMA TryAutoAdvanceKeeps ==
    ASSUME NEW e, NEW how, Shape(e), Held(e)
    PROVE  LET r == TryAutoAdvance(e, how)
           IN  /\ Shape(r)
               /\ Held(r)
               /\ r.auto = e.auto
               /\ r.candidate \in {e.candidate, NoTrack}
<1> DEFINE target   == AdvanceTarget(e)
           attached == Arm(e, target)
           r        == TryAutoAdvance(e, how)
<1>1. r = IF target.track = 0 \/ ~Effective(e) THEN e ELSE AdvanceArmed(attached, target, how)
  BY DEF TryAutoAdvance, AutoAdvance
<1> HIDE DEF target
<1>2. CASE target.track = 0 \/ ~Effective(e)
  BY <1>1, <1>2
<1>3. CASE target.track # 0 /\ Effective(e)
  <2>1. /\ Keeps(e, attached, {"prepared", "armed"})
        /\ Held(attached)
    BY <1>3, ArmKeeps
  <2>2. attached.auto = e.auto /\ attached.candidate = e.candidate /\ Shape(attached)
    BY <2>1 DEF Keeps, EngineFields
  <2> HIDE DEF attached
  <2> DEFINE ready == IF ReadyFor(attached, target) THEN attached
                      ELSE PrepareAtOnce(attached, target, how)
  <2>3. r = IF ~attached.anchor THEN attached ELSE AdvanceTo(ready, target, how)
    BY <1>1, <1>3 DEF AdvanceArmed
  <2>4. /\ Shape(ready) /\ Advancing(ready, how)
        /\ ready.auto = e.auto /\ ready.candidate = e.candidate
    BY <2>1, <2>2, PrepareAtOnceKeeps DEF Advancing
  <2> HIDE DEF ready, r
  <2> QED
    BY <2>1, <2>2, <2>3, <2>4, AdvanceToKeeps DEF r
<1> QED
  BY <1>2, <1>3

-----------------------------------------------------------------------------
(* The engine's handlers.                                                   *)

(***************************************************************************)
(* With automatic changes switched off there is no candidate and nothing is   *)
(* attached; a preparation is left only where no change follows it: after a    *)
(* load that failed, or with the change at the end of the track not live.      *)
(***************************************************************************)
Off(e) ==
    ~e.auto => /\ e.armed.track = 0 /\ e.candidate = NoTrack
               /\ Effective(e) => \/ e.stream = "none"
                                  \/ e.prepared = NoPrepared /\ e.job = NoTrack

Sound(e) == Shape(e) /\ Held(e) /\ Off(e)

\* A handler that changes none of what Sound speaks of.
LEMMA SoundKept ==
    ASSUME NEW e, NEW r, Sound(e),
           Keeps(e, r, EngineFields \ {"prepared", "job", "armed", "candidate", "auto", "live",
                                       "mode", "stream"})
    PROVE  Sound(r)
BY DEF Sound, Held, Off, Effective, Keeps, EngineFields

\* Nothing comes next while automatic changes are off.
LEMMA StaysPut ==
    ASSUME NEW e, NEW how, Sound(e), ~e.auto, e.stream # "none"
    PROVE  TryAutoAdvance(e, how) = e
<1>1. CASE ~Effective(e)
  BY <1>1 DEF TryAutoAdvance, AutoAdvance
<1>2. CASE Effective(e)
  <2>1. e.candidate.track = 0 /\ ~IsArmed(e) /\ e.prepared.track = 0
    BY <1>2 DEF Sound, Off, IsArmed, NoTrack, NoPrepared
  <2>2. AdvanceTarget(e) = NoTrack
    BY <2>1 DEF AdvanceTarget
  <2> QED
    BY <2>2 DEF TryAutoAdvance, AutoAdvance, NoTrack
<1> QED
  BY <1>1, <1>2

\* So TryAutoAdvance keeps all in order.
LEMMA TryAutoAdvanceSound ==
    ASSUME NEW e, NEW how, Sound(e), e.auto \/ e.stream # "none"
    PROVE  /\ Sound(TryAutoAdvance(e, how))
           /\ TryAutoAdvance(e, how).auto = e.auto
           /\ ~e.auto => TryAutoAdvance(e, how) = e
<1> DEFINE r == TryAutoAdvance(e, how)
<1>1. Shape(r) /\ Held(r) /\ r.auto = e.auto
  BY TryAutoAdvanceKeeps DEF Sound
<1>2. ~e.auto => r = e
  BY StaysPut
<1> HIDE DEF r
<1>3. Off(r)
  BY <1>1, <1>2 DEF Off, Sound
<1> QED
  BY <1>1, <1>2, <1>3 DEF Sound, r

\* The handler is told of a track that is not ready, and nothing else.
LEMMA UnreadySound ==
    ASSUME NEW e, NEW item, Sound(e)
    PROVE  LET r == Unready(e, item)
           IN  Sound(r) /\ r.auto = e.auto /\ r.current = e.current
<1>1. Keeps(e, Unready(e, item), {"out"})
  BY UnreadyKeeps DEF Sound
<1> QED
  BY <1>1, SoundKept DEF Keeps, EngineFields

\* The result of a preparation: what is attached cannot be parted from what it
\* was prepared for, since nothing is attached while one runs.
LEMMA JobDoneSound ==
    ASSUME NEW e, NEW how, NEW now, Sound(e), e.job.track # 0
    PROVE  /\ Sound(JobDone(e, how, now))
           /\ JobDone(e, how, now).auto = e.auto
           /\ ~e.auto => JobDone(e, how, now).current = e.current
<1> DEFINE idle    == CancelJobs(e)
           applied == IF how = "failed" THEN ClearPrepared(idle)
                      ELSE [idle EXCEPT !.prepared = [track |-> e.job.track, item |-> e.job.item,
                                                      fits |-> how = "fits"]]
           told    == IF Eligible(applied) THEN applied ELSE Unready(applied, e.job)
           asked   == [told EXCEPT !.requested = FALSE]
           r       == JobDone(e, how, now)
<1>1. r = IF Same(e.job, e.candidate) THEN TryAutoAdvance(asked, now) ELSE told
  BY DEF JobDone
<1>2. Keeps(e, idle, {"job"}) /\ idle.job = NoTrack
  BY CancelJobsKeeps DEF Sound
<1> HIDE DEF idle
<1>3. /\ Keeps(idle, applied, {"prepared", "armed"})
      /\ applied.armed \in {idle.armed, NoGapless}
  <2>1. CASE how = "failed"
    BY <1>2, <2>1, ClearPreparedKeeps DEF Keeps
  <2>2. CASE how # "failed"
    BY <1>2, <2>2 DEF Keeps, Shape, EngineFields
  <2> QED
    BY <2>1, <2>2
<1> HIDE DEF applied
<1>4. Keeps(e, applied, {"prepared", "armed", "job"}) /\ applied.job = NoTrack
  BY <1>2, <1>3 DEF Keeps, EngineFields
<1>5. applied.armed.track = 0
  BY <1>2, <1>3 DEF Sound, Held, NoGapless, Keeps, EngineFields
<1>6. Shape(applied) /\ Held(applied)
  BY <1>4, <1>5 DEF Held, NoTrack, Keeps
<1>7. ~e.auto /\ Effective(e) => e.stream = "none"
  BY DEF Sound, Off, NoTrack
<1>8. Off(applied)
  BY <1>4, <1>5, <1>7 DEF Sound, Off, Effective, Keeps, EngineFields
<1>t. Sound(told) /\ told.auto = applied.auto /\ told.current = applied.current
  BY <1>6, <1>8, UnreadySound DEF Sound
<1> HIDE DEF told
<1>9. /\ Keeps(told, asked, {"requested"})
  BY <1>t DEF Sound, Keeps, Shape, EngineFields
<1> HIDE DEF asked
<1>10. Sound(told) /\ Sound(asked)
  BY <1>t, <1>9, SoundKept DEF Keeps, EngineFields
<1>11. Same(e.job, e.candidate) => e.auto
  BY DEF Sound, Off, Same, NoTrack
<1>12. told.auto = e.auto /\ asked.auto = e.auto /\ told.current = e.current
  BY <1>4, <1>9, <1>t DEF Keeps, EngineFields
<1> HIDE DEF r
<1>13. CASE Same(e.job, e.candidate)
  BY <1>1, <1>10, <1>11, <1>12, <1>13, TryAutoAdvanceSound DEF r
<1>14. CASE ~Same(e.job, e.candidate)
  BY <1>1, <1>10, <1>12, <1>14 DEF r
<1> QED
  BY <1>13, <1>14

\* A preparation for the end of the track replaces what was prepared.
LEMMA PrepareForDrainSound ==
    ASSUME NEW e, Sound(e)
    PROVE  LET r == PrepareForDrain(e)
           IN  /\ Sound(r) /\ r.auto = e.auto /\ r.gen = e.gen /\ r.stream = e.stream
               /\ ~e.auto => r = e
<1> DEFINE kept == [e EXCEPT !.mode = TRUE]
           new  == [ClearPrepared(kept) EXCEPT !.requested = TRUE, !.job = e.candidate]
           r    == PrepareForDrain(e)
<1>1. CASE r = e
  BY <1>1
<1>2. CASE r \in {kept, new} /\ Configured(e)
  <2>1. Keeps(e, kept, {"mode"}) /\ e.auto
    BY <1>2 DEF Sound, Keeps, Shape, EngineFields, Configured
  <2> HIDE DEF kept
  <2>2. /\ Keeps(kept, ClearPrepared(kept), {"prepared", "armed"})
        /\ ClearPrepared(kept).prepared = NoPrepared
        /\ ClearPrepared(kept).armed = NoGapless
    BY <2>1, ClearPreparedKeeps DEF Keeps
  <2>3. /\ Keeps(ClearPrepared(kept), new, {"requested", "job"})
    BY <2>2 DEF Keeps, Shape, EngineFields
  <2> HIDE DEF new
  <2>4. Held(kept) /\ Held(new)
    BY <2>1, <2>2, <2>3 DEF Sound, Held, Keeps, EngineFields, NoGapless
  <2>5. /\ Shape(kept) /\ kept.auto = e.auto /\ kept.gen = e.gen /\ kept.stream = e.stream
        /\ Shape(new) /\ new.auto = e.auto /\ new.gen = e.gen /\ new.stream = e.stream
    BY <2>1, <2>2, <2>3 DEF Keeps, EngineFields
  <2> HIDE DEF r
  <2>6. Sound(r) /\ r.auto = e.auto /\ r.gen = e.gen /\ r.stream = e.stream
    BY <1>2, <2>1, <2>4, <2>5 DEF Sound, Off
  <2> QED
    BY <2>1, <2>6 DEF r
<1>3. CASE e.candidate.track # 0 /\ Configured(e)
  <2>1. r \in {e, kept, new}
    BY DEF PrepareForDrain
  <2> QED
    BY <1>1, <1>2, <1>3, <2>1
<1>4. CASE ~(e.candidate.track # 0 /\ Configured(e))
  <2>1. r = e
    BY <1>4 DEF PrepareForDrain
  <2> QED
    BY <1>1, <2>1
<1> QED
  BY <1>3, <1>4

\* A step of the end of a track: with automatic changes off, the track stays.
EndStep(e, r) ==
    /\ Sound(r) /\ r.auto = e.auto
    /\ ~e.auto => r.current = e.current /\ r.stream = e.stream /\ r.gen = e.gen

\* The end of the input: the change is live only if it is switched on.
LEMMA ReachSound ==
    ASSUME NEW e, NEW stream, Sound(e), e.stream # "none", stream # "none"
    PROVE  LET r == Reach(e, stream)
           IN  /\ Sound(r) /\ r.auto = e.auto /\ r.gen = e.gen /\ r.current = e.current
               /\ r.stream = stream
<1> DEFINE live == IF stream = "drained" THEN FALSE
                   ELSE e.live \/ (e.stream = "body" /\ stream = "ended" /\ Configured(e))
           mode == e.mode \/ e.live \/ live
           r    == Reach(e, stream)
<1>1. r = [e EXCEPT !.stream = stream, !.live = live, !.latched = @ \/ stream = "drained",
                    !.mode = mode]
  BY DEF Reach
<1>2. ~e.auto /\ (live \/ mode) => Effective(e)
  BY DEF Configured, Effective
<1> HIDE DEF live, mode
<1>3. /\ Keeps(e, r, {"stream", "live", "latched", "mode"})
      /\ r.stream = stream /\ r.live = live /\ r.mode = mode
  BY <1>1 DEF Sound, Keeps, Shape, EngineFields
<1> HIDE DEF r
<1>4. r.auto = e.auto /\ r.gen = e.gen /\ r.current = e.current
  BY <1>3 DEF Keeps, EngineFields
<1>5. Shape(r) /\ Held(r)
  BY <1>3 DEF Sound, Held, Keeps, EngineFields
<1>6. r.armed = e.armed /\ r.candidate = e.candidate /\ r.prepared = e.prepared /\ r.job = e.job
  BY <1>3 DEF Keeps, EngineFields
<1>7. Off(r)
  <2>1. ~r.auto /\ Effective(r) => Effective(e)
    BY <1>2, <1>3, <1>4 DEF Effective
  <2> QED
    BY <1>4, <1>6, <2>1 DEF Off, Sound
<1> QED
  BY <1>3, <1>4, <1>5, <1>7 DEF Sound, r

\* The decoder of what is attached takes over when the stream has drained.
LEMMA StageDrainedSound ==
    ASSUME NEW e, Sound(e)
    PROVE  LET r == StageDrained(e)
           IN  EndStep(e, r) /\ r.stream = e.stream /\ r.gen = e.gen
<1> DEFINE r == StageDrained(e)
<1>1. CASE r = e
  BY <1>1 DEF EndStep
<1>2. CASE r = Stage(e) /\ IsArmed(e)
  <2>1. Keeps(e, r, {"prepared", "armed"}) /\ Held(r)
    BY <1>2, StageKeeps DEF Sound
  <2>2. e.auto
    BY <1>2 DEF Sound, Off, IsArmed
  <2> HIDE DEF r
  <2>3. Shape(r) /\ r.auto = e.auto /\ r.stream = e.stream /\ r.gen = e.gen
        /\ r.current = e.current
    BY <2>1 DEF Keeps, EngineFields
  <2>4. EndStep(e, r)
    BY <2>1, <2>2, <2>3 DEF EndStep, Sound, Off
  <2> QED
    BY <2>3, <2>4 DEF r
<1> QED
  BY <1>1, <1>2 DEF StageDrained

\* What is attached is released when it is rendered.
LEMMA ReleaseSound ==
    ASSUME NEW e, NEW rendered, NEW how, Sound(e), e.stream # "none"
    PROVE  EndStep(e, Release(e, rendered, how))
<1>1. CASE Release(e, rendered, how) = e
  BY <1>1 DEF EndStep
<1>2. CASE Release(e, rendered, how) = TryAutoAdvance(e, how)
  BY <1>2, TryAutoAdvanceSound DEF EndStep
<1> QED
  BY <1>1, <1>2 DEF Release

\* The boundary.
LEMMA SignalBoundarySound ==
    ASSUME NEW e, NEW rendered, NEW rest, NEW how, Sound(e), e.auto \/ e.stream # "none"
    PROVE  EndStep(e, SignalBoundary(e, rendered, rest, how))
<1> DEFINE owned     == IsArmed(e) /\ ~rendered
           signal    == [signal |-> "boundary", track |-> e.current.track, gen |-> e.gen,
                         rest |-> rest /\ ~owned /\ ~rendered, owned |-> owned]
           passed    == [e EXCEPT !.waiting = FALSE, !.anchor = TRUE]
           signalled == Emit(passed, signal)
           r         == SignalBoundary(e, rendered, rest, how)
<1>1. r = IF owned THEN signalled ELSE TryAutoAdvance(signalled, how)
  BY DEF SignalBoundary
<1>2. Keeps(e, passed, {"waiting", "anchor"})
  BY DEF Sound, Keeps, Shape, EngineFields
<1>9. SignalOk(signal)
  BY DEF SignalOk
<1> HIDE DEF owned, signal, passed
<1>3. Keeps(passed, signalled, {"out"})
  BY <1>2, <1>9, EmitKeeps DEF Keeps
<1> HIDE DEF signalled
<1>4. Keeps(e, signalled, {"waiting", "anchor", "out"})
  BY <1>2, <1>3 DEF Keeps, EngineFields
<1>5. Sound(signalled)
  BY <1>4, SoundKept DEF Keeps, EngineFields
<1>6. /\ signalled.auto = e.auto /\ signalled.stream = e.stream
      /\ signalled.current = e.current /\ signalled.gen = e.gen
  BY <1>4 DEF Keeps, EngineFields
<1>7. EndStep(e, signalled)
  BY <1>5, <1>6 DEF EndStep
<1>8. EndStep(e, TryAutoAdvance(signalled, how))
  BY <1>5, <1>6, TryAutoAdvanceSound DEF EndStep
<1> QED
  BY <1>1, <1>7, <1>8

\* The decoder passes the end of a track: the boundary waits, or is signalled.
LEMMA PassBoundarySound ==
    ASSUME NEW e, NEW e0, NEW heard, NEW rendered, NEW rest, NEW how, Sound(e),
           e.auto \/ e.stream # "none"
    PROVE  EndStep(e, PassBoundary(e, e0, heard, rendered, rest, how))
<1> DEFINE r == PassBoundary(e, e0, heard, rendered, rest, how)
<1>1. r \in {e, [e EXCEPT !.waiting = TRUE], SignalBoundary(e, rendered, rest, how)}
  BY DEF PassBoundary
<1> HIDE DEF r
<1>2. CASE r = e
  BY <1>2 DEF EndStep, r
<1>3. CASE r = [e EXCEPT !.waiting = TRUE]
  <2>1. Keeps(e, r, {"waiting"})
    BY <1>3 DEF Sound, Keeps, Shape, EngineFields
  <2>2. Sound(r)
    BY <2>1, SoundKept DEF Keeps, EngineFields
  <2> QED
    BY <2>1, <2>2 DEF EndStep, Keeps, EngineFields, r
<1>4. CASE r = SignalBoundary(e, rendered, rest, how)
  BY <1>4, SignalBoundarySound DEF r
<1> QED
  BY <1>1, <1>2, <1>3, <1>4

\* The end of the track is signalled.
LEMMA EndUnlessFollowedSound ==
    ASSUME NEW e, NEW e0, Sound(e)
    PROVE  EndStep(e, EndUnlessFollowed(e, e0))
<1> DEFINE ended == [e EXCEPT !.ended = TRUE]
           r     == EndUnlessFollowed(e, e0)
<1>1. Keeps(e, ended, {"ended"})
  BY DEF Sound, Keeps, Shape, EngineFields
<1>2. r \in {e, SetStatus(ended, "end")}
  BY DEF EndUnlessFollowed, SignalEnd
<1> HIDE DEF ended, r
<1>3. Keeps(ended, SetStatus(ended, "end"), {"out", "status"})
  BY <1>1, SetStatusKeeps DEF Keeps
<1>4. Keeps(e, r, {"ended", "out", "status"})
  BY <1>1, <1>2, <1>3 DEF Keeps, EngineFields, Sound
<1>5. Sound(r)
  BY <1>4, SoundKept DEF Keeps, EngineFields
<1> QED
  BY <1>4, <1>5 DEF EndStep, Keeps, EngineFields, r

\* An update of the position.
LEMMA CheckEndingSound ==
    ASSUME NEW e, NEW stream, NEW heard, NEW rendered, NEW rest, NEW how,
           Sound(e), e.stream # "none", stream # "none"
    PROVE  LET r == CheckEnding(e, stream, heard, rendered, rest, how)
           IN  /\ Sound(r) /\ r.auto = e.auto
               /\ ~e.auto => r.current = e.current
<1> DEFINE e1 == Reach(e, stream)
           e2 == PrepareForDrain(e1)
           e3 == StageDrained(e2)
           e4 == Release(e3, rendered, how)
           e5 == PassBoundary(e4, e, heard, rendered, rest, how)
           e6 == EndUnlessFollowed(e5, e)
<1>1. CheckEnding(e, stream, heard, rendered, rest, how) = IF stream = "body" THEN e ELSE e6
  BY DEF CheckEnding
<1>2. /\ Sound(e1) /\ e1.auto = e.auto /\ e1.gen = e.gen /\ e1.current = e.current
      /\ e1.stream # "none"
  BY ReachSound
<1> HIDE DEF e1
<1>3. /\ Sound(e2) /\ e2.auto = e1.auto /\ e2.stream = e1.stream
      /\ ~e1.auto => e2 = e1
  BY <1>2, PrepareForDrainSound
<1> HIDE DEF e2
<1>4. EndStep(e2, e3) /\ e3.stream = e2.stream
  BY <1>3, StageDrainedSound
<1> HIDE DEF e3
<1>5. EndStep(e3, e4)
  BY <1>2, <1>3, <1>4, ReleaseSound DEF EndStep
<1> HIDE DEF e4
<1>6. Sound(e4) /\ (e4.auto \/ e4.stream # "none")
  BY <1>2, <1>3, <1>4, <1>5 DEF EndStep
<1>7. EndStep(e4, e5)
  BY <1>6, PassBoundarySound
<1> HIDE DEF e5
<1>8. EndStep(e5, e6)
  BY <1>7, EndUnlessFollowedSound DEF EndStep
<1> HIDE DEF e6
<1>9. /\ Sound(e6) /\ e6.auto = e.auto
      /\ ~e.auto => e6.current = e.current
  BY <1>2, <1>3, <1>4, <1>5, <1>7, <1>8 DEF EndStep
<1> QED
  BY <1>1, <1>9

\* A handler that switches automatic changes neither on nor off.
SoundStep(e, r) == Sound(r) /\ r.auto = e.auto

\* A load.
LEMMA LoadSound ==
    ASSUME NEW e, NEW item, NEW manual, NEW opens, Sound(e)
    PROVE  SoundStep(e, Load(e, item, manual, opens))
<1> DEFINE r == Load(e, item, manual, opens)
<1>1. Loaded(e, r, manual, opens)
  BY LoadKeeps DEF Sound
<1> HIDE DEF r
<1>2. Off(r)
  BY <1>1 DEF Loaded, Sound, Off, Effective, NoTrack
<1> QED
  BY <1>1, <1>2 DEF Loaded, Sound, SoundStep, r

\* A call to play.
LEMMA PlayEngineSound ==
    ASSUME NEW e, NEW opens, Sound(e)
    PROVE  Sound(PlayEngine(e, opens)) /\ PlayEngine(e, opens).auto = e.auto
<1> DEFINE loaded == IF e.stream = "none" /\ e.playback = "stopped" /\ e.current.track # 0
                     THEN Load(e, e.current, FALSE, opens) ELSE e
           played == SetPlayback(loaded, "playing")
           begun  == [played EXCEPT !.status = "ok"]
           r      == PlayEngine(e, opens)
<1>1. r \in {e, loaded, begun}
  BY DEF PlayEngine
<1>2. Sound(loaded) /\ loaded.auto = e.auto
  <2> DEFINE l == Load(e, e.current, FALSE, opens)
  <2>1. SoundStep(e, l)
    BY LoadSound
  <2> HIDE DEF l
  <2>2. Sound(l) /\ l.auto = e.auto
    BY <2>1 DEF SoundStep
  <2>3. loaded \in {l, e}
    BY DEF l
  <2> HIDE DEF loaded
  <2> QED
    BY <2>2, <2>3
<1> HIDE DEF loaded
<1>3. Keeps(loaded, played, {"out", "playback"})
  BY <1>2, SetPlaybackKeeps DEF Sound
<1> HIDE DEF played
<1>4. Keeps(played, begun, {"status"})
  BY <1>3 DEF Keeps, Shape, EngineFields
<1> HIDE DEF begun
<1>5. Keeps(loaded, begun, {"out", "playback", "status"})
  BY <1>3, <1>4 DEF Keeps, EngineFields
<1>6. Sound(begun) /\ begun.auto = e.auto
  BY <1>2, <1>5, SoundKept DEF Keeps, EngineFields
<1> QED
  BY <1>1, <1>2, <1>6

\* A call to pause.
LEMMA PauseEngineSound ==
    ASSUME NEW e, Sound(e)
    PROVE  Sound(PauseEngine(e)) /\ PauseEngine(e).auto = e.auto
<1>1. Keeps(e, SetPlayback(e, "paused"), {"out", "playback"})
  BY SetPlaybackKeeps DEF Sound
<1>2. /\ Sound(SetPlayback(e, "paused"))
      /\ SetPlayback(e, "paused").auto = e.auto
  BY <1>1, SoundKept DEF Keeps, EngineFields
<1> QED
  BY <1>2 DEF PauseEngine

\* The engine stops: nothing is prepared, attached or announced.
LEMMA StopImmediateSound ==
    ASSUME NEW e, Sound(e)
    PROVE  Sound(StopImmediate(e)) /\ StopImmediate(e).auto = e.auto
<1> DEFINE bare == [e EXCEPT !.candidate = NoTrack, !.stream = "none"]
           e1   == ClearAdvance(bare)
           e2   == ClearEnding(e1)
           e3   == ClearPrepared(e2)
           e4   == CancelJobs(e3)
           e5   == SetPlayback(e4, "stopped")
           r    == SetStatus(e5, "none")
<1>1. StopImmediate(e) = r
  BY DEF StopImmediate
<1>2. /\ Keeps(e, bare, {"candidate", "stream"})
      /\ bare.candidate = NoTrack /\ bare.stream = "none"
  BY DEF Sound, Keeps, Shape, EngineFields
<1> HIDE DEF bare
<1>3. Keeps(bare, e1, Advance)
  BY <1>2, ClearAdvanceKeeps DEF Keeps
<1> HIDE DEF e1
<1>4. Keeps(e1, e2, {"live", "latched", "ended"})
  BY <1>3, ClearEndingKeeps DEF Keeps
<1> HIDE DEF e2
<1>5. Keeps(e2, e3, {"prepared", "armed"}) /\ e3.prepared = NoPrepared /\ e3.armed = NoGapless
  BY <1>4, ClearPreparedKeeps DEF Keeps
<1> HIDE DEF e3
<1>6. Keeps(e3, e4, {"job"}) /\ e4.job = NoTrack
  BY <1>5, CancelJobsKeeps DEF Keeps
<1> HIDE DEF e4
<1>7. Keeps(e4, e5, {"out", "playback"})
  BY <1>6, SetPlaybackKeeps DEF Keeps
<1> HIDE DEF e5
<1>8. Keeps(e5, r, {"out", "status"})
  BY <1>7, SetStatusKeeps DEF Keeps
<1> HIDE DEF r
<1>9. /\ Shape(r) /\ r.auto = e.auto /\ r.candidate = NoTrack /\ r.stream = "none"
      /\ r.prepared = NoPrepared /\ r.armed = NoGapless /\ r.job = NoTrack
  BY <1>2, <1>3, <1>4, <1>5, <1>6, <1>7, <1>8 DEF Keeps, EngineFields, Advance
<1>10. Sound(r)
  BY <1>9 DEF Sound, Held, Off, NoGapless
<1> QED
  BY <1>1, <1>9, <1>10

\* A call to stop, which what the output holds may delay.
LEMMA StopEngineSound ==
    ASSUME NEW e, NEW rest, Sound(e)
    PROVE  Sound(StopEngine(e, rest)) /\ StopEngine(e, rest).auto = e.auto
<1> DEFINE waits == [e EXCEPT !.timers = @ \cup {e.gen}]
<1>1. Keeps(e, waits, {"timers"})
  BY DEF Sound, Keeps, Shape, EngineFields
<1>2. StopEngine(e, rest) \in {waits, e, StopImmediate(e)}
  BY DEF StopEngine
<1> HIDE DEF waits
<1>3. Sound(waits) /\ waits.auto = e.auto
  BY <1>1, SoundKept DEF Keeps, EngineFields
<1> QED
  BY <1>2, <1>3, StopImmediateSound

\* The timer of such a stop.
LEMMA StopTimerSound ==
    ASSUME NEW e, NEW gen, Sound(e)
    PROVE  Sound(StopTimer(e, gen)) /\ StopTimer(e, gen).auto = e.auto
<1> DEFINE fired == [e EXCEPT !.timers = @ \ {gen}]
<1>1. Keeps(e, fired, {"timers"})
  BY DEF Sound, Keeps, Shape, EngineFields
<1>2. StopTimer(e, gen) \in {fired, StopImmediate(fired)}
  BY DEF StopTimer
<1> HIDE DEF fired
<1>3. Sound(fired) /\ fired.auto = e.auto
  BY <1>1, SoundKept DEF Keeps, EngineFields
<1> QED
  BY <1>2, <1>3, StopImmediateSound

\* The current track is decoded again.
LEMMA RebuildKeeps ==
    ASSUME NEW e, NEW opens, Shape(e)
    PROVE  Keeps(e, Rebuild(e, opens), {"live", "latched", "ended", "stream", "status", "out"})
<1> DEFINE cleared == ClearEnding(e)
           body    == [cleared EXCEPT !.stream = "body", !.status = IF @ = "end" THEN "ok" ELSE @]
           none    == [cleared EXCEPT !.stream = "none"]
<1>1. Keeps(e, cleared, {"live", "latched", "ended"})
  BY ClearEndingKeeps
<1>2. Rebuild(e, opens) \in {body, SetStatus(none, "invalid")}
  BY DEF Rebuild
<1> HIDE DEF cleared
<1>3. Keeps(cleared, body, {"stream", "status"}) /\ Keeps(cleared, none, {"stream"})
  BY <1>1 DEF Keeps, Shape, EngineFields
<1> HIDE DEF body, none
<1>4. Keeps(none, SetStatus(none, "invalid"), {"out", "status"})
  BY <1>3, SetStatusKeeps DEF Keeps
<1> QED
  BY <1>1, <1>2, <1>3, <1>4 DEF Keeps, EngineFields

\* Automatic changes are switched on or off: off, nothing is left of them.
LEMMA SetAutoSound ==
    ASSUME NEW e, NEW on, NEW opens, Sound(e)
    PROVE  Sound(SetAuto(e, on, opens)) /\ SetAuto(e, on, opens).auto = on
<1> DEFINE rebuilt == IF IsArmed(e) /\ e.armed.adopted THEN Rebuild(e, opens) ELSE e
           changed == [rebuilt EXCEPT !.auto = on]
           bare    == [changed EXCEPT !.candidate = NoTrack]
           e1      == ClearAdvance(bare)
           e2      == ClearPrepared(e1)
           e3      == CancelJobs(e2)
           r       == SetAuto(e, on, opens)
<1>1. CASE e.auto = on
  BY <1>1 DEF SetAuto
<1>2. CASE e.auto # on /\ on
  <2>1. r = [e EXCEPT !.auto = on]
    BY <1>2 DEF SetAuto
  <2>2. Keeps(e, r, {"auto"}) /\ r.auto = on
    BY <2>1 DEF Sound, Keeps, Shape, EngineFields
  <2> HIDE DEF r
  <2>3. Sound(r)
    BY <1>2, <2>2 DEF Sound, Held, Off, Keeps, EngineFields
  <2> QED
    BY <2>2, <2>3 DEF r
<1>3. CASE e.auto # on /\ ~on
  <2>1. r = e3
    BY <1>3 DEF SetAuto
  <2>2. Shape(rebuilt)
    BY RebuildKeeps DEF Keeps, Sound
  <2> HIDE DEF rebuilt
  <2>3. Shape(bare) /\ bare.auto = on /\ bare.candidate = NoTrack
    BY <2>2 DEF Shape, EngineFields
  <2> HIDE DEF bare
  <2>4. Keeps(bare, e1, Advance)
    BY <2>3, ClearAdvanceKeeps
  <2> HIDE DEF e1
  <2>5. Keeps(e1, e2, {"prepared", "armed"}) /\ e2.prepared = NoPrepared /\ e2.armed = NoGapless
    BY <2>4, ClearPreparedKeeps DEF Keeps
  <2> HIDE DEF e2
  <2>6. Keeps(e2, e3, {"job"}) /\ e3.job = NoTrack
    BY <2>5, CancelJobsKeeps DEF Keeps
  <2> HIDE DEF e3
  <2>7. /\ Shape(e3) /\ e3.auto = on /\ e3.candidate = NoTrack
        /\ e3.prepared = NoPrepared /\ e3.armed = NoGapless /\ e3.job = NoTrack
    BY <2>3, <2>4, <2>5, <2>6 DEF Keeps, EngineFields, Advance
  <2>8. Sound(e3)
    BY <2>7 DEF Sound, Held, Off, NoGapless
  <2> QED
    BY <2>1, <2>7, <2>8
<1> QED
  BY <1>1, <1>2, <1>3

\* The player announces the next track, but none while it wants no automatic
\* change.
LEMMA SetCandidateSound ==
    ASSUME NEW e, NEW item, Sound(e), e.auto \/ item.track = 0
    PROVE  Sound(SetCandidate(e, item)) /\ SetCandidate(e, item).auto = e.auto
<1> DEFINE armed    == e.armed.track # 0 /\ ~Same(item, e.armed)
           disarmed == IF armed THEN Disarm(e) ELSE e
           named    == [disarmed EXCEPT !.candidate = item, !.requested = FALSE]
           set      == CancelJobs(named)
           r        == SetCandidate(e, item)
<1>1. CASE ~e.auto
  <2>1. Same(item, e.candidate)
    BY <1>1 DEF Sound, Off, Same, NoTrack
  <2> QED
    BY <2>1 DEF SetCandidate
<1>2. CASE e.auto
  <2>1. r \in {e, set, ClearPrepared(set)}
    BY DEF SetCandidate
  <2>2. Keeps(e, disarmed, {"prepared", "armed"}) /\ Held(disarmed)
    <3>1. CASE armed
      BY <3>1, DisarmKeeps DEF Sound, Held, Keeps, EngineFields
    <3>2. CASE ~armed
      BY <3>2 DEF Sound, Keeps
    <3> QED
      BY <3>1, <3>2
  <2> HIDE DEF disarmed
  <2>3. Keeps(disarmed, named, {"candidate", "requested"})
    BY <2>2 DEF Keeps, Shape, EngineFields
  <2> HIDE DEF named
  <2>4. Keeps(named, set, {"job"}) /\ set.job = NoTrack
    BY <2>3, CancelJobsKeeps DEF Keeps
  <2> HIDE DEF set
  <2>5. Keeps(set, ClearPrepared(set), {"prepared", "armed"})
        /\ ClearPrepared(set).prepared = NoPrepared /\ ClearPrepared(set).armed = NoGapless
    BY <2>4, ClearPreparedKeeps DEF Keeps
  <2>6. Shape(set) /\ Held(set) /\ set.auto = e.auto
    BY <2>2, <2>3, <2>4 DEF Held, NoTrack, Keeps, EngineFields
  <2>7. Shape(ClearPrepared(set)) /\ Held(ClearPrepared(set)) /\ ClearPrepared(set).auto = e.auto
    BY <2>5, <2>6 DEF Held, NoGapless, Keeps, EngineFields
  <2>8. Shape(r) /\ Held(r) /\ r.auto = e.auto
    BY <2>1, <2>6, <2>7 DEF Sound
  <2> HIDE DEF r
  <2> QED
    BY <1>2, <2>8 DEF Sound, Off, r
<1> QED
  BY <1>1, <1>2

\* The player asks for the preparation of a track.
LEMMA PrepareNextSound ==
    ASSUME NEW e, NEW item, Sound(e), e.auto \/ item.track = 0
    PROVE  Sound(PrepareNext(e, item)) /\ PrepareNext(e, item).auto = e.auto
<1> DEFINE idle == CancelJobs(e)
           gone == ClearPrepared(idle)
           new  == EnsurePrepared(e, item)
<1>1. Sound(gone) /\ gone.auto = e.auto
  <2>1. Keeps(e, idle, {"job"}) /\ idle.job = NoTrack
    BY CancelJobsKeeps DEF Sound
  <2> HIDE DEF idle
  <2>2. /\ Keeps(idle, gone, {"prepared", "armed"})
        /\ gone.prepared = NoPrepared /\ gone.armed = NoGapless
    BY <2>1, ClearPreparedKeeps DEF Keeps
  <2> HIDE DEF gone
  <2>3. /\ Shape(gone) /\ gone.auto = e.auto /\ gone.job = NoTrack
        /\ gone.candidate = e.candidate /\ gone.live = e.live /\ gone.mode = e.mode
        /\ gone.stream = e.stream
    BY <2>1, <2>2 DEF Keeps, EngineFields
  <2> QED
    BY <2>2, <2>3 DEF Sound, Held, Off, Effective, NoGapless
<1>2. ASSUME item.track # 0
      PROVE  Sound(new) /\ new.auto = e.auto
  <2>1. /\ Keeps(e, new, {"prepared", "armed", "job"})
        /\ new = e \/ (new.armed = NoGapless /\ new.prepared = NoPrepared)
    BY EnsurePreparedKeeps DEF Sound
  <2> HIDE DEF new
  <2>2. Shape(new) /\ new.auto = e.auto
    BY <2>1 DEF Keeps, EngineFields
  <2>3. Held(new)
    BY <2>1 DEF Sound, Held, NoGapless
  <2>4. Off(new)
    BY <1>2, <2>2 DEF Off
  <2> QED
    BY <2>2, <2>3, <2>4 DEF Sound
<1>3. \/ PrepareNext(e, item) = Unready(gone, item)
      \/ item.track # 0 /\ PrepareNext(e, item) \in {Unready(e, item), new}
  BY PrepareNextCases
<1> HIDE DEF gone, new
<1> QED
  BY <1>1, <1>2, <1>3, UnreadySound

\* A call of the handler, as far as the engine minds.
CallOk(c, auto) ==
    /\ c.call \in {"load", "play", "pause", "stop", "auto", "candidate", "prepare"}
    /\ c.call \in {"candidate", "prepare"} => auto \/ c.item.track = 0

\* Whatever call the engine runs, what it has attached stays what it prepared,
\* and only the call that switches automatic changes changes that switch.
LEMMA RunSound ==
    ASSUME NEW e, NEW c, NEW opens, NEW rest, Sound(e), CallOk(c, e.auto)
    PROVE  /\ Sound(Run(e, c, opens, rest))
           /\ Run(e, c, opens, rest).auto = IF c.call = "auto" THEN c.on ELSE e.auto
<1>1. CASE c.call = "load"
  BY <1>1, LoadSound DEF Run, SoundStep
<1>2. CASE c.call = "play"
  BY <1>2, PlayEngineSound DEF Run
<1>3. CASE c.call = "pause"
  BY <1>3, PauseEngineSound DEF Run
<1>4. CASE c.call = "stop"
  BY <1>4, StopEngineSound DEF Run
<1>5. CASE c.call = "auto"
  BY <1>5, SetAutoSound DEF Run
<1>6. CASE c.call = "candidate"
  BY <1>6, SetCandidateSound DEF Run, CallOk
<1>7. CASE c.call = "prepare"
  BY <1>7, PrepareNextSound DEF Run, CallOk
<1> QED
  BY <1>1, <1>2, <1>3, <1>4, <1>5, <1>6, <1>7 DEF CallOk

-----------------------------------------------------------------------------
(* The player's side: what it tells the engine.                             *)

MainFields ==
    {"play", "current", "request", "manual", "upcoming", "resume", "queue", "index", "atEnd",
     "armed", "gapless", "change", "changeGen", "heard", "owned", "suppressed", "watchdog",
     "ending", "timers", "pool", "out"}

\* A call that the engine knows.
CallKnown(c) ==
    /\ c.call \in {"load", "play", "pause", "stop", "auto", "candidate", "prepare"}
    /\ c.call = "auto" => c.on \in BOOLEAN

\* The j-th of the calls is the last before the k-th that switches automatic
\* changes.
LastSwitch(out, k, j) ==
    /\ j \in 1 .. k - 1 /\ out[j].call = "auto"
    /\ \A i \in j + 1 .. k - 1 : out[i].call # "auto"

\* Automatic changes are on when the k-th call runs.
OnAt(out, auto, k) ==
    \/ auto /\ \A i \in 1 .. k - 1 : out[i].call # "auto"
    \/ \E j \in 1 .. k - 1 : LastSwitch(out, k, j) /\ out[j].on

Names(c) == c.call \in {"candidate", "prepare"} /\ c.item.track # 0

(***************************************************************************)
(* With the calls on their way, the engine will hear whether the player wants  *)
(* automatic changes; a next track is named only where they are on; and with   *)
(* the stop after the current track armed the player knows of no next track.   *)
(***************************************************************************)
Told(m, auto) ==
    /\ DOMAIN m = MainFields /\ IsSeq(m.out) /\ auto \in BOOLEAN /\ m.armed \in BOOLEAN
    /\ \A k \in 1 .. Len(m.out) :
           CallKnown(m.out[k]) /\ (Names(m.out[k]) => OnAt(m.out, auto, k))
    /\ OnAt(m.out, auto, Len(m.out) + 1) <=> ~m.armed

Tells(m, auto) ==
    /\ Told(m, auto)
    /\ m.armed => m.upcoming.track = 0

\* A call that is added changes nothing for those before it.
LEMMA OnAtAppend ==
    ASSUME NEW out, NEW x, NEW auto, NEW k \in 1 .. Len(out) + 1, IsSeq(out)
    PROVE  OnAt(Append(out, x), auto, k) <=> OnAt(out, auto, k)
<1>1. Len(out) \in Nat /\ \A i \in 1 .. Len(out) : Append(out, x)[i] = out[i]
  BY AppendSeq
<1>2. \A i \in 1 .. k - 1 : i \in 1 .. Len(out)
  BY <1>1
<1>3. \A i \in 1 .. k - 1 : Append(out, x)[i] = out[i]
  BY <1>1, <1>2
<1>4. \A j \in 1 .. k - 1 : LastSwitch(Append(out, x), k, j) <=> LastSwitch(out, k, j)
  <2>1. SUFFICES ASSUME NEW j \in 1 .. k - 1
                 PROVE  LastSwitch(Append(out, x), k, j) <=> LastSwitch(out, k, j)
    OBVIOUS
  <2>2. \A i \in j + 1 .. k - 1 : i \in 1 .. k - 1
    OBVIOUS
  <2> QED
    BY <1>3, <2>2 DEF LastSwitch
<1> QED
  BY <1>3, <1>4 DEF OnAt

\* After the call that is added, automatic changes are as before, or as it says.
LEMMA OnAtAppended ==
    ASSUME NEW out, NEW x, NEW auto, IsSeq(out)
    PROVE  OnAt(Append(out, x), auto, Len(out) + 2)
             <=> IF x.call = "auto" THEN x.on ELSE OnAt(out, auto, Len(out) + 1)
<1> DEFINE n == Len(out)
           s == Append(out, x)
<1>1. n \in Nat /\ s[n + 1] = x /\ \A i \in 1 .. n : s[i] = out[i]
  BY AppendSeq
<1> HIDE DEF n, s
<1>2. (n + 2) - 1 = n + 1 /\ (n + 1) - 1 = n
  BY <1>1
<1>3. CASE x.call = "auto"
  <2>1. LastSwitch(s, n + 2, n + 1)
    BY <1>1, <1>2, <1>3 DEF LastSwitch
  <2>2. ASSUME NEW j \in 1 .. (n + 2) - 1, LastSwitch(s, n + 2, j)
        PROVE  j = n + 1
    BY <1>1, <1>2, <1>3, <2>2 DEF LastSwitch
  <2>3. n + 1 \in 1 .. (n + 2) - 1
    BY <1>1
  <2>4. ~\A i \in 1 .. (n + 2) - 1 : s[i].call # "auto"
    BY <1>1, <1>3, <2>3
  <2>5. OnAt(s, auto, n + 2) <=> x.on
    BY <1>1, <2>1, <2>2, <2>3, <2>4 DEF OnAt
  <2> QED
    BY <1>3, <2>5 DEF n, s
<1>4. CASE x.call # "auto"
  <2>1. \A j \in 1 .. n + 1 : LastSwitch(s, n + 2, j) <=> j \in 1 .. n /\ LastSwitch(out, n + 1, j)
    <3> SUFFICES ASSUME NEW j \in 1 .. n + 1
                 PROVE  LastSwitch(s, n + 2, j) <=> j \in 1 .. n /\ LastSwitch(out, n + 1, j)
      OBVIOUS
    <3>1. CASE j = n + 1
      BY <1>1, <1>4, <3>1 DEF LastSwitch
    <3>2. CASE j \in 1 .. n
      <4>1. s[j] = out[j]
        BY <1>1, <3>2
      <4>2. (\A i \in j + 1 .. n + 1 : s[i].call # "auto")
              <=> (\A i \in j + 1 .. n : out[i].call # "auto")
        BY <1>1, <1>4, <3>2
      <4> QED
        BY <1>2, <3>2, <4>1, <4>2 DEF LastSwitch
    <3> QED
      BY <1>1, <3>1, <3>2
  <2>2. (\A i \in 1 .. n + 1 : s[i].call # "auto") <=> (\A i \in 1 .. n : out[i].call # "auto")
    BY <1>1, <1>4
  <2>3. \A j \in 1 .. n : j \in 1 .. n + 1 /\ s[j] = out[j]
    BY <1>1
  <2>4. OnAt(s, auto, n + 2) <=> OnAt(out, auto, n + 1)
    BY <1>2, <2>1, <2>2, <2>3 DEF OnAt
  <2> QED
    BY <1>4, <2>4 DEF n, s
<1> QED
  BY <1>3, <1>4

\* Once the first call has run, the others find what they would have found.
LEMMA OnAtTail ==
    ASSUME NEW out, NEW auto, IsSeq(out), out # <<>>, NEW k \in 1 .. Len(out),
           NEW now, now = IF out[1].call = "auto" THEN out[1].on ELSE auto
    PROVE  OnAt(Tail(out), now, k) <=> OnAt(out, auto, k + 1)
<1> DEFINE s == Tail(out)
           n == Len(out)
<1>1. n \in Nat \ {0} /\ \A i \in 1 .. n - 1 : s[i] = out[i + 1]
  BY TailSeq
<1> HIDE DEF s, n
<1>2. k \in Nat /\ k \in 1 .. n /\ (k + 1) - 1 = k
  BY <1>1 DEF n
<1>3. \A i \in 1 .. k - 1 : s[i] = out[i + 1]
  BY <1>1, <1>2
<1>4. \A j \in 1 .. k - 1 : LastSwitch(s, k, j) <=> LastSwitch(out, k + 1, j + 1)
  <2> SUFFICES ASSUME NEW j \in 1 .. k - 1
               PROVE  LastSwitch(s, k, j) <=> LastSwitch(out, k + 1, j + 1)
    OBVIOUS
  <2>1. s[j] = out[j + 1] /\ j \in Nat
    BY <1>2, <1>3
  <2>2. ASSUME \A i \in j + 1 .. k - 1 : s[i].call # "auto",
               NEW i \in (j + 1) + 1 .. k
        PROVE  out[i].call # "auto"
    <3>1. i - 1 \in j + 1 .. k - 1 /\ i - 1 \in 1 .. k - 1 /\ (i - 1) + 1 = i
      BY <1>2, <2>1
    <3> QED
      BY <1>3, <2>2, <3>1
  <2>3. ASSUME \A i \in (j + 1) + 1 .. k : out[i].call # "auto",
               NEW i \in j + 1 .. k - 1
        PROVE  s[i].call # "auto"
    <3>1. i + 1 \in (j + 1) + 1 .. k /\ i \in 1 .. k - 1
      BY <1>2, <2>1
    <3> QED
      BY <1>3, <2>3, <3>1
  <2>4. j + 1 \in 1 .. k
    BY <1>2
  <2> QED
    BY <1>2, <2>1, <2>2, <2>3, <2>4 DEF LastSwitch
<1>5. LastSwitch(out, k + 1, 1) <=>
        out[1].call = "auto" /\ \A i \in 1 .. k - 1 : s[i].call # "auto"
  <2>1. (\A i \in 1 + 1 .. k : out[i].call # "auto") <=> (\A i \in 1 .. k - 1 : s[i].call # "auto")
    <3>1. ASSUME \A i \in 1 .. k - 1 : s[i].call # "auto", NEW i \in 1 + 1 .. k
          PROVE  out[i].call # "auto"
      <4>1. i - 1 \in 1 .. k - 1 /\ (i - 1) + 1 = i
        BY <1>2
      <4> QED
        BY <1>3, <3>1, <4>1
    <3>2. ASSUME \A i \in 1 + 1 .. k : out[i].call # "auto", NEW i \in 1 .. k - 1
          PROVE  s[i].call # "auto"
      <4>1. i + 1 \in 1 + 1 .. k
        BY <1>2
      <4> QED
        BY <1>3, <3>2, <4>1
    <3> QED
      BY <3>1, <3>2
  <2>2. 1 \in 1 .. k
    BY <1>2
  <2> QED
    BY <1>2, <2>1, <2>2 DEF LastSwitch
<1>6. (\A i \in 1 .. k : out[i].call # "auto") <=>
        out[1].call # "auto" /\ \A i \in 1 .. k - 1 : s[i].call # "auto"
  <2>1. ASSUME out[1].call # "auto", \A i \in 1 .. k - 1 : s[i].call # "auto", NEW i \in 1 .. k
        PROVE  out[i].call # "auto"
    <3>1. CASE i = 1
      BY <2>1, <3>1
    <3>2. CASE i # 1
      <4>1. i - 1 \in 1 .. k - 1 /\ (i - 1) + 1 = i
        BY <1>2, <3>2
      <4> QED
        BY <1>3, <2>1, <4>1
    <3> QED
      BY <3>1, <3>2
  <2>2. 1 \in 1 .. k /\ \A i \in 1 .. k - 1 : i + 1 \in 1 .. k
    BY <1>2
  <2> QED
    BY <1>3, <2>1, <2>2
<1>7. (\E j \in 1 .. k : LastSwitch(out, k + 1, j) /\ out[j].on) <=>
        \/ LastSwitch(out, k + 1, 1) /\ out[1].on
        \/ \E j \in 1 .. k - 1 : LastSwitch(s, k, j) /\ s[j].on
  <2>1. ASSUME NEW j \in 1 .. k, LastSwitch(out, k + 1, j), out[j].on, j # 1
        PROVE  \E i \in 1 .. k - 1 : LastSwitch(s, k, i) /\ s[i].on
    <3>1. j - 1 \in 1 .. k - 1 /\ (j - 1) + 1 = j
      BY <1>2, <2>1
    <3> QED
      BY <1>3, <1>4, <2>1, <3>1
  <2>2. 1 \in 1 .. k /\ \A j \in 1 .. k - 1 : j + 1 \in 1 .. k
    BY <1>2
  <2> QED
    BY <1>3, <1>4, <2>1, <2>2
<1> QED
  BY <1>2, <1>5, <1>6, <1>7 DEF OnAt, s

\* r differs from m in the fields X at most.
MKeeps(m, r, X) ==
    /\ DOMAIN r = MainFields
    /\ \A f \in MainFields \ X : r[f] = m[f]

Silent == MainFields \ {"out", "armed", "upcoming"}

\* A step that tells nothing.
LEMMA TellsKept ==
    ASSUME NEW m, NEW r, NEW auto, Tells(m, auto), MKeeps(m, r, Silent)
    PROVE  Tells(r, auto)
<1>1. r.out = m.out /\ r.armed = m.armed /\ r.upcoming = m.upcoming /\ DOMAIN r = MainFields
  BY DEF MKeeps, Silent, MainFields
<1> QED
  BY <1>1 DEF Tells, Told

\* A call that switches nothing.
LEMMA SendTold ==
    ASSUME NEW m, NEW c, NEW auto, Told(m, auto), CallKnown(c), c.call # "auto",
           Names(c) => ~m.armed
    PROVE  Told(Send(m, c), auto) /\ MKeeps(m, Send(m, c), {"out"})
<1> DEFINE out == Append(m.out, c)
           n   == Len(m.out)
           r   == Send(m, c)
<1>1. r.out = out /\ r.armed = m.armed /\ r.upcoming = m.upcoming /\ DOMAIN r = MainFields
      /\ MKeeps(m, r, {"out"})
  BY DEF Send, MKeeps, MainFields, Told
<1>2. IsSeq(m.out)
  BY DEF Told
<1>3. /\ IsSeq(out) /\ Len(out) = n + 1 /\ n \in Nat
      /\ \A k \in 1 .. n : out[k] = m.out[k]
      /\ out[n + 1] = c
  BY <1>2, AppendSeq
<1>4. \A k \in 1 .. n + 1 : OnAt(out, auto, k) <=> OnAt(m.out, auto, k)
  BY <1>2, OnAtAppend
<1>5. OnAt(out, auto, n + 2) <=> OnAt(m.out, auto, n + 1)
  BY <1>2, OnAtAppended
<1> HIDE DEF out, r
<1>6. Len(out) + 1 = n + 2
  BY <1>3
<1> HIDE DEF n
<1>7. ASSUME NEW k \in 1 .. Len(out)
      PROVE  CallKnown(out[k]) /\ (Names(out[k]) => OnAt(out, auto, k))
  <2>1. CASE k = n + 1
    <3>1. n + 1 \in 1 .. n + 1
      BY <1>3
    <3>2. OnAt(out, auto, n + 1) <=> ~m.armed
      BY <1>4, <3>1 DEF Told, n
    <3> QED
      BY <1>3, <2>1, <3>2
  <2>2. CASE k # n + 1
    <3>1. k \in 1 .. n /\ k \in 1 .. n + 1
      BY <1>3, <2>2
    <3>2. CallKnown(m.out[k]) /\ (Names(m.out[k]) => OnAt(m.out, auto, k))
      BY <3>1 DEF Told, n
    <3> QED
      BY <1>3, <1>4, <3>1, <3>2
  <2> QED
    BY <2>1, <2>2
<1>8. OnAt(out, auto, Len(out) + 1) <=> ~m.armed
  BY <1>5, <1>6 DEF Told, n
<1>9. Told(r, auto)
  BY <1>1, <1>3, <1>7, <1>8 DEF Told
<1> QED
  BY <1>1, <1>9 DEF r

\* A call that does not switch automatic changes, and names a next track only
\* while they are wanted, keeps what the engine is told true.
LEMMA SendTells ==
    ASSUME NEW m, NEW c, NEW auto, Tells(m, auto), CallKnown(c), c.call # "auto",
           Names(c) => ~m.armed
    PROVE  Tells(Send(m, c), auto) /\ MKeeps(m, Send(m, c), {"out"})
<1> DEFINE r == Send(m, c)
<1>1. Told(r, auto) /\ MKeeps(m, r, {"out"})
  BY SendTold DEF Tells
<1> HIDE DEF r
<1>2. r.armed = m.armed /\ r.upcoming = m.upcoming
  BY <1>1 DEF MKeeps, MainFields
<1> QED
  BY <1>1, <1>2 DEF Tells, r

\* The next track is announced: none while the stop after the current one is
\* armed.
LEMMA EmitUpcomingTells ==
    ASSUME NEW m, NEW auto, Told(m, auto)
    PROVE  Tells(EmitUpcoming(m), auto)
<1> DEFINE next  == ResolveUpcoming(m)
           reuse == /\ m.upcoming.track = next.track
                    /\ <<m.upcoming.queued, m.upcoming.qid>> = <<next.queued, next.qid>>
                    /\ m.upcoming.item \notin {0, m.current.item}
           item  == IF next.track = 0 THEN 0
                    ELSE IF reuse THEN m.upcoming.item ELSE Min(m.pool)
           up    == [next EXCEPT !.item = item]
           c     == [m EXCEPT !.upcoming = up, !.pool = @ \ {item}]
           call  == [call |-> "candidate", item |-> Item(up)]
<1>1. EmitUpcoming(m) = IF up = m.upcoming THEN m ELSE Send(c, call)
  BY DEF EmitUpcoming
<1> HIDE DEF item
<1>2. m.armed => up.track = 0
  BY DEF ResolveUpcoming, NoOccurrence
<1>3. call.call = "candidate" /\ call.item.track = up.track
  BY DEF Item
<1> HIDE DEF next, up
<1>4. MKeeps(m, c, {"upcoming", "pool"}) /\ c.upcoming = up
  BY DEF Told, MKeeps, MainFields
<1> HIDE DEF c, call
<1>5. c.out = m.out /\ c.armed = m.armed /\ DOMAIN c = MainFields
  BY <1>4 DEF MKeeps, MainFields
<1>6. Tells(c, auto)
  BY <1>2, <1>4, <1>5 DEF Told, Tells
<1>7. CallKnown(call) /\ (Names(call) => ~c.armed)
  BY <1>2, <1>3, <1>5 DEF CallKnown, Names
<1>8. Tells(Send(c, call), auto)
  BY <1>3, <1>6, <1>7, SendTells
<1>9. up = m.upcoming => Tells(m, auto)
  BY <1>2 DEF Tells
<1> QED
  BY <1>1, <1>8, <1>9

-----------------------------------------------------------------------------
(* The player's operations: none of them tells the engine anything else about   *)
(* automatic changes.                                                        *)

\* The handler forgets what it knows of an end or a change of track.
LEMMA ForgetTells ==
    ASSUME NEW m, NEW auto, Tells(m, auto)
    PROVE  /\ Tells(ForgetEnding(m), auto) /\ Tells(ForgetOwned(m), auto)
           /\ Tells(ForgetTransitions(m), auto) /\ Tells(ForgetChange(m), auto)
<1>1. ASSUME NEW r, Tells(r, auto)
      PROVE  Tells(ForgetEnding(r), auto) /\ Tells(ForgetOwned(r), auto)
             /\ Tells(ForgetChange(r), auto)
  <2>1. MKeeps(r, ForgetEnding(r), Silent)
    BY <1>1 DEF ForgetEnding, MKeeps, MainFields, Silent, Tells, Told
  <2>2. MKeeps(r, ForgetOwned(r), Silent)
    BY <1>1 DEF ForgetOwned, MKeeps, MainFields, Silent, Tells, Told
  <2>3. MKeeps(r, ForgetChange(r), Silent)
    BY <1>1 DEF ForgetChange, MKeeps, MainFields, Silent, Tells, Told
  <2> QED
    BY <1>1, <2>1, <2>2, <2>3, TellsKept
<1> QED
  BY <1>1 DEF ForgetTransitions

\* The player asks for a track: it is announced, and nothing else changes.
LEMMA RequestTells ==
    ASSUME NEW m, NEW o, NEW manual, NEW auto, Tells(m, auto)
    PROVE  Tells(RequestTrackChange(m, o, manual), auto)
<1> DEFINE item == Min(m.pool)
           r    == [track |-> o.track, item |-> item, queued |-> o.queued, qid |-> o.qid,
                    manual |-> manual]
           forgotten == m.play = "stopped" /\ m.current.track # o.track
           c    == [m EXCEPT !.request = r, !.manual = manual, !.pool = @ \ {item},
                             !.current = IF forgotten THEN NoOccurrence ELSE @]
           f    == ForgetTransitions(c)
           h    == [f EXCEPT !.change = r, !.changeGen = 0]
           call == [call |-> "load", item |-> Item(r), manual |-> r.manual]
<1>1. RequestTrackChange(m, o, manual) = Send(h, call)
  BY DEF RequestTrackChange, HandleRequest
<1> HIDE DEF r, item, forgotten
<1>2. MKeeps(m, c, Silent)
  BY DEF MKeeps, MainFields, Silent, Tells, Told
<1> HIDE DEF c
<1>3. Tells(f, auto)
  BY <1>2, TellsKept, ForgetTells
<1> HIDE DEF f
<1>4. MKeeps(f, h, Silent)
  BY <1>3 DEF MKeeps, MainFields, Silent, Tells, Told
<1>5. CallKnown(call) /\ call.call # "auto" /\ ~Names(call)
  BY DEF CallKnown, Names
<1> HIDE DEF h, call
<1>6. Tells(h, auto)
  BY <1>3, <1>4, TellsKept
<1> QED
  BY <1>1, <1>5, <1>6, SendTells

\* The player asks for the selected track.
LEMMA RequestSelectedTells ==
    ASSUME NEW m, NEW o, NEW manual, NEW auto, Tells(m, auto)
    PROVE  Tells(RequestSelected(m, o, manual), auto)
BY RequestTells DEF RequestSelected

\* The playlist starts again from its beginning.
LEMMA RestartTells ==
    ASSUME NEW m, NEW manual, NEW auto, Tells(m, auto)
    PROVE  Tells(RestartPlaylist(m, manual), auto)
<1> DEFINE c == [m EXCEPT !.index = 1, !.atEnd = FALSE]
<1>1. MKeeps(m, c, Silent)
  BY DEF MKeeps, MainFields, Silent, Tells, Told
<1> HIDE DEF c
<1>2. Tells(c, auto)
  BY <1>1, TellsKept
<1> QED
  BY <1>2, RequestSelectedTells DEF RestartPlaylist, c

\* The player stops, and the engine is told to.
LEMMA EnterStoppedTells ==
    ASSUME NEW m, NEW transport, NEW auto, Tells(m, auto)
    PROVE  Tells(EnterStopped(m, transport), auto)
<1> DEFINE s    == [m EXCEPT !.play = "stopped"]
           call == [call |-> "stop"]
<1>1. MKeeps(m, s, Silent)
  BY DEF MKeeps, MainFields, Silent, Tells, Told
<1>2. CallKnown(call) /\ call.call # "auto" /\ ~Names(call)
  BY DEF CallKnown, Names
<1>3. EnterStopped(m, transport) \in {m, s, Send(s, call)}
  BY DEF EnterStopped
<1> HIDE DEF s, call
<1>4. Tells(s, auto)
  BY <1>1, TellsKept
<1> QED
  BY <1>2, <1>3, <1>4, SendTells

\* stop() of the player.
LEMMA StopTells ==
    ASSUME NEW m, NEW auto, Tells(m, auto)
    PROVE  Tells(Stop(m), auto) /\ Tells(StopAtEnd(m), auto)
<1> DEFINE s == [m EXCEPT !.atEnd = TRUE]
<1>1. MKeeps(m, s, Silent)
  BY DEF MKeeps, MainFields, Silent, Tells, Told
<1> HIDE DEF s
<1>2. Tells(s, auto)
  BY <1>1, TellsKept
<1>3. \A n : Tells(n, auto) => Tells(Stop(n), auto)
  BY EnterStoppedTells DEF Stop
<1> QED
  BY <1>2, <1>3 DEF StopAtEnd, s

\* The player gives up the current track.
LEMMA ResetTells ==
    ASSUME NEW m, NEW auto, Tells(m, auto)
    PROVE  Tells(Reset(m), auto)
<1> DEFINE s == [m EXCEPT !.current = NoOccurrence, !.atEnd = FALSE, !.request = NoRequest,
                          !.manual = FALSE]
<1>1. MKeeps(m, s, Silent)
  BY DEF MKeeps, MainFields, Silent, Tells, Told
<1> HIDE DEF s
<1>2. Tells(s, auto)
  BY <1>1, TellsKept
<1> QED
  BY <1>2, EmitUpcomingTells DEF Reset, s, Tells

\* play() of the player.
LEMMA PlayTells ==
    ASSUME NEW m, NEW auto, Tells(m, auto)
    PROVE  Tells(Play(m), auto)
<1> DEFINE selected ==
              IF /\ m.play = "stopped" /\ m.atEnd
                 /\ m.current.track # 0 /\ ~Requested(m) /\ FromList(m)
              THEN RestartPlaylist(m, m.manual)
              ELSE IF Idle(m) THEN RequestSelected(MoveFromIdle(m), FromIdle(m), m.manual)
              ELSE m
           c    == [selected EXCEPT !.play = "playing"]
           call == [call |-> "play"]
<1>1. Play(m) \in {selected, Send(c, call)}
  BY DEF Play
<1>2. Tells(selected, auto)
  <2>1. MKeeps(m, MoveFromIdle(m), Silent)
    BY DEF MoveFromIdle, MKeeps, MainFields, Silent, Tells, Told
  <2>2. Tells(MoveFromIdle(m), auto)
    BY <2>1, TellsKept
  <2> QED
    BY <2>2, RestartTells, RequestSelectedTells
<1> HIDE DEF selected
<1>3. MKeeps(selected, c, Silent)
  BY <1>2 DEF MKeeps, MainFields, Silent, Tells, Told
<1>4. CallKnown(call) /\ call.call # "auto" /\ ~Names(call)
  BY DEF CallKnown, Names
<1> HIDE DEF c, call
<1>5. Tells(c, auto)
  BY <1>2, <1>3, TellsKept
<1> QED
  BY <1>1, <1>2, <1>4, <1>5, SendTells

\* pause() of the player.
LEMMA PauseTells ==
    ASSUME NEW m, NEW auto, Tells(m, auto)
    PROVE  Tells(Pause(m), auto)
<1> DEFINE c    == [m EXCEPT !.play = "paused"]
           call == [call |-> "pause"]
<1>1. Pause(m) \in {m, Send(c, call)}
  BY DEF Pause
<1>2. MKeeps(m, c, Silent)
  BY DEF MKeeps, MainFields, Silent, Tells, Told
<1>3. CallKnown(call) /\ call.call # "auto" /\ ~Names(call)
  BY DEF CallKnown, Names
<1> HIDE DEF c, call
<1>4. Tells(c, auto)
  BY <1>2, TellsKept
<1> QED
  BY <1>1, <1>3, <1>4, SendTells

\* PlayOrStop and PlayPause: one of the three before.
LEMMA PlayOrTells ==
    ASSUME NEW m, NEW auto, Tells(m, auto)
    PROVE  Tells(PlayOrStop(m), auto) /\ Tells(PlayPause(m), auto)
BY PlayTells, PauseTells, StopTells DEF PlayOrStop, PlayPause

\* The position in the playlist moves on, which tells the engine nothing.
LEMMA MoveTells ==
    ASSUME NEW m, NEW auto, Tells(m, auto)
    PROVE  Tells(MoveInOrder(m), auto)
<1>1. MKeeps(m, MoveInOrder(m), Silent)
  BY DEF MoveInOrder, MKeeps, MainFields, Silent, Tells, Told
<1> QED
  BY <1>1, TellsKept

\* A track ends after which playback is to stop: the next one becomes the one
\* to resume with.
LEMMA StopAfterCurrentTells ==
    ASSUME NEW m, NEW auto, Tells(m, auto)
    PROVE  Tells(StopAfterCurrent(m), auto)
<1> DEFINE moved == MoveInOrder(m)
           c     == [moved EXCEPT !.resume = FollowingTrack(m)]
<1>1. Tells(moved, auto)
  BY MoveTells
<1> HIDE DEF moved
<1>2. MKeeps(moved, c, Silent)
  BY <1>1 DEF MKeeps, MainFields, Silent, Tells, Told
<1> HIDE DEF c
<1>3. Tells(c, auto)
  BY <1>1, <1>2, TellsKept
<1>4. StopAfterCurrent(m) \in {Stop(Reset(m)), StopAtEnd(m), Stop(Reset(c))}
  BY DEF StopAfterCurrent, c, moved
<1>5. Tells(Reset(m), auto) /\ Tells(Reset(c), auto)
  BY <1>3, ResetTells
<1>6. Tells(Stop(Reset(m)), auto) /\ Tells(Stop(Reset(c)), auto) /\ Tells(StopAtEnd(m), auto)
  BY <1>5, StopTells
<1> QED
  BY <1>4, <1>6

\* The end of a track.
LEMMA AdvanceTells ==
    ASSUME NEW m0, NEW auto, Tells(m0, auto)
    PROVE  Tells(AdvanceNaturally(m0), auto)
<1> DEFINE m  == [m0 EXCEPT !.manual = FALSE]
           at == [m EXCEPT !.index = m.resume]
           r1 == RequestSelected(at, FromPlaylist(m.resume), FALSE)
           r2 == RequestSelected(MoveInOrder(m), InOrder(m), FALSE)
<1>1. AdvanceNaturally(m0) \in {StopAfterCurrent(m), StopAtEnd(m), PlayOrStop(m),
                                PlayOrStop(r1), PlayOrStop(r2)}
  BY DEF AdvanceNaturally
<1>2. MKeeps(m0, m, Silent)
  BY DEF MKeeps, MainFields, Silent, Tells, Told
<1> HIDE DEF m
<1>3. Tells(m, auto)
  BY <1>2, TellsKept
<1>4. MKeeps(m, at, Silent)
  BY <1>3 DEF MKeeps, MainFields, Silent, Tells, Told
<1> HIDE DEF at
<1>5. Tells(at, auto)
  BY <1>3, <1>4, TellsKept
<1>6. Tells(r1, auto)
  BY <1>5, RequestSelectedTells
<1>7. Tells(r2, auto)
  BY <1>3, MoveTells, RequestSelectedTells
<1> HIDE DEF r1, r2
<1>8. /\ Tells(PlayOrStop(m), auto) /\ Tells(PlayOrStop(r1), auto) /\ Tells(PlayOrStop(r2), auto)
  BY <1>3, <1>6, <1>7, PlayOrTells
<1>9. Tells(StopAfterCurrent(m), auto) /\ Tells(StopAtEnd(m), auto)
  BY <1>3, StopAfterCurrentTells, StopTells
<1> QED
  BY <1>1, <1>8, <1>9

\* The commands of the user.
LEMMA SkipTells ==
    ASSUME NEW m0, NEW auto, Tells(m0, auto)
    PROVE  Tells(SkipToNext(m0), auto)
<1> DEFINE m       == [m0 EXCEPT !.manual = TRUE]
           resumed == IF m.resume = 0 THEN m ELSE [m EXCEPT !.index = m.resume, !.resume = 0]
           moved   == MoveInOrder(resumed)
           r1      == RestartPlaylist(m, TRUE)
           r2      == RequestSelected(moved, InOrder(resumed), TRUE)
<1>1. SkipToNext(m0) \in {PlayOrStop(r1), Play(m), PlayOrStop(r2), moved, StopAtEnd(moved)}
  BY DEF SkipToNext
<1>2. MKeeps(m0, m, Silent)
  BY DEF MKeeps, MainFields, Silent, Tells, Told
<1> HIDE DEF m
<1>3. Tells(m, auto)
  BY <1>2, TellsKept
<1>4. MKeeps(m, resumed, Silent)
  BY <1>3 DEF MKeeps, MainFields, Silent, Tells, Told
<1> HIDE DEF resumed
<1>5. Tells(moved, auto)
  BY <1>3, <1>4, TellsKept, MoveTells
<1> HIDE DEF moved
<1>6. Tells(r1, auto) /\ Tells(r2, auto)
  BY <1>3, <1>5, RestartTells, RequestSelectedTells
<1> HIDE DEF r1, r2
<1>7. /\ Tells(PlayOrStop(r1), auto) /\ Tells(PlayOrStop(r2), auto)
      /\ Tells(Play(m), auto) /\ Tells(StopAtEnd(moved), auto)
  BY <1>3, <1>5, <1>6, PlayOrTells, PlayTells, StopTells
<1> QED
  BY <1>1, <1>5, <1>7

\* The user chooses a track of the playlist.
LEMMA SelectTells ==
    ASSUME NEW m, NEW i, NEW auto, Tells(m, auto)
    PROVE  Tells(Select(m, i), auto)
<1> DEFINE c      == [m EXCEPT !.index = i]
           queued == \E k \in DOMAIN m.queue : m.queue[k].track = i
           o      == [FromPlaylist(i) EXCEPT !.queued = queued]
           r      == RequestTrackChange(c, o, TRUE)
<1>1. Select(m, i) = Play(r)
  BY DEF Select
<1>2. MKeeps(m, c, Silent)
  BY DEF MKeeps, MainFields, Silent, Tells, Told
<1> HIDE DEF c, o
<1>3. Tells(r, auto)
  BY <1>2, TellsKept, RequestTells
<1> HIDE DEF r
<1> QED
  BY <1>1, <1>3, PlayTells

\* The user adds to the queue, or clears it.
LEMMA QueueTells ==
    ASSUME NEW m, NEW auto, Tells(m, auto)
    PROVE  /\ \A i : Tells(Enqueue(m, i), auto)
           /\ Tells(ClearQueue(m), auto)
<1>1. ASSUME NEW i
      PROVE  Tells(Enqueue(m, i), auto)
  <2> DEFINE qid == Min(m.pool)
             c   == [m EXCEPT !.queue = Append(@, [track |-> i, qid |-> qid]), !.pool = @ \ {qid}]
  <2>1. MKeeps(m, c, Silent)
    BY DEF MKeeps, MainFields, Silent, Tells, Told
  <2>2. Enqueue(m, i) = EmitUpcoming(c)
    BY DEF Enqueue
  <2> HIDE DEF c
  <2> QED
    BY <2>1, <2>2, TellsKept, EmitUpcomingTells DEF Tells
<1>2. Tells(ClearQueue(m), auto)
  <2> DEFINE c == [m EXCEPT !.queue = <<>>]
  <2>1. MKeeps(m, c, Silent)
    BY DEF MKeeps, MainFields, Silent, Tells, Told
  <2>2. ClearQueue(m) = EmitUpcoming(c)
    BY DEF ClearQueue
  <2> HIDE DEF c
  <2> QED
    BY <2>1, <2>2, TellsKept, EmitUpcomingTells DEF Tells
<1> QED
  BY <1>1, <1>2

\* The stop after the current track is armed, or no longer: the engine is told
\* before a next track is named.
LEMMA SetArmedTells ==
    ASSUME NEW m, NEW armed \in BOOLEAN, NEW auto, Tells(m, auto), armed = ~m.armed
    PROVE  Tells(SetArmed(m, armed), auto)
<1> DEFINE f     == ForgetTransitions(m)
           c     == [f EXCEPT !.armed = armed]
           call  == [call |-> "auto", on |-> ~armed]
           told  == Send(c, call)
           named == [call |-> "candidate", item |-> Item(m.upcoming)]
           r     == Send(told, named)
           n     == Len(m.out)
<1>1. SetArmed(m, armed) = EmitUpcoming(IF armed THEN told ELSE r)
  BY DEF SetArmed
<1>2. MKeeps(m, f, Silent) /\ f.out = m.out /\ f.upcoming = m.upcoming
  BY DEF ForgetTransitions, ForgetOwned, ForgetEnding, MKeeps, MainFields, Silent, Tells, Told
<1> HIDE DEF f
<1>3. /\ DOMAIN c = MainFields /\ c.out = m.out /\ c.armed = armed /\ c.upcoming = m.upcoming
      /\ MKeeps(f, c, {"armed"})
  BY <1>2 DEF MKeeps, MainFields
<1> HIDE DEF c
<1>4. /\ DOMAIN told = MainFields /\ told.out = Append(m.out, call)
      /\ told.armed = armed /\ told.upcoming = m.upcoming
  BY <1>3 DEF Send, MainFields
<1>5. call.call = "auto" /\ call.on = ~armed /\ CallKnown(call) /\ ~Names(call)
  BY DEF CallKnown, Names
<1> HIDE DEF told, call
<1>11. IsSeq(m.out) /\ auto \in BOOLEAN
  BY DEF Tells, Told
<1>12. /\ IsSeq(told.out) /\ Len(told.out) = n + 1 /\ n \in Nat
       /\ \A k \in 1 .. n : told.out[k] = m.out[k]
       /\ told.out[n + 1] = call
  BY <1>4, <1>11, AppendSeq
<1>13. OnAt(told.out, auto, n + 2) <=> ~armed
  BY <1>4, <1>5, <1>11, OnAtAppended
<1>14. \A k \in 1 .. n + 1 : OnAt(told.out, auto, k) <=> OnAt(m.out, auto, k)
  BY <1>4, <1>11, OnAtAppend
<1>7. ASSUME NEW k \in 1 .. Len(told.out)
      PROVE  CallKnown(told.out[k]) /\ (Names(told.out[k]) => OnAt(told.out, auto, k))
  <2>1. CASE k = n + 1
    BY <1>5, <1>12, <2>1
  <2>2. CASE k # n + 1
    <3>1. k \in 1 .. n /\ k \in 1 .. n + 1
      BY <1>12, <2>2
    <3> QED
      BY <1>12, <1>14, <3>1 DEF Tells, Told
  <2> QED
    BY <2>1, <2>2
<1>8. Len(told.out) + 1 = n + 2
  BY <1>12
<1> HIDE DEF n
<1>9. Told(told, auto)
  BY <1>4, <1>7, <1>8, <1>11, <1>12, <1>13 DEF Told
<1>10. CASE armed
  BY <1>1, <1>9, <1>10, EmitUpcomingTells
<1>15. CASE ~armed
  <2>1. CallKnown(named) /\ named.call # "auto"
    BY DEF CallKnown
  <2> HIDE DEF named
  <2>2. Told(r, auto)
    BY <1>4, <1>9, <1>15, <2>1, SendTold
  <2> HIDE DEF r
  <2> QED
    BY <1>1, <1>15, <2>2, EmitUpcomingTells
<1> QED
  BY <1>10, <1>15

\* What the engine's signals do.
LEMMA CommitTells ==
    ASSUME NEW m, NEW r, NEW auto, Tells(m, auto)
    PROVE  Tells(Commit(m, r), auto)
<1> DEFINE from == IF Item(m.request) = Item(r) THEN m.request ELSE r
           c    == [m EXCEPT !.current = [track |-> r.track, item |-> r.item,
                                          queued |-> from.queued, qid |-> from.qid],
                             !.manual = FALSE, !.resume = 0, !.request = NoRequest,
                             !.atEnd = FALSE,
                             !.index = IF from.queued THEN @ ELSE r.track,
                             !.queue = IF from.queued THEN Dequeued(@, from) ELSE @]
<1>1. Commit(m, r) = EmitUpcoming(c)
  BY DEF Commit
<1> HIDE DEF from
<1>2. MKeeps(m, c, Silent)
  BY DEF MKeeps, MainFields, Silent, Tells, Told
<1> HIDE DEF c
<1> QED
  BY <1>1, <1>2, TellsKept, EmitUpcomingTells DEF Tells

\* The handler lets the player move on at the end of a track.
LEMMA TryAdvanceTells ==
    ASSUME NEW m, NEW auto, Tells(m, auto)
    PROVE  Tells(TryAdvance(m), auto)
BY ForgetTells, AdvanceTells DEF TryAdvance

\* The engine has passed the end of a track.
LEMMA HandleBoundaryTells ==
    ASSUME NEW m, NEW s, NEW auto, Tells(m, auto)
    PROVE  Tells(HandleBoundary(m, s), auto)
<1> DEFINE note(n) == [n EXCEPT !.owned = [track |-> s.track, item |-> n.upcoming.item,
                                           gen |-> s.gen]]
           f       == ForgetOwned(m)
           wait    == [f EXCEPT !.ending = [track |-> s.track, gen |-> s.gen, ready |-> ~s.rest]]
           timed   == [wait EXCEPT !.timers = @ \cup {[track |-> s.track, gen |-> s.gen]}]
           c1      == [call |-> "candidate", item |-> Item(m.upcoming)]
           c2      == [call |-> "prepare", item |-> Item(m.upcoming)]
           m1      == Send(m, c1)
           m2      == Send(m1, c2)
<1>1. \/ HandleBoundary(m, s) \in {m, note(m), timed, TryAdvance(wait)}
      \/ HandleBoundary(m, s) = note(m2) /\ ~m.armed
  BY DEF HandleBoundary, HasAutoTransition
<1>2. ASSUME NEW n, Tells(n, auto)
      PROVE  Tells(note(n), auto)
  <2>1. MKeeps(n, note(n), Silent)
    BY <1>2 DEF MKeeps, MainFields, Silent, Tells, Told
  <2> QED
    BY <1>2, <2>1, TellsKept
<1>3. Tells(f, auto)
  BY ForgetTells
<1> HIDE DEF f
<1>4. MKeeps(f, wait, Silent) /\ MKeeps(f, timed, Silent)
  BY <1>3 DEF MKeeps, MainFields, Silent, Tells, Told
<1> HIDE DEF wait, timed
<1>5. Tells(wait, auto) /\ Tells(timed, auto)
  BY <1>3, <1>4, TellsKept
<1>6. Tells(TryAdvance(wait), auto)
  BY <1>5, TryAdvanceTells
<1>7. ASSUME ~m.armed
      PROVE  Tells(m2, auto)
  <2>1. CallKnown(c1) /\ c1.call # "auto" /\ CallKnown(c2) /\ c2.call # "auto"
    BY DEF CallKnown
  <2> HIDE DEF c1, c2
  <2>2. Tells(m1, auto) /\ MKeeps(m, m1, {"out"})
    BY <1>7, <2>1, SendTells
  <2> HIDE DEF m1
  <2>3. m1.armed = m.armed
    BY <2>2 DEF MKeeps, MainFields
  <2> QED
    BY <1>7, <2>1, <2>2, <2>3, SendTells
<1> HIDE DEF m2
<1>8. Tells(note(m), auto) /\ (~m.armed => Tells(note(m2), auto))
  BY <1>2, <1>7
<1> HIDE DEF note
<1> QED
  BY <1>1, <1>5, <1>6, <1>8

\* A timer of the handler fires.
LEMMA TimerTells ==
    ASSUME NEW m, NEW auto, Tells(m, auto)
    PROVE  /\ \A t : Tells(RestPlayed(m, t), auto)
           /\ Tells(WatchdogExpires(m), auto)
<1>1. ASSUME NEW t
      PROVE  Tells(RestPlayed(m, t), auto)
  <2> DEFINE fired == [m EXCEPT !.timers = @ \ {t}]
             ready == [fired EXCEPT !.ending.ready = TRUE]
  <2>1. RestPlayed(m, t) \in {fired, TryAdvance(ready)}
    BY DEF RestPlayed
  <2>2. MKeeps(m, fired, Silent)
    BY DEF MKeeps, MainFields, Silent, Tells, Told
  <2> HIDE DEF fired
  <2>3. Tells(fired, auto)
    BY <2>2, TellsKept
  <2>4. MKeeps(fired, ready, Silent)
    BY <2>3 DEF MKeeps, MainFields, Silent, Tells, Told
  <2> HIDE DEF ready
  <2> QED
    BY <2>1, <2>3, <2>4, TellsKept, TryAdvanceTells
<1>2. Tells(WatchdogExpires(m), auto)
  <2> DEFINE fired == [m EXCEPT !.watchdog = FALSE]
  <2>1. WatchdogExpires(m) \in {fired, AdvanceNaturally(ForgetOwned(fired))}
    BY DEF WatchdogExpires
  <2>2. MKeeps(m, fired, Silent)
    BY DEF MKeeps, MainFields, Silent, Tells, Told
  <2> HIDE DEF fired
  <2>3. Tells(fired, auto)
    BY <2>2, TellsKept
  <2> QED
    BY <2>1, <2>3, ForgetTells, AdvanceTells
<1> QED
  BY <1>1, <1>2

\* The engine has moved on by itself.
LEMMA HandleCommittedTells ==
    ASSUME NEW m0, NEW s, NEW auto, Tells(m0, auto)
    PROVE  Tells(HandleCommitted(m0, s), auto)
<1> DEFINE f == ForgetEnding(m0)
           m == [f EXCEPT !.heard = s.item]
<1>1. HandleCommitted(m0, s) \in {ForgetOwned(ForgetChange(Commit(m, m.change))), m,
                                  AdvanceNaturally(ForgetOwned(m)),
                                  ForgetOwned(Commit(m, m.upcoming))}
  BY DEF HandleCommitted
<1>2. Tells(f, auto)
  BY ForgetTells
<1> HIDE DEF f
<1>3. MKeeps(f, m, Silent)
  BY <1>2 DEF MKeeps, MainFields, Silent, Tells, Told
<1> HIDE DEF m
<1>4. Tells(m, auto)
  BY <1>2, <1>3, TellsKept
<1>5. Tells(ForgetOwned(ForgetChange(Commit(m, m.change))), auto)
  BY <1>4, CommitTells, ForgetTells
<1>6. Tells(ForgetOwned(Commit(m, m.upcoming)), auto)
  BY <1>4, CommitTells, ForgetTells
<1>7. Tells(AdvanceNaturally(ForgetOwned(m)), auto)
  BY <1>4, ForgetTells, AdvanceTells
<1> QED
  BY <1>1, <1>4, <1>5, <1>6, <1>7

\* The status of the track has changed.
LEMMA HandleStatusTells ==
    ASSUME NEW m, NEW s, NEW auto, Tells(m, auto),
           s.status \in {"none", "end", "invalid", "loading"}
    PROVE  Tells(HandleStatus(m, s), auto)
<1>1. CASE s.status = "none"
  <2>1. HandleStatus(m, s) = EnterStopped(ForgetChange(ForgetTransitions(m)), FALSE)
    BY <1>1 DEF HandleStatus
  <2> QED
    BY <2>1, ForgetTells, EnterStoppedTells
<1>2. CASE s.status = "end"
  <2> DEFINE c == [m EXCEPT !.suppressed = TRUE, !.watchdog = TRUE]
  <2>1. HandleStatus(m, s) \in {m, c}
    BY <1>2 DEF HandleStatus
  <2>2. MKeeps(m, c, Silent)
    BY DEF MKeeps, MainFields, Silent, Tells, Told
  <2> HIDE DEF c
  <2> QED
    BY <2>1, <2>2, TellsKept
<1>3. CASE s.status = "invalid"
  <2> DEFINE f == ForgetTransitions(m)
  <2>1. HandleStatus(m, s) \in {Pause(ForgetChange(Commit(f, m.change))), Pause(f)}
    BY <1>3 DEF HandleStatus
  <2>2. Tells(f, auto)
    BY ForgetTells
  <2> HIDE DEF f
  <2> QED
    BY <2>1, <2>2, CommitTells, ForgetTells, PauseTells
<1>4. CASE s.status = "loading"
  <2> DEFINE c == [m EXCEPT !.changeGen = s.gen]
  <2>1. HandleStatus(m, s) \in {m, c}
    BY <1>4 DEF HandleStatus
  <2>2. MKeeps(m, c, Silent)
    BY DEF MKeeps, MainFields, Silent, Tells, Told
  <2> HIDE DEF c
  <2> QED
    BY <2>1, <2>2, TellsKept
<1> QED
  BY <1>1, <1>2, <1>3, <1>4

\* The engine plays, pauses or stops.
LEMMA HandleStateTells ==
    ASSUME NEW m, NEW s, NEW auto, Tells(m, auto), s.play \in {"stopped", "paused", "playing"}
    PROVE  Tells(HandleState(m, s), auto)
<1>1. CASE s.play = "stopped"
  <2>1. HandleState(m, s) = EnterStopped(ForgetTransitions(m), FALSE)
    BY <1>1 DEF HandleState
  <2> QED
    BY <2>1, ForgetTells, EnterStoppedTells
<1>2. CASE s.play = "paused"
  <2> DEFINE w == m.watchdog /\ ~m.suppressed
             c == [m EXCEPT !.play = "paused", !.watchdog = w]
  <2>1. HandleState(m, s) = c
    BY <1>2 DEF HandleState
  <2> HIDE DEF w
  <2>2. MKeeps(m, c, Silent)
    BY DEF MKeeps, MainFields, Silent, Tells, Told
  <2> HIDE DEF c
  <2> QED
    BY <2>1, <2>2, TellsKept
<1>3. CASE s.play = "playing"
  <2> DEFINE w == m.watchdog \/ (m.suppressed /\ m.owned.track # 0)
             c == [m EXCEPT !.play = "playing", !.watchdog = w]
  <2>1. HandleState(m, s) = c
    BY <1>3 DEF HandleState
  <2> HIDE DEF w
  <2>2. MKeeps(m, c, Silent)
    BY DEF MKeeps, MainFields, Silent, Tells, Told
  <2> HIDE DEF c
  <2> QED
    BY <2>1, <2>2, TellsKept
<1> QED
  BY <1>1, <1>2, <1>3

\* Whatever signal the handler receives, the engine goes on hearing whether the
\* player wants automatic changes.
LEMMA HandleTells ==
    ASSUME NEW m, NEW s, NEW auto, Tells(m, auto), SignalOk(s)
    PROVE  Tells(Handle(m, s), auto)
<1>1. CASE s.signal = "boundary"
  BY <1>1, HandleBoundaryTells DEF Handle
<1>2. CASE s.signal = "committed"
  BY <1>2, HandleCommittedTells DEF Handle
<1>3. CASE s.signal = "status"
  BY <1>3, HandleStatusTells DEF Handle, SignalOk
<1>4. CASE s.signal = "state"
  BY <1>4, HandleStateTells DEF Handle, SignalOk
<1>5. CASE s.signal = "unready"
  <2>1. Handle(m, s) \in {m, WatchdogExpires(m)}
    BY <1>5 DEF Handle, HandleUnready
  <2> QED
    BY <2>1, TimerTells
<1> QED
  BY <1>1, <1>2, <1>3, <1>4, <1>5 DEF SignalOk

\* The engine takes the first call: it is as the engine expects, and the others
\* still tell it the rest.
LEMMA HeadTells ==
    ASSUME NEW m, NEW auto, Tells(m, auto), m.out # <<>>
    PROVE  LET c   == Head(m.out)
               now == IF c.call = "auto" THEN c.on ELSE auto
           IN  /\ CallOk(c, auto)
               /\ Tells([m EXCEPT !.out = Tail(@)], now)
<1> DEFINE c   == Head(m.out)
           now == IF c.call = "auto" THEN c.on ELSE auto
           out == Tail(m.out)
           n   == Len(m.out)
           r   == [m EXCEPT !.out = Tail(@)]
<1>1. IsSeq(m.out) /\ auto \in BOOLEAN
  BY DEF Tells, Told
<1>2. /\ IsSeq(out) /\ Len(out) = n - 1 /\ n \in Nat \ {0} /\ c = m.out[1]
      /\ \A k \in 1 .. n - 1 : out[k] = m.out[k + 1]
  BY <1>1, TailSeq
<1>3. \A k \in 1 .. n : OnAt(out, now, k) <=> OnAt(m.out, auto, k + 1)
  BY <1>1, <1>2, OnAtTail
<1>4. r.out = out /\ r.armed = m.armed /\ r.upcoming = m.upcoming /\ DOMAIN r = MainFields
  BY DEF MainFields, Tells, Told
<1>5. CallKnown(c) /\ (Names(c) => OnAt(m.out, auto, 1))
  BY <1>2 DEF Tells, Told
<1>6. OnAt(m.out, auto, 1) => auto
  BY DEF OnAt
<1> HIDE DEF c
<1>7. CallOk(c, auto)
  BY <1>5, <1>6 DEF CallOk, CallKnown, Names
<1>8. now \in BOOLEAN
  BY <1>1, <1>5 DEF CallKnown
<1> HIDE DEF now, out, r
<1>9. ASSUME NEW k \in 1 .. Len(out)
      PROVE  CallKnown(out[k]) /\ (Names(out[k]) => OnAt(out, now, k))
  <2>1. k \in 1 .. n /\ k + 1 \in 1 .. n /\ out[k] = m.out[k + 1]
    BY <1>2
  <2>2. CallKnown(m.out[k + 1]) /\ (Names(m.out[k + 1]) => OnAt(m.out, auto, k + 1))
    BY <2>1 DEF Tells, Told
  <2> QED
    BY <1>3, <2>1, <2>2
<1>10. OnAt(out, now, Len(out) + 1) <=> ~m.armed
  <2>1. Len(out) + 1 = n /\ n \in 1 .. n
    BY <1>2
  <2> QED
    BY <1>3, <2>1 DEF Tells, Told
<1>11. Tells(r, now)
  BY <1>2, <1>4, <1>8, <1>9, <1>10 DEF Tells, Told
<1> QED
  BY <1>7, <1>11 DEF c, now, r

-----------------------------------------------------------------------------
(* The two sides together.                                                  *)

IInv == Sound(engine) /\ Tells(main, engine.auto)

\* The names to be given to new items and generations are neither here nor there.
LEMMA Renamed ==
    /\ \A e, p : Sound(e) => Sound([e EXCEPT !.pool = p]) /\ [e EXCEPT !.pool = p].auto = e.auto
                             /\ [e EXCEPT !.pool = p].current = e.current
    /\ \A m, p, auto : Tells(m, auto) => Tells([m EXCEPT !.pool = p], auto)
<1>1. ASSUME NEW e, NEW p, Sound(e)
      PROVE  /\ Sound([e EXCEPT !.pool = p]) /\ [e EXCEPT !.pool = p].auto = e.auto
             /\ [e EXCEPT !.pool = p].current = e.current
  <2> DEFINE r == [e EXCEPT !.pool = p]
  <2>1. Keeps(e, r, {"pool"})
    BY <1>1 DEF Sound, Keeps, Shape, EngineFields
  <2> HIDE DEF r
  <2>2. Sound(r) /\ r.auto = e.auto /\ r.current = e.current
    BY <1>1, <2>1, SoundKept DEF Keeps, EngineFields
  <2> QED
    BY <2>2 DEF r
<1>2. ASSUME NEW m, NEW p, NEW auto, Tells(m, auto)
      PROVE  Tells([m EXCEPT !.pool = p], auto)
  <2>1. MKeeps(m, [m EXCEPT !.pool = p], Silent)
    BY <1>2 DEF MKeeps, MainFields, Silent, Tells, Told
  <2> QED
    BY <1>2, <2>1, TellsKept
<1> QED
  BY <1>1, <1>2

\* At the start nothing is attached and nothing is on its way.
LEMMA InitSound == Init => IInv
<1> SUFFICES ASSUME Init PROVE IInv
  OBVIOUS
<1>1. PICK gapless \in BOOLEAN : main = Fresh(gapless) /\ engine = StartEngine(gapless)
  BY DEF Init
<1>2. IsSeq(<<>>) /\ Len(<<>>) = 0
  BY DEF IsSeq
<1>3. SignalsOk(<<>>)
  BY <1>2 DEF SignalsOk
<1>4. /\ DOMAIN engine = EngineFields /\ engine.armed = NoGapless /\ engine.out = <<>>
      /\ engine.job = NoTrack /\ engine.auto = TRUE
  BY <1>1 DEF StartEngine, EngineFields
<1>5. Sound(engine)
  BY <1>3, <1>4 DEF Sound, Shape, Held, Off, NoGapless, NoTrack
<1>6. /\ DOMAIN main = MainFields /\ main.out = <<>> /\ main.armed = FALSE
  BY <1>1 DEF Fresh, MainFields
<1>9. OnAt(main.out, TRUE, Len(main.out) + 1) /\ IsSeq(main.out) /\ 1 .. Len(main.out) = {}
  <2>1. Len(main.out) = 0
    BY <1>2, <1>6
  <2>2. 1 .. Len(main.out) = {}
    BY <2>1
  <2>3. IsSeq(main.out)
    BY <1>2, <1>6
  <2>4. \A i \in 1 .. (Len(main.out) + 1) - 1 : main.out[i].call # "auto"
    BY <2>1
  <2> QED
    BY <2>2, <2>3, <2>4 DEF OnAt
<1>8. Tells(main, TRUE)
  BY <1>6, <1>9 DEF Tells, Told
<1> QED
  BY <1>4, <1>5, <1>8 DEF IInv

\* A step of the player that keeps what it tells.
LEMMA MainStepSound ==
    ASSUME IInv, NEW m, Tells(m, engine.auto), main' = Settled(m), UNCHANGED engine
    PROVE  IInv'
<1>1. Tells(Settled(m), engine.auto)
  BY Renamed DEF Settled
<1> QED
  BY <1>1 DEF IInv

\* A step of the engine on its own.
LEMMA EngineStepSound ==
    ASSUME IInv, NEW e, Sound(e), e.auto = engine.auto, EngineSteps(e)
    PROVE  IInv' /\ engine'.current = e.current
<1>1. engine' = Settled(e) /\ main' = main
  BY DEF EngineSteps
<1>2. /\ Sound(Settled(e)) /\ Settled(e).auto = e.auto /\ Settled(e).current = e.current
  BY Renamed DEF Settled
<1> QED
  BY <1>1, <1>2 DEF IInv

\* What the engine finds when it updates its position.
LEMMA UpdatesSound ==
    ASSUME IInv, NEW e \in Updates
    PROVE  /\ Sound(e) /\ e.auto = engine.auto
           /\ ~engine.auto => e.current = engine.current
<1> DEFINE renders == IF IsArmed(engine) THEN BOOLEAN ELSE {FALSE}
           idle == engine.playback # "playing" \/ engine.stream = "none"
           all  == {CheckEnding(Engine, stream, heard, rendered, rest, how) :
                       stream \in Later(engine.stream),
                       heard \in BOOLEAN,
                       rendered \in renders, rest \in BOOLEAN, how \in Hows}
<1>5. Updates = IF idle THEN {} ELSE all
  BY DEF Updates
<1> HIDE DEF all, renders
<1>1. engine.stream # "none" /\ e \in all
  BY <1>5
<1>2. /\ Sound(Engine) /\ Engine.auto = engine.auto /\ Engine.current = engine.current
      /\ Engine.stream = engine.stream
  <2>1. Engine.stream = engine.stream
    BY DEF Engine, IInv, Sound, Shape, EngineFields
  <2> QED
    BY <2>1, Renamed DEF Engine, IInv
<1>3. PICK stream \in Later(engine.stream), heard \in BOOLEAN,
           rendered \in renders, rest \in BOOLEAN, how \in Hows :
               e = CheckEnding(Engine, stream, heard, rendered, rest, how)
  BY <1>1 DEF all
<1>4. stream # "none"
  BY <1>1, <1>3 DEF Later
<1> QED
  BY <1>1, <1>2, <1>3, <1>4, CheckEndingSound

\* The result of a preparation.
LEMMA PrepareDoneSound ==
    ASSUME IInv, PrepareDone
    PROVE  IInv' /\ (~engine.auto => engine'.current = engine.current)
<1>1. PICK how \in Hows, now \in Hows : EngineSteps(JobDone(Engine, how, now))
  BY DEF PrepareDone, JobMayEnd
<1>2. /\ Sound(Engine) /\ Engine.auto = engine.auto /\ Engine.current = engine.current
  BY Renamed DEF Engine, IInv
<1>3. Engine.job.track # 0
  BY DEF PrepareDone, JobMayEnd, Engine, IInv, Sound, Shape, EngineFields
<1> QED
  BY <1>1, <1>2, <1>3, JobDoneSound, EngineStepSound

\* The commands of the user.
LEMMA UserSound ==
    ASSUME IInv, UserSteps
    PROVE  IInv' /\ UNCHANGED engine
<1>1. Tells(Main, engine.auto) /\ Main.armed = main.armed /\ main.armed \in BOOLEAN
  <2>1. Main.armed = main.armed /\ main.armed \in BOOLEAN
    BY DEF Main, IInv, Tells, Told, MainFields
  <2> QED
    BY <2>1, Renamed DEF Main, IInv
<1>2. ASSUME NEW c, NEW m, Tells(m, engine.auto), Commanded(c, m)
      PROVE  IInv' /\ UNCHANGED engine
  BY <1>2, MainStepSound DEF Commanded
<1>3. CASE UserPlayPause
  BY <1>1, <1>2, <1>3, PlayOrTells DEF UserPlayPause
<1>4. CASE UserStop
  BY <1>1, <1>2, <1>4, StopTells DEF UserStop
<1>5. CASE UserNext
  BY <1>1, <1>2, <1>5, SkipTells DEF UserNext
<1>6. CASE UserSelect
  BY <1>1, <1>2, <1>6, SelectTells DEF UserSelect
<1>7. CASE UserEnqueue
  BY <1>1, <1>2, <1>7, QueueTells DEF UserEnqueue
<1>8. CASE UserClearQueue
  BY <1>1, <1>2, <1>8, QueueTells DEF UserClearQueue
<1>9. CASE UserArm
  BY <1>1, <1>2, <1>9, SetArmedTells DEF UserArm
<1> QED
  BY <1>3, <1>4, <1>5, <1>6, <1>7, <1>8, <1>9 DEF UserSteps

\* A call arrives.
LEMMA EngineReceivesSound ==
    ASSUME IInv, EngineReceives
    PROVE  IInv'
<1> DEFINE c   == Head(main.out)
           now == IF c.call = "auto" THEN c.on ELSE engine.auto
<1>1. PICK opens \in Opens, rest \in BOOLEAN :
          engine' = Settled(Run(Engine, Head(main.out), opens, rest))
  BY DEF EngineReceives
<1>2. Sound(Engine) /\ Engine.auto = engine.auto
  BY Renamed DEF Engine, IInv
<1>3. CallOk(c, engine.auto) /\ Tells([main EXCEPT !.out = Tail(@)], now)
  BY HeadTells DEF IInv, EngineReceives
<1> DEFINE e == Run(Engine, c, opens, rest)
<1> HIDE DEF c
<1>4. Sound(e) /\ e.auto = now
  BY <1>2, <1>3, RunSound
<1> HIDE DEF e
<1>5. Sound(Settled(e)) /\ Settled(e).auto = now
  BY <1>4, Renamed DEF Settled
<1>6. engine' = Settled(e) /\ main' = [main EXCEPT !.out = Tail(@)]
  BY <1>1 DEF EngineReceives, e, c
<1> HIDE DEF now
<1> QED
  BY <1>3, <1>5, <1>6 DEF IInv

\* A signal arrives.
LEMMA HandlerReceivesSound ==
    ASSUME IInv, HandlerReceives
    PROVE  IInv'
<1>1. Tells(Main, engine.auto)
  BY Renamed DEF Main, IInv
<1>2. IsSeq(engine.out) /\ (\A k \in 1 .. Len(engine.out) : SignalOk(engine.out[k]))
      /\ engine.out # <<>>
  BY DEF IInv, Sound, Shape, SignalsOk, HandlerReceives
<1>3. /\ IsSeq(Tail(engine.out)) /\ Head(engine.out) = engine.out[1]
      /\ Len(Tail(engine.out)) = Len(engine.out) - 1 /\ Len(engine.out) \in Nat \ {0}
      /\ \A k \in 1 .. Len(engine.out) - 1 : Tail(engine.out)[k] = engine.out[k + 1]
  BY <1>2, TailSeq
<1>4. SignalOk(Head(engine.out))
  BY <1>2, <1>3
<1>5. SignalsOk(Tail(engine.out))
  <2>1. ASSUME NEW k \in 1 .. Len(engine.out) - 1
        PROVE  SignalOk(Tail(engine.out)[k])
    <3>1. k + 1 \in 1 .. Len(engine.out)
      BY <1>3
    <3> QED
      BY <1>2, <1>3, <3>1
  <2> QED
    BY <1>3, <2>1 DEF SignalsOk
<1> DEFINE e == [engine EXCEPT !.out = Tail(@)]
<1>6. Keeps(engine, e, {"out"})
  BY <1>5 DEF Keeps, Shape, EngineFields, IInv, Sound
<1> HIDE DEF e
<1>7. Sound(e) /\ e.auto = engine.auto
  BY <1>6, SoundKept DEF IInv, Keeps, EngineFields
<1>8. engine' = e /\ main' = Settled(Handle(Main, Head(engine.out)))
  BY DEF HandlerReceives, e
<1>9. Tells(Settled(Handle(Main, Head(engine.out))), engine.auto)
  BY <1>1, <1>4, HandleTells, Renamed DEF Settled
<1> QED
  BY <1>7, <1>8, <1>9 DEF IInv

\* Every step keeps the invariant.
LEMMA NextSound == IInv /\ [Next]_vars => IInv'
<1> SUFFICES ASSUME IInv, [Next]_vars PROVE IInv'
  OBVIOUS
<1>1. CASE UserSteps
  BY <1>1, UserSound
<1>2. CASE EngineReceives
  BY <1>2, EngineReceivesSound
<1>3. CASE HandlerReceives
  BY <1>3, HandlerReceivesSound
<1>4. CASE PositionUpdate
  BY <1>4, UpdatesSound, EngineStepSound DEF PositionUpdate
<1>5. CASE PrepareDone
  BY <1>5, PrepareDoneSound
<1>6. CASE StopTimerFires
  <2>1. PICK gen \in engine.timers : EngineSteps(StopTimer(Engine, gen))
    BY <1>6 DEF StopTimerFires
  <2>2. Sound(Engine) /\ Engine.auto = engine.auto
    BY Renamed DEF Engine, IInv
  <2> QED
    BY <2>1, <2>2, StopTimerSound, EngineStepSound
<1>7. CASE RestTimerFires \/ WatchdogFires
  <2>1. Tells(Main, engine.auto)
    BY Renamed DEF Main, IInv
  <2> QED
    BY <1>7, <2>1, TimerTells, MainStepSound
    DEF RestTimerFires, WatchdogFires, MainSteps
<1>8. CASE UNCHANGED vars
  BY <1>8 DEF vars, IInv
<1> QED
  BY <1>1, <1>2, <1>3, <1>4, <1>5, <1>6, <1>7, <1>8 DEF Next

\* IInv holds throughout, however the two event loops interleave.
THEOREM InductiveInvariant == Spec => []IInv
<1>1. Init => IInv
  BY InitSound
<1>2. IInv /\ [Next]_vars => IInv'
  BY NextSound
<1> QED
  BY <1>1, <1>2, PTL DEF Spec

\* What is attached to follow the current stream is what has been prepared,
\* until its decoder takes over, whatever the player calls and when.
THEOREM AttachedIsPrepared == Spec => []ArmedIsPrepared
<1>1. IInv => ArmedIsPrepared
  BY DEF IInv, Sound, Held, ArmedIsPrepared, IsArmed
<1> QED
  BY <1>1, InductiveInvariant, PTL

\* With the stop after the current track armed, and the engine told of it, the
\* engine does not change the track on its own.
THEOREM ArmedStays == Spec => ArmedNeverMovesOn
<1> DEFINE Stays == Quiet /\ main.armed /\ UNCHANGED main => engine'.current = engine.current
<1>1. ASSUME IInv, [Next]_vars
      PROVE  Stays
  <2> SUFFICES ASSUME Quiet, main.armed, UNCHANGED main
               PROVE  engine'.current = engine.current
    OBVIOUS
  <2>1. ~engine.auto
    <3>1. main.out = <<>> /\ Len(<<>>) = 0
      BY DEF Quiet, NothingOnItsWay
    <3>2. ~OnAt(<<>>, engine.auto, 0 + 1)
      BY <1>1, <3>1 DEF IInv, Tells, Told
    <3> QED
      BY <3>2 DEF OnAt
  <2>2. CASE UserSteps
    BY <1>1, <2>2, UserSound
  <2>3. CASE EngineReceives \/ HandlerReceives \/ StopTimerFires
    BY <2>3 DEF EngineReceives, HandlerReceives, StopTimerFires, Quiet, NothingOnItsWay
  <2>4. CASE PositionUpdate
    BY <1>1, <2>1, <2>4, UpdatesSound, EngineStepSound DEF PositionUpdate
  <2>5. CASE PrepareDone
    BY <1>1, <2>1, <2>5, PrepareDoneSound
  <2>6. CASE RestTimerFires \/ WatchdogFires \/ UNCHANGED vars
    BY <2>6 DEF RestTimerFires, WatchdogFires, MainSteps, vars
  <2> QED
    BY <1>1, <2>2, <2>3, <2>4, <2>5, <2>6 DEF Next
<1>2. IInv /\ [Next]_vars => [Stays]_vars
  BY <1>1
<1> QED
  BY <1>2, InductiveInvariant, PTL DEF Spec, ArmedNeverMovesOn

-----------------------------------------------------------------------------
(* The queue.                                                               *)

(***************************************************************************)
(* What was made from an entry of the queue (the request, the change that the  *)
(* handler waits for, the announced next track) names that entry's track as    *)
(* long as the entry is there, so that to remove the entry that a committed    *)
(* track came from is to remove the track that plays. A selected track may      *)
(* count as queued without having come from an entry (queued, but of no id);    *)
(* entries have ids, so that it refers to none.                               *)
(***************************************************************************)
Refers(o, q) == o.queued => \A k \in 1 .. Len(q) : q[k].qid = o.qid => q[k].track = o.track

Entries(q) ==
    /\ IsSeq(q)
    /\ \A k \in 1 .. Len(q) : q[k].qid # 0
    /\ \A j, k \in 1 .. Len(q) : q[j].qid = q[k].qid => q[j].track = q[k].track

\* All but the announced track.
Asked(m) ==
    /\ DOMAIN m = MainFields /\ Entries(m.queue)
    /\ Refers(m.request, m.queue) /\ Refers(m.change, m.queue)

Tied(m) == Asked(m) /\ Refers(m.upcoming, m.queue)

\* r is tied, and has the queue of m; and its current track.
SameQueue(m, r) == Tied(r) /\ r.queue = m.queue
Alike(m, r)     == SameQueue(m, r) /\ r.current = m.current

\* What the queue q lost is the current track of r.
Plays(q, r) ==
    /\ Tied(r)
    /\ \A k \in 1 .. Len(q) :
           \/ \E j \in 1 .. Len(r.queue) : r.queue[j] = q[k]
           \/ r.current.queued /\ r.current.track = q[k].track

\* The fields that neither the queue nor what refers to it is in.
Beside == MainFields \ {"queue", "request", "change", "upcoming"}

\* Ids are natural numbers, and a set of them has a least one.
LEMMA LeastId ==
    ASSUME NEW T, T \subseteq Nat, T # {}
    PROVE  Min(T) \in T
<1>1. \E x \in T : \A y \in T : ~(<<y, x>> \in OpToRel(<, Nat))
  BY WFMin, NatLessThanWellFounded, Zenon
<1>2. PICK x \in T : \A y \in T : ~(<<y, x>> \in OpToRel(<, Nat))
  BY <1>1
<1>3. \A y \in T : ~(y < x)
  BY <1>2 DEF OpToRel
<1>4. \A y \in T : x <= y
  BY <1>3
<1> QED
  BY <1>4 DEF Min

\* A step that touches neither the queue nor what refers to it.
LEMMA BesideAlike ==
    ASSUME NEW m, NEW r, Tied(m), MKeeps(m, r, Beside)
    PROVE  SameQueue(m, r)
<1>1. /\ DOMAIN r = MainFields /\ r.queue = m.queue /\ r.request = m.request
      /\ r.change = m.change /\ r.upcoming = m.upcoming
  BY DEF MKeeps, Beside, MainFields
<1> QED
  BY <1>1 DEF SameQueue, Tied, Asked

\* A call to the engine.
LEMMA SendAlike ==
    ASSUME NEW m, NEW c, Tied(m)
    PROVE  Alike(m, Send(m, c))
<1> DEFINE r == Send(m, c)
<1>1. MKeeps(m, r, Beside) /\ r.current = m.current
  BY DEF Send, MKeeps, Beside, MainFields, Tied, Asked
<1> HIDE DEF r
<1> QED
  BY <1>1, BesideAlike DEF Alike, r

\* The handler forgets what it knows of an end or a change of track.
LEMMA ForgetAlike ==
    ASSUME NEW m, Tied(m)
    PROVE  /\ Alike(m, ForgetEnding(m)) /\ Alike(m, ForgetOwned(m))
           /\ Alike(m, ForgetTransitions(m)) /\ Alike(m, ForgetChange(m))
<1>1. ASSUME NEW n, Tied(n)
      PROVE  Alike(n, ForgetEnding(n)) /\ Alike(n, ForgetOwned(n))
  <2>1. MKeeps(n, ForgetEnding(n), Beside) /\ ForgetEnding(n).current = n.current
    BY <1>1 DEF ForgetEnding, MKeeps, Beside, MainFields, Tied, Asked
  <2>2. MKeeps(n, ForgetOwned(n), Beside) /\ ForgetOwned(n).current = n.current
    BY <1>1 DEF ForgetOwned, MKeeps, Beside, MainFields, Tied, Asked
  <2> QED
    BY <1>1, <2>1, <2>2, BesideAlike DEF Alike
<1>2. Alike(m, ForgetTransitions(m))
  BY <1>1 DEF ForgetTransitions, Alike, SameQueue
<1>3. Alike(m, ForgetChange(m))
  <2> DEFINE r == ForgetChange(m)
  <2>1. /\ DOMAIN r = MainFields /\ r.queue = m.queue /\ r.request = m.request
        /\ r.change = NoRequest /\ r.upcoming = m.upcoming /\ r.current = m.current
    BY DEF ForgetChange, MainFields, Tied, Asked
  <2>2. Refers(NoRequest, m.queue)
    BY DEF Refers, NoRequest
  <2> HIDE DEF r
  <2> QED
    BY <2>1, <2>2 DEF Alike, SameQueue, Tied, Asked, r
<1> QED
  BY <1>1, <1>2, <1>3

\* What comes next is the head of the queue, or comes from elsewhere.
LEMMA NextRefers ==
    ASSUME NEW m, Asked(m)
    PROVE  /\ \A i : Refers(FromPlaylist(i), m.queue)
           /\ Refers(InOrder(m), m.queue) /\ Refers(FromIdle(m), m.queue)
           /\ \A x : Refers([ResolveUpcoming(m) EXCEPT !.item = x], m.queue)
<1>1. \A i : ~FromPlaylist(i).queued
  BY DEF FromPlaylist, NoOccurrence
<1>2. \A i : Refers(FromPlaylist(i), m.queue)
  BY <1>1 DEF Refers
<1>3. ASSUME m.queue # <<>>
      PROVE  Refers(QueueHead(m), m.queue)
  <2>1. 1 \in 1 .. Len(m.queue) /\ Head(m.queue) = m.queue[1]
    BY <1>3, TailSeq DEF Asked, Entries
  <2>2. QueueHead(m).track = m.queue[1].track /\ QueueHead(m).qid = m.queue[1].qid
    BY <2>1 DEF QueueHead, NoOccurrence
  <2> QED
    BY <2>1, <2>2 DEF Asked, Entries, Refers
<1>4. Refers(InOrder(m), m.queue) /\ Refers(FromIdle(m), m.queue)
  BY <1>2, <1>3 DEF InOrder, FromIdle
<1>5. ASSUME NEW x
      PROVE  Refers([ResolveUpcoming(m) EXCEPT !.item = x], m.queue)
  <2> DEFINE next == ResolveUpcoming(m)
             up   == [next EXCEPT !.item = x]
  <2>1. Refers(NoOccurrence, m.queue)
    BY DEF Refers, NoOccurrence
  <2>2. Refers(next, m.queue)
    BY <1>2, <1>3, <2>1 DEF ResolveUpcoming
  <2>3. DOMAIN next = {"track", "item", "queued", "qid"}
    BY DEF ResolveUpcoming, NoOccurrence, QueueHead, FromPlaylist
  <2> HIDE DEF next
  <2>4. up.queued = next.queued /\ up.qid = next.qid /\ up.track = next.track
    BY <2>3
  <2> HIDE DEF up
  <2> QED
    BY <2>2, <2>4 DEF Refers, next, up
<1> QED
  BY <1>2, <1>4, <1>5

\* The announced track is found anew, whatever it was.
LEMMA EmitUpcomingTied ==
    ASSUME NEW m, Asked(m)
    PROVE  Alike(m, EmitUpcoming(m))
<1> DEFINE next  == ResolveUpcoming(m)
           reuse == /\ m.upcoming.track = next.track
                    /\ <<m.upcoming.queued, m.upcoming.qid>> = <<next.queued, next.qid>>
                    /\ m.upcoming.item \notin {0, m.current.item}
           item  == IF next.track = 0 THEN 0
                    ELSE IF reuse THEN m.upcoming.item ELSE Min(m.pool)
           up    == [next EXCEPT !.item = item]
           c     == [m EXCEPT !.upcoming = up, !.pool = @ \ {item}]
           call  == [call |-> "candidate", item |-> Item(up)]
<1>1. EmitUpcoming(m) = IF up = m.upcoming THEN m ELSE Send(c, call)
  BY DEF EmitUpcoming
<1> HIDE DEF item
<1>2. Refers(up, m.queue)
  BY NextRefers
<1> HIDE DEF next, up
<1>3. /\ DOMAIN c = MainFields /\ c.queue = m.queue /\ c.request = m.request
      /\ c.change = m.change /\ c.upcoming = up /\ c.current = m.current
  BY DEF Asked, MainFields
<1> HIDE DEF c, call
<1>4. Alike(m, c)
  BY <1>2, <1>3 DEF Alike, SameQueue, Tied, Asked
<1>5. Alike(m, Send(c, call))
  BY <1>4, SendAlike DEF Alike, SameQueue
<1>6. up = m.upcoming => Alike(m, m)
  BY <1>2 DEF Alike, SameQueue, Tied
<1> QED
  BY <1>1, <1>5, <1>6

-----------------------------------------------------------------------------
(* The player's operations: the queue stays.                                 *)

\* A track is asked for.
LEMMA RequestTied ==
    ASSUME NEW m, NEW o, NEW manual, Tied(m), Refers(o, m.queue)
    PROVE  SameQueue(m, RequestTrackChange(m, o, manual))
           /\ SameQueue(m, RequestSelected(m, o, manual))
<1> DEFINE item == Min(m.pool)
           r    == [track |-> o.track, item |-> item, queued |-> o.queued, qid |-> o.qid,
                    manual |-> manual]
           forgotten == m.play = "stopped" /\ m.current.track # o.track
           c    == [m EXCEPT !.request = r, !.manual = manual, !.pool = @ \ {item},
                             !.current = IF forgotten THEN NoOccurrence ELSE @]
           f    == ForgetTransitions(c)
           h    == [f EXCEPT !.change = r, !.changeGen = 0]
           call == [call |-> "load", item |-> Item(r), manual |-> r.manual]
<1>1. RequestTrackChange(m, o, manual) = Send(h, call)
  BY DEF RequestTrackChange, HandleRequest
<1>2. Refers(r, m.queue)
  BY DEF Refers
<1> HIDE DEF r, item, forgotten
<1>3. /\ DOMAIN c = MainFields /\ c.queue = m.queue /\ c.request = r
      /\ c.change = m.change /\ c.upcoming = m.upcoming
  BY DEF Tied, Asked, MainFields
<1> HIDE DEF c
<1>4. Tied(c)
  BY <1>2, <1>3 DEF Tied, Asked
<1>5. SameQueue(c, f)
  BY <1>4, ForgetAlike DEF Alike
<1> HIDE DEF f
<1>6. /\ DOMAIN h = MainFields /\ h.queue = f.queue /\ h.request = f.request
      /\ h.change = r /\ h.upcoming = f.upcoming
  BY <1>5 DEF SameQueue, Tied, Asked, MainFields
<1> HIDE DEF h, call
<1>7. Tied(h) /\ h.queue = m.queue
  BY <1>2, <1>3, <1>5, <1>6 DEF SameQueue, Tied, Asked
<1>8. SameQueue(m, Send(h, call))
  BY <1>7, SendAlike DEF Alike, SameQueue
<1> QED
  BY <1>1, <1>8 DEF RequestSelected, SameQueue

\* The playlist starts again from its beginning.
LEMMA RestartTied ==
    ASSUME NEW m, NEW manual, Tied(m)
    PROVE  SameQueue(m, RestartPlaylist(m, manual))
<1> DEFINE c == [m EXCEPT !.index = 1, !.atEnd = FALSE]
<1>1. MKeeps(m, c, Beside)
  BY DEF MKeeps, Beside, MainFields, Tied, Asked
<1> HIDE DEF c
<1>2. SameQueue(m, c)
  BY <1>1, BesideAlike
<1>3. Refers(FromPlaylist(1), c.queue)
  BY <1>2, NextRefers DEF SameQueue, Tied
<1>4. SameQueue(c, RequestSelected(c, FromPlaylist(1), manual))
  BY <1>2, <1>3, RequestTied DEF SameQueue
<1> QED
  BY <1>2, <1>4 DEF RestartPlaylist, c, SameQueue

\* The position in the playlist moves.
LEMMA MoveTied ==
    ASSUME NEW m, Tied(m)
    PROVE  SameQueue(m, MoveInOrder(m)) /\ SameQueue(m, MoveFromIdle(m))
<1>1. MKeeps(m, MoveInOrder(m), Beside)
  BY DEF MoveInOrder, MKeeps, Beside, MainFields, Tied, Asked
<1>2. MKeeps(m, MoveFromIdle(m), Beside)
  BY DEF MoveFromIdle, MKeeps, Beside, MainFields, Tied, Asked
<1> QED
  BY <1>1, <1>2, BesideAlike

\* The player stops.
LEMMA EnterStoppedTied ==
    ASSUME NEW m, NEW transport, Tied(m)
    PROVE  Alike(m, EnterStopped(m, transport))
<1> DEFINE s    == [m EXCEPT !.play = "stopped"]
           call == [call |-> "stop"]
<1>1. MKeeps(m, s, Beside) /\ s.current = m.current
  BY DEF MKeeps, Beside, MainFields, Tied, Asked
<1>2. EnterStopped(m, transport) \in {m, s, Send(s, call)}
  BY DEF EnterStopped
<1> HIDE DEF s, call
<1>3. Alike(m, s)
  BY <1>1, BesideAlike DEF Alike
<1>4. Alike(m, Send(s, call)) /\ Alike(m, m)
  BY <1>3, SendAlike DEF Alike, SameQueue
<1> QED
  BY <1>2, <1>3, <1>4

\* stop() of the player.
LEMMA StopTied ==
    ASSUME NEW m, Tied(m)
    PROVE  SameQueue(m, Stop(m)) /\ SameQueue(m, StopAtEnd(m))
<1> DEFINE s == [m EXCEPT !.atEnd = TRUE]
<1>1. MKeeps(m, s, Beside)
  BY DEF MKeeps, Beside, MainFields, Tied, Asked
<1> HIDE DEF s
<1>2. SameQueue(m, s)
  BY <1>1, BesideAlike
<1>3. \A n : Tied(n) => SameQueue(n, Stop(n))
  BY EnterStoppedTied DEF Stop, Alike
<1>4. SameQueue(s, Stop(s))
  BY <1>2, <1>3 DEF SameQueue
<1> QED
  BY <1>2, <1>3, <1>4 DEF StopAtEnd, s, SameQueue

\* The player gives up the current track, and what it asked for.
LEMMA ResetTied ==
    ASSUME NEW m, Tied(m)
    PROVE  SameQueue(m, Reset(m))
<1> DEFINE s == [m EXCEPT !.current = NoOccurrence, !.atEnd = FALSE, !.request = NoRequest,
                          !.manual = FALSE]
<1>1. /\ DOMAIN s = MainFields /\ s.queue = m.queue /\ s.request = NoRequest
      /\ s.change = m.change
  BY DEF Tied, Asked, MainFields
<1>2. Refers(NoRequest, m.queue)
  BY DEF Refers, NoRequest
<1> HIDE DEF s
<1>3. Asked(s)
  BY <1>1, <1>2 DEF Tied, Asked
<1> QED
  BY <1>1, <1>3, EmitUpcomingTied DEF Reset, s, Alike, SameQueue

\* play() of the player.
LEMMA PlayTied ==
    ASSUME NEW m, Tied(m)
    PROVE  SameQueue(m, Play(m))
<1> DEFINE selected ==
              IF /\ m.play = "stopped" /\ m.atEnd
                 /\ m.current.track # 0 /\ ~Requested(m) /\ FromList(m)
              THEN RestartPlaylist(m, m.manual)
              ELSE IF Idle(m) THEN RequestSelected(MoveFromIdle(m), FromIdle(m), m.manual)
              ELSE m
           c    == [selected EXCEPT !.play = "playing"]
           call == [call |-> "play"]
<1>1. Play(m) \in {selected, Send(c, call)}
  BY DEF Play
<1>2. SameQueue(m, selected)
  <2>1. SameQueue(m, MoveFromIdle(m)) /\ Refers(FromIdle(m), m.queue)
    BY MoveTied, NextRefers DEF Tied
  <2>2. SameQueue(MoveFromIdle(m), RequestSelected(MoveFromIdle(m), FromIdle(m), m.manual))
    BY <2>1, RequestTied DEF SameQueue
  <2>3. SameQueue(m, RequestSelected(MoveFromIdle(m), FromIdle(m), m.manual))
    BY <2>1, <2>2 DEF SameQueue
  <2>4. SameQueue(m, RestartPlaylist(m, m.manual)) /\ SameQueue(m, m)
    BY RestartTied DEF SameQueue
  <2> QED
    BY <2>3, <2>4
<1> HIDE DEF selected
<1>3. MKeeps(selected, c, Beside)
  BY <1>2 DEF MKeeps, Beside, MainFields, SameQueue, Tied, Asked
<1> HIDE DEF c, call
<1>4. SameQueue(selected, c)
  BY <1>2, <1>3, BesideAlike DEF SameQueue
<1>5. SameQueue(c, Send(c, call))
  BY <1>4, SendAlike DEF SameQueue, Alike
<1> QED
  BY <1>1, <1>2, <1>4, <1>5 DEF SameQueue

\* pause() of the player.
LEMMA PauseTied ==
    ASSUME NEW m, Tied(m)
    PROVE  Alike(m, Pause(m))
<1> DEFINE c    == [m EXCEPT !.play = "paused"]
           call == [call |-> "pause"]
<1>1. Pause(m) \in {m, Send(c, call)}
  BY DEF Pause
<1>2. MKeeps(m, c, Beside) /\ c.current = m.current
  BY DEF MKeeps, Beside, MainFields, Tied, Asked
<1> HIDE DEF c, call
<1>3. Alike(m, c)
  BY <1>2, BesideAlike DEF Alike
<1>4. Alike(m, Send(c, call)) /\ Alike(m, m)
  BY <1>3, SendAlike DEF Alike, SameQueue
<1> QED
  BY <1>1, <1>4

\* PlayOrStop and PlayPause: one of the three before.
LEMMA PlayOrTied ==
    ASSUME NEW m, Tied(m)
    PROVE  SameQueue(m, PlayOrStop(m)) /\ SameQueue(m, PlayPause(m))
BY PlayTied, PauseTied, StopTied DEF PlayOrStop, PlayPause, Alike

\* One step after another.
LEMMA QueueTwice ==
    ASSUME NEW m, NEW n, NEW r, SameQueue(m, n), SameQueue(n, r)
    PROVE  SameQueue(m, r)
BY DEF SameQueue

\* A track ends after which playback is to stop.
LEMMA StopAfterCurrentTied ==
    ASSUME NEW m, Tied(m)
    PROVE  SameQueue(m, StopAfterCurrent(m))
<1> DEFINE moved == MoveInOrder(m)
           c     == [moved EXCEPT !.resume = FollowingTrack(m)]
<1>1. SameQueue(m, moved)
  BY MoveTied
<1> HIDE DEF moved
<1>2. MKeeps(moved, c, Beside)
  BY <1>1 DEF MKeeps, Beside, MainFields, SameQueue, Tied, Asked
<1> HIDE DEF c
<1>3. SameQueue(m, c)
  BY <1>1, <1>2, BesideAlike, QueueTwice DEF SameQueue
<1>4. StopAfterCurrent(m) \in {Stop(Reset(m)), StopAtEnd(m), Stop(Reset(c))}
  BY DEF StopAfterCurrent, c, moved
<1>5. SameQueue(m, Reset(m)) /\ SameQueue(c, Reset(c))
  BY <1>3, ResetTied DEF SameQueue
<1>6. SameQueue(Reset(m), Stop(Reset(m))) /\ SameQueue(Reset(c), Stop(Reset(c)))
  BY <1>5, StopTied DEF SameQueue
<1>7. SameQueue(m, Stop(Reset(m))) /\ SameQueue(m, Stop(Reset(c)))
  BY <1>3, <1>5, <1>6 DEF SameQueue
<1> QED
  BY <1>4, <1>7, StopTied

\* The end of a track: the next one is asked for, and stays queued until it is
\* committed.
LEMMA AdvanceTied ==
    ASSUME NEW m0, Tied(m0)
    PROVE  SameQueue(m0, AdvanceNaturally(m0))
<1> DEFINE m  == [m0 EXCEPT !.manual = FALSE]
           at == [m EXCEPT !.index = m.resume]
           r1 == RequestSelected(at, FromPlaylist(m.resume), FALSE)
           r2 == RequestSelected(MoveInOrder(m), InOrder(m), FALSE)
<1>1. AdvanceNaturally(m0) \in {StopAfterCurrent(m), StopAtEnd(m), PlayOrStop(m),
                                PlayOrStop(r1), PlayOrStop(r2)}
  BY DEF AdvanceNaturally
<1>2. MKeeps(m0, m, Beside)
  BY DEF MKeeps, Beside, MainFields, Tied, Asked
<1> HIDE DEF m
<1>3. SameQueue(m0, m) /\ Tied(m)
  BY <1>2, BesideAlike DEF SameQueue
<1>4. MKeeps(m, at, Beside)
  BY <1>3 DEF MKeeps, Beside, MainFields, Tied, Asked
<1> HIDE DEF at
<1>5. SameQueue(m, at) /\ Refers(FromPlaylist(m.resume), at.queue)
  BY <1>3, <1>4, BesideAlike, NextRefers DEF SameQueue, Tied
<1>6. SameQueue(m, r1)
  <2>1. SameQueue(at, r1)
    BY <1>5, RequestTied DEF SameQueue
  <2> QED
    BY <1>5, <2>1, QueueTwice
<1>7. SameQueue(m, r2)
  <2>1. SameQueue(m, MoveInOrder(m)) /\ Refers(InOrder(m), MoveInOrder(m).queue)
    BY <1>3, MoveTied, NextRefers DEF SameQueue, Tied
  <2>2. SameQueue(MoveInOrder(m), r2)
    BY <2>1, RequestTied DEF SameQueue
  <2> QED
    BY <2>1, <2>2, QueueTwice
<1> HIDE DEF r1, r2
<1>8. /\ SameQueue(m, PlayOrStop(m)) /\ SameQueue(m, PlayOrStop(r1))
      /\ SameQueue(m, PlayOrStop(r2))
  BY <1>3, <1>6, <1>7, PlayOrTied, QueueTwice DEF SameQueue
<1>9. SameQueue(m, StopAfterCurrent(m)) /\ SameQueue(m, StopAtEnd(m))
  BY <1>3, StopAfterCurrentTied, StopTied
<1> QED
  BY <1>1, <1>3, <1>8, <1>9, QueueTwice

\* next() of the player.
LEMMA SkipTied ==
    ASSUME NEW m0, Tied(m0)
    PROVE  Tied(SkipToNext(m0))
<1> DEFINE m       == [m0 EXCEPT !.manual = TRUE]
           resumed == IF m.resume = 0 THEN m ELSE [m EXCEPT !.index = m.resume, !.resume = 0]
           moved   == MoveInOrder(resumed)
           r1      == RestartPlaylist(m, TRUE)
           r2      == RequestSelected(moved, InOrder(resumed), TRUE)
<1>1. SkipToNext(m0) \in {PlayOrStop(r1), Play(m), PlayOrStop(r2), moved, StopAtEnd(moved)}
  BY DEF SkipToNext
<1>2. MKeeps(m0, m, Beside)
  BY DEF MKeeps, Beside, MainFields, Tied, Asked
<1> HIDE DEF m
<1>3. Tied(m)
  BY <1>2, BesideAlike DEF SameQueue
<1>4. MKeeps(m, resumed, Beside)
  BY <1>3 DEF MKeeps, Beside, MainFields, Tied, Asked
<1> HIDE DEF resumed
<1>5. Tied(resumed)
  BY <1>3, <1>4, BesideAlike DEF SameQueue
<1>6. Tied(moved) /\ Refers(InOrder(resumed), moved.queue)
  BY <1>5, MoveTied, NextRefers DEF SameQueue, Tied
<1> HIDE DEF moved
<1>7. Tied(r1) /\ Tied(r2)
  BY <1>3, <1>6, RestartTied, RequestTied DEF SameQueue
<1> HIDE DEF r1, r2
<1>8. /\ Tied(PlayOrStop(r1)) /\ Tied(PlayOrStop(r2)) /\ Tied(Play(m))
      /\ Tied(StopAtEnd(moved))
  BY <1>3, <1>6, <1>7, PlayOrTied, PlayTied, StopTied DEF SameQueue
<1> QED
  BY <1>1, <1>6, <1>8

\* The user chooses a track of the playlist, which refers to no entry.
LEMMA SelectTied ==
    ASSUME NEW m, NEW i, Tied(m)
    PROVE  Tied(Select(m, i))
<1> DEFINE c      == [m EXCEPT !.index = i]
           queued == \E k \in DOMAIN m.queue : m.queue[k].track = i
           o      == [FromPlaylist(i) EXCEPT !.queued = queued]
           r      == RequestTrackChange(c, o, TRUE)
<1>1. Select(m, i) = Play(r)
  BY DEF Select
<1>2. MKeeps(m, c, Beside)
  BY DEF MKeeps, Beside, MainFields, Tied, Asked
<1> HIDE DEF c, queued
<1>3. o.qid = 0
  BY DEF FromPlaylist, NoOccurrence
<1> HIDE DEF o
<1>4. SameQueue(m, c)
  BY <1>2, BesideAlike
<1>5. Refers(o, c.queue)
  BY <1>3, <1>4 DEF Refers, SameQueue, Tied, Asked, Entries
<1>6. Tied(r)
  BY <1>4, <1>5, RequestTied DEF SameQueue
<1> HIDE DEF r
<1> QED
  BY <1>1, <1>6, PlayTied DEF SameQueue

\* The stop after the current track is armed, or no longer.
LEMMA SetArmedTied ==
    ASSUME NEW m, NEW armed, Tied(m)
    PROVE  Tied(SetArmed(m, armed))
<1> DEFINE f     == ForgetTransitions(m)
           c     == [f EXCEPT !.armed = armed]
           told  == Send(c, [call |-> "auto", on |-> ~armed])
           r     == Send(told, [call |-> "candidate", item |-> Item(m.upcoming)])
<1>1. SetArmed(m, armed) = EmitUpcoming(IF armed THEN told ELSE r)
  BY DEF SetArmed
<1>2. Tied(f)
  BY ForgetAlike DEF Alike, SameQueue
<1> HIDE DEF f
<1>3. MKeeps(f, c, Beside)
  BY <1>2 DEF MKeeps, Beside, MainFields, Tied, Asked
<1> HIDE DEF c
<1>4. Tied(told)
  BY <1>2, <1>3, BesideAlike, SendAlike DEF Alike, SameQueue
<1> HIDE DEF told
<1>5. Tied(r)
  BY <1>4, SendAlike DEF Alike, SameQueue
<1> HIDE DEF r
<1> QED
  BY <1>1, <1>4, <1>5, EmitUpcomingTied DEF Tied, Alike, SameQueue

-----------------------------------------------------------------------------
(* The queue changes.                                                       *)

\* A track is queued, with an id that nothing refers to.
LEMMA EnqueueTied ==
    ASSUME NEW m, NEW i, Tied(m),
           Min(m.pool) \notin {0, m.request.qid, m.change.qid},
           \A k \in 1 .. Len(m.queue) : m.queue[k].qid # Min(m.pool)
    PROVE  Tied(Enqueue(m, i))
<1> DEFINE qid   == Min(m.pool)
           entry == [track |-> i, qid |-> qid]
           q     == Append(m.queue, entry)
           n     == Len(m.queue)
           c     == [m EXCEPT !.queue = q, !.pool = @ \ {qid}]
<1>1. Enqueue(m, i) = EmitUpcoming(c)
  BY DEF Enqueue
<1>2. /\ DOMAIN c = MainFields /\ c.queue = q /\ c.request = m.request /\ c.change = m.change
  BY DEF MainFields, Tied, Asked
<1> HIDE DEF c
<1>3. entry.qid = qid
  OBVIOUS
<1>4. qid \notin {0, m.request.qid, m.change.qid} /\ \A k \in 1 .. n : m.queue[k].qid # qid
  OBVIOUS
<1>5. /\ IsSeq(q) /\ Len(q) = n + 1 /\ n \in Nat /\ q[n + 1] = entry
      /\ \A k \in 1 .. n : q[k] = m.queue[k]
  BY AppendSeq DEF Tied, Asked, Entries
<1> HIDE DEF qid, entry, q, n
<1>6. \A k \in 1 .. Len(q) : \/ k = n + 1 /\ q[k].qid = qid
                             \/ k \in 1 .. n /\ q[k] = m.queue[k] /\ q[k].qid # qid
  BY <1>3, <1>4, <1>5
<1>7. Entries(q)
  <2>1. Entries(m.queue)
    BY DEF Tied, Asked
  <2>2. \A k \in 1 .. Len(q) : q[k].qid # 0
    BY <1>4, <1>6, <2>1 DEF Entries, n
  <2>3. ASSUME NEW j \in 1 .. Len(q), NEW k \in 1 .. Len(q), q[j].qid = q[k].qid
        PROVE  q[j].track = q[k].track
    <3>1. CASE q[j].qid = qid
      <4>1. j = n + 1 /\ k = n + 1
        BY <1>6, <2>3, <3>1
      <4> QED BY <4>1
    <3>2. CASE q[j].qid # qid
      <4>1. j \in 1 .. n /\ k \in 1 .. n /\ q[j] = m.queue[j] /\ q[k] = m.queue[k]
        BY <1>6, <2>3, <3>2
      <4> QED BY <2>1, <2>3, <4>1 DEF Entries, n
    <3> QED BY <3>1, <3>2
  <2> QED
    BY <1>5, <2>2, <2>3 DEF Entries
<1>8. Refers(m.request, q) /\ Refers(m.change, q)
  BY <1>4, <1>6 DEF Refers, Tied, Asked, n
<1>9. Asked(c)
  BY <1>2, <1>7, <1>8 DEF Asked
<1> QED
  BY <1>1, <1>9, EmitUpcomingTied DEF Alike, SameQueue

\* The queue is cleared.
LEMMA ClearTied ==
    ASSUME NEW m, Tied(m)
    PROVE  Tied(ClearQueue(m))
<1> DEFINE c == [m EXCEPT !.queue = <<>>]
<1>1. ClearQueue(m) = EmitUpcoming(c)
  BY DEF ClearQueue
<1>2. /\ DOMAIN c = MainFields /\ c.queue = <<>> /\ c.request = m.request
      /\ c.change = m.change
  BY DEF MainFields, Tied, Asked
<1> HIDE DEF c
<1>3. IsSeq(<<>>) /\ 1 .. Len(<<>>) = {}
  BY DEF IsSeq
<1>4. Asked(c)
  BY <1>2, <1>3 DEF Asked, Entries, Refers
<1> QED
  BY <1>1, <1>4, EmitUpcomingTied DEF Alike, SameQueue

\* What is left when one element is removed.
LEMMA RemoveAtSpec ==
    ASSUME NEW s, IsSeq(s), NEW at \in 1 .. Len(s)
    PROVE  /\ IsSeq(RemoveAt(s, at))
           /\ \A i \in 1 .. Len(RemoveAt(s, at)) : \E j \in 1 .. Len(s) : RemoveAt(s, at)[i] = s[j]
           /\ \A j \in 1 .. Len(s) :
                 j # at => \E i \in 1 .. Len(RemoveAt(s, at)) : RemoveAt(s, at)[i] = s[j]
<1>1. PICK S : s \in Seq(S)
  BY DEF IsSeq
<1> DEFINE l == SubSeq(s, 1, at - 1)
           r == SubSeq(s, at + 1, Len(s))
           e == RemoveAt(s, at)
<1>n. Len(s) \in Nat /\ at \in Nat /\ at >= 1 /\ at <= Len(s)
  BY <1>1
<1>2. l \in Seq(S) /\ Len(l) = at - 1 /\ \A i \in 1 .. Len(l) : l[i] = s[i]
  BY <1>1
<1>3. r \in Seq(S) /\ Len(r) = Len(s) - at /\ \A i \in 1 .. Len(r) : r[i] = s[at + i]
  BY <1>1
<1>4. e = l \o r
  BY DEF RemoveAt
<1> HIDE DEF l, r, e
<1>5. /\ e \in Seq(S) /\ Len(e) = Len(l) + Len(r)
      /\ \A i \in 1 .. (Len(l) + Len(r)) : e[i] = IF i <= Len(l) THEN l[i] ELSE r[i - Len(l)]
  <2>1. l \in Seq(S) /\ r \in Seq(S)
    BY <1>2, <1>3
  <2>2. /\ (l \o r) \in Seq(S) /\ Len(l \o r) = Len(l) + Len(r)
        /\ \A i \in 1 .. (Len(l) + Len(r)) :
              (l \o r)[i] = IF i <= Len(l) THEN l[i] ELSE r[i - Len(l)]
    BY <2>1
  <2> QED
    BY <1>4, <2>2
<1>6. Len(e) = Len(s) - 1
  BY <1>n, <1>2, <1>3, <1>5
<1>7. ASSUME NEW i \in 1 .. Len(e)
      PROVE  e[i] = IF i < at THEN s[i] ELSE s[i + 1]
  <2>1. CASE i < at
    <3>1. i <= Len(l) /\ i \in 1 .. Len(l)
      BY <1>n, <1>2, <1>6, <2>1
    <3>2. e[i] = l[i]
      BY <1>5, <3>1
    <3> QED BY <1>2, <2>1, <3>1, <3>2
  <2>2. CASE ~(i < at)
    <3>1. ~(i <= Len(l)) /\ i - Len(l) \in 1 .. Len(r) /\ at + (i - Len(l)) = i + 1
      <4>1. Len(l) = at - 1 /\ Len(r) = Len(s) - at
        BY <1>2, <1>3
      <4> QED BY <1>n, <1>6, <2>2, <4>1
    <3> DEFINE k == i - Len(l)
    <3>2. i \in 1 .. (Len(l) + Len(r)) /\ e[i] = r[k]
      BY <1>5, <3>1
    <3> HIDE DEF k
    <3>3. r[k] = s[at + k]
      BY <1>3, <3>1 DEF k
    <3> QED BY <2>2, <3>1, <3>2, <3>3 DEF k
  <2> QED BY <2>1, <2>2
<1>8. \A i \in 1 .. Len(e) : \E j \in 1 .. Len(s) : e[i] = s[j]
  <2> SUFFICES ASSUME NEW i \in 1 .. Len(e)
               PROVE  \E j \in 1 .. Len(s) : e[i] = s[j]
    OBVIOUS
  <2>1. i \in 1 .. Len(s) /\ i + 1 \in 1 .. Len(s)
    BY <1>n, <1>6
  <2> QED
    BY <1>7, <2>1
<1>9. ASSUME NEW j \in 1 .. Len(s), j # at
      PROVE  \E i \in 1 .. Len(e) : e[i] = s[j]
  <2>1. CASE j < at
    <3>1. j \in 1 .. Len(e)
      BY <1>n, <1>6, <2>1
    <3> QED BY <1>7, <2>1, <3>1
  <2>2. CASE j > at
    <3>1. j - 1 \in 1 .. Len(e) /\ ~(j - 1 < at) /\ (j - 1) + 1 = j
      BY <1>n, <1>6, <2>2
    <3> QED BY <1>7, <3>1
  <2> QED BY <1>n, <1>9, <2>1, <2>2
<1>10. IsSeq(e)
  BY <1>5 DEF IsSeq
<1> QED
  BY <1>8, <1>9, <1>10 DEF e

\* What is left of the queue when the entry of r goes, and which one that is.
LEMMA DequeuedSpec ==
    ASSUME NEW q, NEW r, Entries(q), Refers(r, q), r.queued
    PROVE  LET d == Dequeued(q, r)
           IN  /\ IsSeq(d)
               /\ \A i \in 1 .. Len(d) : \E j \in 1 .. Len(q) : d[i] = q[j]
               /\ \A j \in 1 .. Len(q) : \/ \E i \in 1 .. Len(d) : d[i] = q[j]
                                         \/ q[j].track = r.track
<1> DEFINE byId == {i \in 1 .. Len(q) : q[i].qid = r.qid}
           byTrack == {i \in 1 .. Len(q) : q[i].track = r.track}
           at(I) == IF I # {} THEN Min(I) ELSE 0
           d == Dequeued(q, r)
<1>1. IsSeq(q) /\ DOMAIN q = 1 .. Len(q) /\ Len(q) \in Nat
  BY DEF Entries, IsSeq
<1>2. d = IF at(IF byId # {} THEN byId ELSE byTrack) = 0 THEN q
          ELSE RemoveAt(q, at(IF byId # {} THEN byId ELSE byTrack))
  BY <1>1 DEF Dequeued, SelectInSeq
<1>3. byId \subseteq 1 .. Len(q) /\ byTrack \subseteq 1 .. Len(q)
  OBVIOUS
<1>4. \A i \in byId \cup byTrack : q[i].track = r.track
  BY DEF Refers
<1> DEFINE I == IF byId # {} THEN byId ELSE byTrack
<1>5. I \subseteq 1 .. Len(q) /\ \A i \in I : q[i].track = r.track
  BY <1>3, <1>4
<1>6. d = IF at(I) = 0 THEN q ELSE RemoveAt(q, at(I))
  BY <1>2
<1> HIDE DEF d, I, byId, byTrack
<1>7. CASE I = {}
  BY <1>1, <1>6, <1>7 DEF d
<1>8. CASE I # {}
  <2> DEFINE k == Min(I)
  <2>1. I \subseteq Nat
    BY <1>1, <1>5
  <2>2. k \in I
    BY <1>8, <2>1, LeastId
  <2>3. at(I) = k
    BY <1>8
  <2> HIDE DEF k
  <2>4. k \in 1 .. Len(q) /\ k # 0 /\ q[k].track = r.track
    BY <1>1, <1>5, <2>2
  <2>5. d = RemoveAt(q, k)
    BY <1>6, <2>3, <2>4
  <2>6. /\ IsSeq(d)
        /\ \A i \in 1 .. Len(d) : \E j \in 1 .. Len(q) : d[i] = q[j]
        /\ \A j \in 1 .. Len(q) : j # k => \E i \in 1 .. Len(d) : d[i] = q[j]
    <3> DEFINE x == RemoveAt(q, k)
    <3>1. /\ IsSeq(x)
          /\ \A i \in 1 .. Len(x) : \E j \in 1 .. Len(q) : x[i] = q[j]
          /\ \A j \in 1 .. Len(q) : j # k => \E i \in 1 .. Len(x) : x[i] = q[j]
      BY <1>1, <2>4, RemoveAtSpec
    <3>2. d = x
      BY <2>5
    <3> HIDE DEF x
    <3> QED
      BY <3>1, <3>2
  <2>7. \A j \in 1 .. Len(q) : \/ \E i \in 1 .. Len(d) : d[i] = q[j]
                               \/ q[j].track = r.track
    BY <2>4, <2>6
  <2> QED
    BY <2>6, <2>7 DEF d
<1> QED
  BY <1>7, <1>8

\* What comes from the entries of a queue, comes from the entries of a part of it.
LEMMA PartTied ==
    ASSUME NEW q, NEW d, Entries(q), IsSeq(d),
           \A i \in 1 .. Len(d) : \E j \in 1 .. Len(q) : d[i] = q[j]
    PROVE  Entries(d) /\ \A o : Refers(o, q) => Refers(o, d)
<1>1. \A i \in 1 .. Len(d) : d[i].qid # 0
  BY DEF Entries
<1>2. ASSUME NEW i \in 1 .. Len(d), NEW k \in 1 .. Len(d), d[i].qid = d[k].qid
      PROVE  d[i].track = d[k].track
  <2>1. PICK x \in 1 .. Len(q) : d[i] = q[x]
    OBVIOUS
  <2>2. PICK y \in 1 .. Len(q) : d[k] = q[y]
    OBVIOUS
  <2> QED
    BY <1>2, <2>1, <2>2 DEF Entries
<1>3. ASSUME NEW o, Refers(o, q), o.queued, NEW k \in 1 .. Len(d), d[k].qid = o.qid
      PROVE  d[k].track = o.track
  BY <1>3 DEF Refers
<1> QED
  BY <1>1, <1>2, <1>3 DEF Entries, Refers

\* What plays takes its entry with it, and no other.
LEMMA CommitTied ==
    ASSUME NEW m, NEW r, Tied(m), Refers(r, m.queue)
    PROVE  Plays(m.queue, Commit(m, r))
<1> DEFINE from == IF Item(m.request) = Item(r) THEN m.request ELSE r
           cur  == [track |-> r.track, item |-> r.item, queued |-> from.queued,
                    qid |-> from.qid]
           q    == m.queue
           d    == IF from.queued THEN Dequeued(q, from) ELSE q
           c    == [m EXCEPT !.current = cur,
                             !.manual = FALSE, !.resume = 0, !.request = NoRequest,
                             !.atEnd = FALSE,
                             !.index = IF from.queued THEN @ ELSE r.track,
                             !.queue = IF from.queued THEN Dequeued(@, from) ELSE @]
           e    == Commit(m, r)
<1>1. e = EmitUpcoming(c)
  BY DEF Commit
<1>2. from.track = r.track
  BY DEF Item
<1>3. Refers(from, q)
  BY DEF Tied, Asked
<1>4. cur.track = r.track /\ cur.queued = from.queued
  OBVIOUS
<1> HIDE DEF from
<1>5. /\ DOMAIN c = MainFields /\ c.queue = d /\ c.request = NoRequest
      /\ c.change = m.change /\ c.current = cur
  BY DEF MainFields, Tied, Asked
<1> HIDE DEF c, e, cur
<1>6. Entries(q) /\ Refers(m.change, q)
  BY DEF Tied, Asked
<1>7. /\ IsSeq(d)
      /\ \A i \in 1 .. Len(d) : \E j \in 1 .. Len(q) : d[i] = q[j]
      /\ \A j \in 1 .. Len(q) : \/ \E i \in 1 .. Len(d) : d[i] = q[j]
                                \/ from.queued /\ q[j].track = from.track
  <2>1. CASE from.queued
    <3> DEFINE x == Dequeued(q, from)
    <3>1. /\ IsSeq(x)
          /\ \A i \in 1 .. Len(x) : \E j \in 1 .. Len(q) : x[i] = q[j]
          /\ \A j \in 1 .. Len(q) : \/ \E i \in 1 .. Len(x) : x[i] = q[j]
                                    \/ q[j].track = from.track
      BY <1>3, <1>6, <2>1, DequeuedSpec
    <3>2. d = x
      BY <2>1
    <3> HIDE DEF x, d
    <3> QED
      BY <2>1, <3>1, <3>2
  <2>2. CASE ~from.queued
    BY <1>6, <2>2 DEF Entries
  <2> QED
    BY <2>1, <2>2
<1> HIDE DEF d, q
<1>8. Entries(d) /\ Refers(m.change, d)
  BY <1>6, <1>7, PartTied
<1>9. Refers(NoRequest, d)
  BY DEF Refers, NoRequest
<1>10. Asked(c)
  BY <1>5, <1>8, <1>9 DEF Asked
<1>11. Tied(e) /\ e.queue = d /\ e.current = cur
  BY <1>1, <1>5, <1>10, EmitUpcomingTied DEF Alike, SameQueue
<1>12. \A k \in 1 .. Len(q) : \/ \E j \in 1 .. Len(e.queue) : e.queue[j] = q[k]
                              \/ e.current.queued /\ e.current.track = q[k].track
  BY <1>2, <1>4, <1>7, <1>11
<1> QED
  BY <1>11, <1>12 DEF Plays, e, q

\* What plays goes on playing when neither it nor the queue changes; and where
\* the queue does not change, nothing is lost.
LEMMA PlaysKept ==
    /\ \A q, r, x : Plays(q, r) /\ Alike(r, x) => Plays(q, x)
    /\ \A m, r : SameQueue(m, r) => Plays(m.queue, r)
<1>1. ASSUME NEW q, NEW r, NEW x, Plays(q, r), Alike(r, x)
      PROVE  Plays(q, x)
  <2>1. Tied(x) /\ x.queue = r.queue /\ x.current = r.current
    BY <1>1 DEF Alike, SameQueue
  <2> QED
    BY <1>1, <2>1 DEF Plays
<1>2. ASSUME NEW m, NEW r, SameQueue(m, r)
      PROVE  Plays(m.queue, r)
  <2>1. Tied(r) /\ r.queue = m.queue
    BY <1>2 DEF SameQueue
  <2> QED
    BY <2>1 DEF Plays
<1> QED
  BY <1>1, <1>2

\* The handler lets the player move on at the end of a track.
LEMMA TryAdvanceTied ==
    ASSUME NEW m, Tied(m)
    PROVE  SameQueue(m, TryAdvance(m))
<1>1. SameQueue(m, m)
  BY DEF SameQueue
<1>2. SameQueue(m, ForgetEnding(m)) /\ Tied(ForgetEnding(m))
  BY ForgetAlike DEF Alike, SameQueue
<1>3. SameQueue(m, AdvanceNaturally(ForgetEnding(m)))
  BY <1>2, AdvanceTied, QueueTwice
<1> QED
  BY <1>1, <1>3 DEF TryAdvance

\* The engine has passed the end of a track.
LEMMA HandleBoundaryTied ==
    ASSUME NEW m, NEW s, Tied(m)
    PROVE  SameQueue(m, HandleBoundary(m, s))
<1> DEFINE note(n) == [n EXCEPT !.owned = [track |-> s.track, item |-> n.upcoming.item,
                                           gen |-> s.gen]]
           f       == ForgetOwned(m)
           wait    == [f EXCEPT !.ending = [track |-> s.track, gen |-> s.gen, ready |-> ~s.rest]]
           timed   == [wait EXCEPT !.timers = @ \cup {[track |-> s.track, gen |-> s.gen]}]
           c1      == [call |-> "candidate", item |-> Item(m.upcoming)]
           c2      == [call |-> "prepare", item |-> Item(m.upcoming)]
           m1      == Send(m, c1)
           m2      == Send(m1, c2)
<1>1. HandleBoundary(m, s) \in {m, note(m), note(m2), timed, TryAdvance(wait)}
  BY DEF HandleBoundary
<1>2. ASSUME NEW n, Tied(n)
      PROVE  SameQueue(n, note(n))
  <2> DEFINE r == note(n)
  <2>1. MKeeps(n, r, Beside)
    BY <1>2 DEF MKeeps, Beside, MainFields, Tied, Asked
  <2> HIDE DEF r
  <2> QED
    BY <1>2, <2>1, BesideAlike DEF r
<1> HIDE DEF note
<1>3. SameQueue(m, f) /\ Tied(f)
  BY ForgetAlike DEF Alike, SameQueue
<1> HIDE DEF f
<1>4. MKeeps(f, wait, Beside) /\ MKeeps(f, timed, Beside)
  BY <1>3 DEF MKeeps, Beside, MainFields, Tied, Asked
<1> HIDE DEF wait, timed
<1>5. SameQueue(f, wait) /\ SameQueue(f, timed)
  BY <1>3, <1>4, BesideAlike
<1>6. SameQueue(m, wait) /\ SameQueue(m, timed) /\ Tied(wait)
  BY <1>3, <1>5, QueueTwice DEF SameQueue
<1>7. SameQueue(m, TryAdvance(wait))
  BY <1>6, TryAdvanceTied, QueueTwice
<1> HIDE DEF c1, c2
<1>8. SameQueue(m, m1) /\ Tied(m1)
  BY SendAlike DEF Alike, SameQueue
<1> HIDE DEF m1
<1>9. SameQueue(m1, m2)
  BY <1>8, SendAlike DEF Alike
<1>10. SameQueue(m, m2) /\ Tied(m2)
  BY <1>8, <1>9, QueueTwice DEF SameQueue
<1> HIDE DEF m2
<1>11. SameQueue(m, note(m)) /\ SameQueue(m, note(m2)) /\ SameQueue(m, m)
  BY <1>2, <1>10, QueueTwice DEF SameQueue
<1> QED
  BY <1>1, <1>6, <1>7, <1>11

\* A timer of the handler fires.
LEMMA TimerTied ==
    ASSUME NEW m, Tied(m)
    PROVE  /\ \A t : SameQueue(m, RestPlayed(m, t))
           /\ SameQueue(m, WatchdogExpires(m))
<1>1. ASSUME NEW t
      PROVE  SameQueue(m, RestPlayed(m, t))
  <2> DEFINE fired == [m EXCEPT !.timers = @ \ {t}]
             ready == [fired EXCEPT !.ending.ready = TRUE]
  <2>1. RestPlayed(m, t) \in {fired, TryAdvance(ready)}
    BY DEF RestPlayed
  <2>2. MKeeps(m, fired, Beside)
    BY DEF MKeeps, Beside, MainFields, Tied, Asked
  <2> HIDE DEF fired
  <2>3. SameQueue(m, fired) /\ Tied(fired)
    BY <2>2, BesideAlike DEF SameQueue
  <2>4. MKeeps(fired, ready, Beside)
    BY <2>3 DEF MKeeps, Beside, MainFields, Tied, Asked
  <2> HIDE DEF ready
  <2>5. SameQueue(m, ready) /\ Tied(ready)
    BY <2>3, <2>4, BesideAlike, QueueTwice DEF SameQueue
  <2>6. SameQueue(m, TryAdvance(ready))
    BY <2>5, TryAdvanceTied, QueueTwice
  <2> QED
    BY <2>1, <2>3, <2>6
<1>2. SameQueue(m, WatchdogExpires(m))
  <2> DEFINE fired == [m EXCEPT !.watchdog = FALSE]
  <2>1. WatchdogExpires(m) \in {fired, AdvanceNaturally(ForgetOwned(fired))}
    BY DEF WatchdogExpires
  <2>2. MKeeps(m, fired, Beside)
    BY DEF MKeeps, Beside, MainFields, Tied, Asked
  <2> HIDE DEF fired
  <2>3. SameQueue(m, fired) /\ Tied(fired)
    BY <2>2, BesideAlike DEF SameQueue
  <2>4. SameQueue(fired, ForgetOwned(fired)) /\ Tied(ForgetOwned(fired))
    BY <2>3, ForgetAlike DEF Alike, SameQueue
  <2>5. SameQueue(fired, AdvanceNaturally(ForgetOwned(fired)))
    BY <2>4, AdvanceTied, QueueTwice
  <2> QED
    BY <2>1, <2>3, <2>5, QueueTwice
<1> QED
  BY <1>1, <1>2

\* The engine has moved on by itself.
LEMMA HandleCommittedTied ==
    ASSUME NEW m0, NEW s, Tied(m0)
    PROVE  Plays(m0.queue, HandleCommitted(m0, s))
<1> DEFINE f == ForgetEnding(m0)
           m == [f EXCEPT !.heard = s.item]
           c == Commit(m, m.change)
           u == Commit(m, m.upcoming)
<1>1. HandleCommitted(m0, s) \in {ForgetOwned(ForgetChange(c)), m,
                                  AdvanceNaturally(ForgetOwned(m)), ForgetOwned(u)}
  BY DEF HandleCommitted
<1>2. SameQueue(m0, f) /\ Tied(f)
  BY ForgetAlike DEF Alike, SameQueue
<1> HIDE DEF f
<1>3. MKeeps(f, m, Beside)
  BY <1>2 DEF MKeeps, Beside, MainFields, Tied, Asked
<1> HIDE DEF m
<1>4. SameQueue(m0, m) /\ Tied(m) /\ m.queue = m0.queue
  BY <1>2, <1>3, BesideAlike, QueueTwice DEF SameQueue
<1>5. Plays(m0.queue, c) /\ Plays(m0.queue, u)
  BY <1>4, CommitTied DEF Tied, Asked
<1> HIDE DEF c, u
<1>6. ASSUME NEW x, Plays(m0.queue, x)
      PROVE  /\ Plays(m0.queue, ForgetOwned(x)) /\ Plays(m0.queue, ForgetChange(x))
  <2>1. Tied(x)
    BY <1>6 DEF Plays
  <2>2. Alike(x, ForgetOwned(x)) /\ Alike(x, ForgetChange(x))
    BY <2>1, ForgetAlike
  <2> QED
    BY <1>6, <2>2, PlaysKept
<1>7. Plays(m0.queue, ForgetOwned(ForgetChange(c))) /\ Plays(m0.queue, ForgetOwned(u))
  BY <1>5, <1>6
<1>8. SameQueue(m, ForgetOwned(m)) /\ Tied(ForgetOwned(m))
  BY <1>4, ForgetAlike DEF Alike, SameQueue
<1>9. SameQueue(m0, AdvanceNaturally(ForgetOwned(m)))
  BY <1>4, <1>8, AdvanceTied, QueueTwice
<1> QED
  BY <1>1, <1>4, <1>7, <1>9, PlaysKept

\* The status of the track has changed.
LEMMA HandleStatusTied ==
    ASSUME NEW m, NEW s, Tied(m), s.status \in {"none", "end", "invalid", "loading"}
    PROVE  Plays(m.queue, HandleStatus(m, s))
<1> DEFINE f == ForgetTransitions(m)
<1>f. SameQueue(m, f) /\ Tied(f) /\ f.queue = m.queue
  BY ForgetAlike DEF Alike, SameQueue
<1>1. CASE s.status = "none"
  <2> DEFINE g == ForgetChange(f)
  <2>1. HandleStatus(m, s) = EnterStopped(g, FALSE)
    BY <1>1 DEF HandleStatus
  <2> HIDE DEF f
  <2>2. SameQueue(f, g) /\ Tied(g)
    BY <1>f, ForgetAlike DEF Alike, SameQueue
  <2> HIDE DEF g
  <2>3. SameQueue(g, EnterStopped(g, FALSE))
    BY <2>2, EnterStoppedTied DEF Alike
  <2> QED
    BY <1>f, <2>1, <2>2, <2>3, QueueTwice, PlaysKept
<1>2. CASE s.status = "end"
  <2> DEFINE c == [m EXCEPT !.suppressed = TRUE, !.watchdog = TRUE]
  <2>1. HandleStatus(m, s) \in {m, c}
    BY <1>2 DEF HandleStatus
  <2>2. MKeeps(m, c, Beside)
    BY DEF MKeeps, Beside, MainFields, Tied, Asked
  <2> HIDE DEF c
  <2>3. SameQueue(m, m) /\ SameQueue(m, c)
    BY <2>2, BesideAlike DEF SameQueue
  <2> QED
    BY <2>1, <2>3, PlaysKept
<1>3. CASE s.status = "invalid"
  <2> DEFINE c == Commit(f, m.change)
             g == ForgetChange(c)
  <2>1. HandleStatus(m, s) \in {Pause(g), Pause(f)}
    BY <1>3 DEF HandleStatus
  <2> HIDE DEF f
  <2>2. Refers(m.change, f.queue)
    BY <1>f DEF Tied, Asked
  <2>3. Plays(m.queue, c) /\ Tied(c)
    BY <1>f, <2>2, CommitTied DEF Plays
  <2> HIDE DEF c
  <2>4. Plays(m.queue, g) /\ Tied(g)
    <3>1. Alike(c, g)
      BY <2>3, ForgetAlike
    <3> HIDE DEF g
    <3>2. Plays(m.queue, g)
      BY <2>3, <3>1, PlaysKept
    <3> QED
      BY <3>2 DEF Plays
  <2> HIDE DEF g
  <2>5. Plays(m.queue, Pause(g))
    BY <2>4, PauseTied, PlaysKept
  <2>6. Plays(m.queue, Pause(f))
    BY <1>f, PauseTied, PlaysKept
  <2> QED
    BY <2>1, <2>5, <2>6
<1>4. CASE s.status = "loading"
  <2> DEFINE c == [m EXCEPT !.changeGen = s.gen]
  <2>1. HandleStatus(m, s) \in {m, c}
    BY <1>4 DEF HandleStatus
  <2>2. MKeeps(m, c, Beside)
    BY DEF MKeeps, Beside, MainFields, Tied, Asked
  <2> HIDE DEF c
  <2>3. SameQueue(m, m) /\ SameQueue(m, c)
    BY <2>2, BesideAlike DEF SameQueue
  <2> QED
    BY <2>1, <2>3, PlaysKept
<1> QED
  BY <1>1, <1>2, <1>3, <1>4

\* The engine plays, pauses or stops.
LEMMA HandleStateTied ==
    ASSUME NEW m, NEW s, Tied(m), s.play \in {"stopped", "paused", "playing"}
    PROVE  SameQueue(m, HandleState(m, s))
<1>1. CASE s.play = "stopped"
  <2> DEFINE f == ForgetTransitions(m)
  <2>1. HandleState(m, s) = EnterStopped(f, FALSE)
    BY <1>1 DEF HandleState
  <2>2. SameQueue(m, f) /\ Tied(f)
    BY ForgetAlike DEF Alike, SameQueue
  <2> HIDE DEF f
  <2>3. SameQueue(f, EnterStopped(f, FALSE))
    BY <2>2, EnterStoppedTied DEF Alike
  <2> QED
    BY <2>1, <2>2, <2>3, QueueTwice
<1>2. ASSUME NEW p, NEW w
      PROVE  SameQueue(m, [m EXCEPT !.play = p, !.watchdog = w])
  <2> DEFINE c == [m EXCEPT !.play = p, !.watchdog = w]
  <2>1. MKeeps(m, c, Beside)
    BY DEF MKeeps, Beside, MainFields, Tied, Asked
  <2> HIDE DEF c
  <2>2. SameQueue(m, c)
    BY <2>1, BesideAlike
  <2> QED
    BY <2>2 DEF c
<1>3. CASE s.play = "paused"
  <2> DEFINE w == m.watchdog /\ ~m.suppressed
  <2>1. HandleState(m, s) = [m EXCEPT !.play = "paused", !.watchdog = w]
    BY <1>3 DEF HandleState
  <2> HIDE DEF w
  <2>2. SameQueue(m, [m EXCEPT !.play = "paused", !.watchdog = w])
    BY <1>2, Zenon
  <2> QED
    BY <2>1, <2>2
<1>4. CASE s.play = "playing"
  <2> DEFINE w == m.watchdog \/ (m.suppressed /\ m.owned.track # 0)
  <2>1. HandleState(m, s) = [m EXCEPT !.play = "playing", !.watchdog = w]
    BY <1>4 DEF HandleState
  <2> HIDE DEF w
  <2>2. SameQueue(m, [m EXCEPT !.play = "playing", !.watchdog = w])
    BY <1>2, Zenon
  <2> QED
    BY <2>1, <2>2
<1> QED
  BY <1>1, <1>3, <1>4

\* Whatever signal the handler receives, the queue loses only what plays.
LEMMA HandleTied ==
    ASSUME NEW m, NEW s, Tied(m), SignalOk(s)
    PROVE  Plays(m.queue, Handle(m, s))
<1>1. CASE s.signal = "boundary"
  BY <1>1, HandleBoundaryTied, PlaysKept DEF Handle
<1>2. CASE s.signal = "committed"
  BY <1>2, HandleCommittedTied DEF Handle
<1>3. CASE s.signal = "status"
  BY <1>3, HandleStatusTied DEF Handle, SignalOk
<1>4. CASE s.signal = "state"
  BY <1>4, HandleStateTied, PlaysKept DEF Handle, SignalOk
<1>5. CASE s.signal = "unready"
  <2>1. Handle(m, s) \in {m, WatchdogExpires(m)}
    BY <1>5 DEF Handle, HandleUnready
  <2>2. SameQueue(m, m) /\ SameQueue(m, WatchdogExpires(m))
    BY TimerTied DEF SameQueue
  <2> QED
    BY <2>1, <2>2, PlaysKept
<1> QED
  BY <1>1, <1>2, <1>3, <1>4, <1>5 DEF SignalOk

-----------------------------------------------------------------------------
(* The queue, whatever the two sides do.                                    *)

\* Commands are numbered, so that a command of the user is a step of its own.
QInv == Tied(main) /\ commands \in Nat

\* The names given to new entries.
LEMMA RenamedTied ==
    ASSUME NEW m, NEW p, Tied(m)
    PROVE  Alike(m, [m EXCEPT !.pool = p])
<1> DEFINE r == [m EXCEPT !.pool = p]
<1>1. MKeeps(m, r, Beside) /\ r.current = m.current
  BY DEF MKeeps, Beside, MainFields, Tied, Asked
<1> HIDE DEF r
<1> QED
  BY <1>1, BesideAlike DEF Alike, r

\* There are names for two things, and one for a generation.
LEMMA NamesFree ==
    ASSUME NamesLeft, DOMAIN main = MainFields
    PROVE  /\ Main.pool = (1 .. MaxItem) \ ItemsInUse /\ Main.pool \subseteq Nat \ {0}
           /\ Main.pool # {} /\ \A x : Main.pool \ {x} # {}
<1>1. Main.pool = (1 .. MaxItem) \ ItemsInUse
  BY DEF Main, MainFields
<1>2. Main.pool \subseteq 1 .. MaxItem /\ MaxItem \in Nat
  BY <1>1, HandoffAssumption
<1>3. Cardinality(Main.pool) >= 2
  BY DEF NamesLeft
<1> HIDE DEF Main
<1>4. Cardinality({}) = 0 /\ \A x : Cardinality({x}) = 1
  BY FS_EmptySet, FS_Singleton
<1>5. ASSUME NEW x
      PROVE  Main.pool \ {x} # {}
  <2> DEFINE pool == Main.pool
  <2> HIDE DEF pool
  <2>1. Cardinality(pool) >= 2
    BY <1>3 DEF pool
  <2>2. pool # {}
    <3> SUFFICES ASSUME pool = {} PROVE FALSE
      OBVIOUS
    <3>1. Cardinality(pool) = 0
      BY <1>4, Zenon
    <3> QED
      BY <2>1, <3>1
  <2>3. pool # {x}
    <3> SUFFICES ASSUME pool = {x} PROVE FALSE
      OBVIOUS
    <3>1. Cardinality(pool) = 1
      BY <1>4, Zenon
    <3> QED
      BY <2>1, <3>1
  <2> QED
    BY <2>2, <2>3 DEF pool
<1> QED
  BY <1>1, <1>2, <1>5

\* A new entry of the queue gets an id that nothing refers to.
LEMMA NewId ==
    ASSUME Tied(main), Main.pool # {}
    PROVE  LET qid == Min(Main.pool)
           IN  /\ qid \notin {0, Main.request.qid, Main.change.qid}
               /\ \A k \in 1 .. Len(Main.queue) : Main.queue[k].qid # qid
<1> DEFINE qid == Min(Main.pool)
<1>1. /\ Main.pool = (1 .. MaxItem) \ ItemsInUse /\ Main.request = main.request
      /\ Main.change = main.change /\ Main.queue = main.queue
  BY DEF Main, Tied, Asked, MainFields
<1>2. Main.pool \subseteq Nat \ {0}
  BY <1>1, HandoffAssumption
<1>3. qid \in Main.pool
  BY <1>2, LeastId
<1> HIDE DEF qid
<1>4. qid # 0 /\ qid \notin ItemsInUse
  BY <1>1, <1>2, <1>3
<1>5. main.request.qid \in ItemsInUse /\ main.change.qid \in ItemsInUse
  BY DEF ItemsInUse
<1>6. \A k \in DOMAIN main.queue : main.queue[k].qid \in ItemsInUse
  BY DEF ItemsInUse
<1>7. DOMAIN main.queue = 1 .. Len(main.queue)
  BY DEF Tied, Asked, Entries, IsSeq
<1> QED
  BY <1>1, <1>4, <1>5, <1>6, <1>7 DEF qid

\* At the start the queue is empty.
LEMMA InitTied == Init => QInv
<1> SUFFICES ASSUME Init PROVE QInv
  OBVIOUS
<1>1. PICK gapless \in BOOLEAN : main = Fresh(gapless)
  BY DEF Init
<1>2. IsSeq(<<>>) /\ 1 .. Len(<<>>) = {}
  BY DEF IsSeq
<1>3. /\ DOMAIN main = MainFields /\ main.queue = <<>> /\ main.request = NoRequest
      /\ main.change = NoRequest /\ main.upcoming = NoOccurrence
  BY <1>1 DEF Fresh, MainFields
<1>4. commands \in Nat
  BY DEF Init
<1>5. /\ Refers(NoRequest, <<>>) /\ Refers(NoOccurrence, <<>>)
  BY DEF Refers, NoRequest, NoOccurrence
<1>6. Entries(<<>>)
  BY <1>2 DEF Entries
<1> QED
  BY <1>3, <1>4, <1>5, <1>6 DEF QInv, Tied, Asked

\* The commands of the user.
LEMMA UserTied ==
    ASSUME QInv, UserSteps, NamesLeft
    PROVE  QInv' /\ commands' # commands
<1>1. Tied(Main)
  BY RenamedTied DEF Main, QInv, Alike, SameQueue
<1>2. ASSUME NEW c, NEW m, Tied(m), Commanded(c, m)
      PROVE  QInv' /\ commands' # commands
  <2>1. Tied(Settled(m))
    BY <1>2, RenamedTied DEF Settled, Alike, SameQueue
  <2>2. main' = Settled(m) /\ commands' = commands + 1
    BY <1>2 DEF Commanded
  <2> QED
    BY <2>1, <2>2 DEF QInv
<1>3. CASE UserPlayPause
  BY <1>1, <1>2, <1>3, PlayOrTied DEF UserPlayPause, SameQueue
<1>4. CASE UserStop
  BY <1>1, <1>2, <1>4, StopTied DEF UserStop, SameQueue
<1>5. CASE UserNext
  BY <1>1, <1>2, <1>5, SkipTied DEF UserNext, SameQueue
<1>6. CASE UserSelect
  BY <1>1, <1>2, <1>6, SelectTied DEF UserSelect, SameQueue
<1>7. CASE UserEnqueue
  <2>1. Main.pool # {}
    BY NamesFree DEF QInv, Tied, Asked
  <2>2. \A i \in Tracks : Tied(Enqueue(Main, i))
    BY <1>1, <2>1, NewId, EnqueueTied DEF QInv
  <2> QED
    BY <1>2, <1>7, <2>2 DEF UserEnqueue
<1>8. CASE UserClearQueue
  BY <1>1, <1>2, <1>8, ClearTied DEF UserClearQueue
<1>9. CASE UserArm
  BY <1>1, <1>2, <1>9, SetArmedTied DEF UserArm, SameQueue
<1> QED
  BY <1>3, <1>4, <1>5, <1>6, <1>7, <1>8, <1>9 DEF UserSteps

\* A step of the player on its own, or on a signal.
LEMMA MainTied ==
    ASSUME QInv, NEW m, Plays(Main.queue, m), main' = Settled(m), UNCHANGED commands
    PROVE  QInv' /\ Plays(main.queue, main')
<1>1. Main.queue = main.queue
  BY DEF Main, QInv, Tied, Asked, MainFields
<1>2. Tied(m)
  BY DEF Plays
<1>3. Alike(m, Settled(m))
  BY <1>2, RenamedTied DEF Settled
<1>4. Plays(main.queue, Settled(m)) /\ Tied(Settled(m))
  <2>1. Plays(Main.queue, Settled(m))
    BY <1>3, PlaysKept
  <2> QED
    BY <1>1, <2>1 DEF Plays
<1> QED
  BY <1>4 DEF QInv

\* A step of the engine, which may take a call.
LEMMA EngineTied ==
    ASSUME QInv, main' = [main EXCEPT !.out = Tail(@)] \/ UNCHANGED main, UNCHANGED commands
    PROVE  QInv' /\ Plays(main.queue, main')
<1> DEFINE r == [main EXCEPT !.out = Tail(@)]
<1>1. MKeeps(main, r, Beside)
  BY DEF MKeeps, Beside, MainFields, QInv, Tied, Asked
<1>2. main' \in {r, main}
  OBVIOUS
<1> HIDE DEF r
<1>3. SameQueue(main, r) /\ SameQueue(main, main)
  BY <1>1, BesideAlike DEF SameQueue, QInv
<1>4. Plays(main.queue, main')
  BY <1>2, <1>3, PlaysKept
<1>5. Tied(main')
  BY <1>4 DEF Plays
<1> QED
  BY <1>4, <1>5 DEF QInv

\* Every step keeps what is tied to the queue, and takes from the queue what the
\* user removes or what plays.
LEMMA NextTied ==
    ASSUME IInv, QInv, [Next]_vars
    PROVE  QInv' /\ (commands' = commands => Plays(main.queue, main'))
<1>1. Tied(Main)
  BY RenamedTied DEF Main, QInv, Alike, SameQueue
<1>2. CASE UserSteps /\ NamesLeft
  BY <1>2, UserTied
<1>3. CASE EngineReceives
  BY <1>3, EngineTied DEF EngineReceives
<1>4. CASE HandlerReceives
  <2>1. IsSeq(engine.out) /\ (\A k \in 1 .. Len(engine.out) : SignalOk(engine.out[k]))
        /\ engine.out # <<>>
    BY <1>4 DEF IInv, Sound, Shape, SignalsOk, HandlerReceives
  <2>2. Head(engine.out) = engine.out[1] /\ 1 \in 1 .. Len(engine.out)
    BY <2>1, TailSeq
  <2>3. SignalOk(Head(engine.out))
    BY <2>1, <2>2
  <2>4. Plays(Main.queue, Handle(Main, Head(engine.out)))
    BY <1>1, <2>3, HandleTied
  <2> QED
    BY <1>4, <2>4, MainTied DEF HandlerReceives
<1>5. CASE PositionUpdate \/ PrepareDone \/ StopTimerFires
  BY <1>5, EngineTied DEF PositionUpdate, PrepareDone, StopTimerFires, EngineSteps
<1>6. CASE RestTimerFires \/ WatchdogFires
  <2>1. \A t : Plays(Main.queue, RestPlayed(Main, t))
    BY <1>1, TimerTied, PlaysKept
  <2>2. Plays(Main.queue, WatchdogExpires(Main))
    BY <1>1, TimerTied, PlaysKept
  <2> QED
    BY <1>6, <2>1, <2>2, MainTied DEF RestTimerFires, WatchdogFires, MainSteps
<1>7. CASE UNCHANGED vars
  BY <1>7, EngineTied DEF vars
<1> QED
  BY <1>2, <1>3, <1>4, <1>5, <1>6, <1>7 DEF Next

\* Without a command of the user, a track leaves the queue only when it becomes
\* the current track: of whatever queue, request, change and announced track a
\* commit finds, it removes the entry that its own track came from.
THEOREM QueueKeepsTheRest == Spec => QueueLosesOnlyWhatPlays
<1> DEFINE Lost == commands' = commands
                     => \A k \in DOMAIN main.queue :
                           \/ \E j \in DOMAIN main'.queue : main'.queue[j] = main.queue[k]
                           \/ main'.current.queued /\ main'.current.track = main.queue[k].track
<1>1. Init => IInv /\ QInv
  BY InitSound, InitTied
<1>2. IInv /\ QInv /\ [Next]_vars => (IInv /\ QInv)'
  BY NextSound, NextTied
<1>3. ASSUME IInv, QInv, [Next]_vars
      PROVE  Lost
  <2> SUFFICES ASSUME commands' = commands
               PROVE  \A k \in DOMAIN main.queue :
                         \/ \E j \in DOMAIN main'.queue : main'.queue[j] = main.queue[k]
                         \/ main'.current.queued /\ main'.current.track = main.queue[k].track
    OBVIOUS
  <2>1. Plays(main.queue, main') /\ Tied(main)
    BY <1>3, NextTied DEF QInv
  <2>2. DOMAIN main.queue = 1 .. Len(main.queue)
    BY <2>1 DEF Tied, Asked, Entries, IsSeq
  <2>3. DOMAIN main'.queue = 1 .. Len(main'.queue)
    BY <2>1 DEF Plays, Tied, Asked, Entries, IsSeq
  <2> QED
    BY <2>1, <2>2, <2>3 DEF Plays
<1>4. IInv /\ QInv /\ [Next]_vars => [Lost]_vars
  BY <1>3
<1> HIDE DEF Lost
<1>5. Spec => [][Lost]_vars
  BY <1>1, <1>2, <1>4, PTL DEF Spec
<1> QED
  BY <1>5 DEF QueueLosesOnlyWhatPlays, Lost
-----------------------------------------------------------------------------
(* The types of the player's record, and what a step of it tells the engine. *)

PlayType  == {"stopped", "playing", "paused"}
ItemType  == [track : PositionType, item : Id]
EntryType == [track : PositionType, qid : Id]

\* No track and no id go together.
NullId(o) == o.item = 0 <=> o.track = 0

\* A call with what it carries.
CallFit(c) ==
    /\ CallKnown(c)
    /\ c.call \in {"load", "candidate", "prepare"} => c.item \in ItemType
    /\ c.call \in {"candidate", "prepare"} => NullId(c.item)

Calls(out) == IsSeq(out) /\ \A k \in 1 .. Len(out) : CallFit(out[k])

\* The parts of the player's record have their types.
Typed(m) ==
    /\ DOMAIN m = MainFields
    /\ m.play \in PlayType /\ m.manual \in BOOLEAN /\ m.armed \in BOOLEAN
    /\ m.current \in OccurrenceType /\ m.upcoming \in OccurrenceType /\ NullId(m.upcoming)
    /\ m.request \in RequestType /\ m.change \in RequestType
    /\ m.resume \in PositionType /\ m.index \in PositionType
    /\ m.queue \in Seq(EntryType) /\ Len(m.queue) <= MaxQueue
    /\ Calls(m.out)
    /\ m.pool \subseteq 1 .. MaxItem

\* And nothing is announced while playback is to stop after the current track.
Fits(m) == Typed(m) /\ (m.armed => m.upcoming = NoOccurrence)

\* The fields that the engine hears nothing of.
Own == MainFields \ {"upcoming", "armed", "queue", "out"}

QuietCalls == {"load", "play", "pause", "stop"}

\* Calls are added at the end.
Longer(s, t) ==
    /\ Len(s) \in Nat /\ Len(t) \in Nat /\ Len(s) <= Len(t)
    /\ \A k \in 1 .. Len(s) : t[k] = s[k]

\* The step from m to r says nothing of what comes next.
Mute(m, r) ==
    /\ r.upcoming = m.upcoming /\ r.armed = m.armed /\ r.queue = m.queue
    /\ Longer(m.out, r.out)
    /\ \A k \in Len(m.out) + 1 .. Len(r.out) : r.out[k].call \in QuietCalls

\* The playback is to end: a pause or a stop, and no play after it.
Halting(out) ==
    \E k \in 1 .. Len(out) : /\ out[k].call \in {"pause", "stop"}
                             /\ \A j \in 1 .. Len(out) : out[j].call = "play" => j < k

\* The player shows that it plays, or ends the playback.
Stands(m) == m.play = "playing" \/ Halting(m.out)

Slips(m, r)  == Fits(r) /\ Mute(m, r)
Passes(m, r) == Slips(m, r) /\ (Stands(m) => Stands(r))

\* Ids and positions that are none.
LEMMA NullTypes ==
    /\ 0 \in Id /\ 0 \in PositionType /\ 1 \in PositionType
    /\ NoOccurrence \in OccurrenceType /\ NoRequest \in RequestType
    /\ LastTrack \in Nat \ {0} /\ MaxItem \in Nat \ {0} /\ MaxQueue \in Nat
BY PlaylistAssumption, HandoffAssumption
   DEF Id, PositionType, OccurrenceType, RequestType, NoOccurrence, NoRequest

\* A new name is an id, and is not 0.
LEMMA NewName ==
    ASSUME NEW T, T \subseteq 1 .. MaxItem, T # {}
    PROVE  Min(T) \in T /\ Min(T) \in Id /\ Min(T) # 0
<1>1. T \subseteq Nat
  BY NullTypes
<1>2. Min(T) \in T
  BY <1>1, LeastId
<1>3. ASSUME NEW x \in 1 .. MaxItem
      PROVE  x \in Id /\ x # 0
  BY NullTypes DEF Id
<1> QED
  BY <1>2, <1>3

\* One step after another.
LEMMA LongerTwice ==
    ASSUME NEW r, NEW s, NEW t, Longer(r, s), Longer(s, t)
    PROVE  Longer(r, t)
BY DEF Longer

LEMMA SlipsTwice ==
    ASSUME NEW m, NEW n, NEW r, Slips(m, n), Slips(n, r)
    PROVE  Slips(m, r)
<1>1. Longer(m.out, r.out)
  BY LongerTwice DEF Slips, Mute
<1>2. ASSUME NEW k \in Len(m.out) + 1 .. Len(r.out)
      PROVE  r.out[k].call \in QuietCalls
  <2>0. Longer(m.out, n.out) /\ Longer(n.out, r.out)
    BY DEF Slips, Mute
  <2>1. CASE k \in Len(m.out) + 1 .. Len(n.out)
    <3>1. k \in 1 .. Len(n.out)
      BY <2>0, <2>1 DEF Longer
    <3>2. r.out[k] = n.out[k]
      BY <2>0, <3>1 DEF Longer
    <3> QED BY <2>1, <3>2 DEF Slips, Mute
  <2>2. CASE k \in Len(n.out) + 1 .. Len(r.out)
    BY <2>2 DEF Slips, Mute
  <2> QED
    BY <1>2, <2>0, <2>1, <2>2 DEF Longer
<1> QED
  BY <1>1, <1>2 DEF Slips, Mute

LEMMA PassesTwice ==
    ASSUME NEW m, NEW n, NEW r, Passes(m, n), Passes(n, r)
    PROVE  Passes(m, r)
BY SlipsTwice DEF Passes

\* A step that calls nothing.
LEMMA OwnSlips ==
    ASSUME NEW m, NEW r, Fits(m), MKeeps(m, r, Own),
           r.play \in PlayType, r.manual \in BOOLEAN, r.current \in OccurrenceType,
           r.request \in RequestType, r.change \in RequestType,
           r.resume \in PositionType, r.index \in PositionType, r.pool \subseteq 1 .. MaxItem
    PROVE  Slips(m, r) /\ (r.play = m.play => Passes(m, r))
<1>1. /\ DOMAIN r = MainFields /\ r.upcoming = m.upcoming /\ r.armed = m.armed
      /\ r.queue = m.queue /\ r.out = m.out
  BY DEF MKeeps, Own, MainFields
<1>2. Fits(r)
  BY <1>1 DEF Fits, Typed
<1>3. Len(m.out) \in Nat
  BY DEF Fits, Typed, Calls, IsSeq
<1>4. Mute(m, r)
  BY <1>1, <1>3 DEF Mute, Longer
<1> QED
  BY <1>1, <1>2, <1>4 DEF Slips, Passes, Stands

\* A step that touches none of the typed fields.
Bystand == {"atEnd", "gapless", "changeGen", "heard", "owned", "suppressed", "watchdog",
            "ending", "timers"}

LEMMA BystandPasses ==
    ASSUME NEW m, NEW r, Fits(m), MKeeps(m, r, Bystand)
    PROVE  Passes(m, r) /\ r.pool = m.pool /\ r.request = m.request
<1>1. /\ MKeeps(m, r, Own) /\ r.play = m.play /\ r.manual = m.manual
      /\ r.current = m.current /\ r.request = m.request /\ r.change = m.change
      /\ r.resume = m.resume /\ r.index = m.index /\ r.pool = m.pool
  BY DEF MKeeps, Own, Bystand, MainFields
<1> QED
  BY <1>1, OwnSlips DEF Fits, Typed

\* A call that says nothing of what comes next.
LEMMA SendSlips ==
    ASSUME NEW m, NEW c, Fits(m), CallFit(c), c.call \in QuietCalls
    PROVE  /\ Slips(m, Send(m, c))
           /\ c.call # "play" \/ m.play = "playing" => Passes(m, Send(m, c))
           /\ c.call \in {"pause", "stop"} => Stands(Send(m, c))
           /\ Send(m, c).pool = m.pool /\ Send(m, c).request = m.request
<1> DEFINE r == Send(m, c)
           n == Len(m.out)
<1>1. /\ DOMAIN r = MainFields /\ \A f \in MainFields \ {"out"} : r[f] = m[f]
      /\ r.out = Append(m.out, c)
  BY DEF Send, MainFields, Fits, Typed
<1>2. /\ IsSeq(r.out) /\ Len(r.out) = n + 1 /\ n \in Nat /\ r.out[n + 1] = c
      /\ \A k \in 1 .. n : r.out[k] = m.out[k]
  BY <1>1, AppendSeq DEF Fits, Typed, Calls
<1> HIDE DEF r
<1>3. /\ r.play = m.play /\ r.manual = m.manual /\ r.armed = m.armed /\ r.current = m.current
      /\ r.upcoming = m.upcoming /\ r.request = m.request /\ r.change = m.change
      /\ r.resume = m.resume /\ r.index = m.index /\ r.queue = m.queue /\ r.pool = m.pool
  BY <1>1 DEF MainFields
<1>4. Calls(r.out)
  <2>1. ASSUME NEW k \in 1 .. Len(r.out)
        PROVE  CallFit(r.out[k])
    <3>1. CASE k = n + 1
      BY <1>2, <3>1
    <3>2. CASE k \in 1 .. n
      BY <1>2, <3>2 DEF Fits, Typed, Calls
    <3> QED BY <1>2, <3>1, <3>2
  <2> QED BY <1>2, <2>1 DEF Calls
<1>5. Fits(r)
  BY <1>1, <1>3, <1>4 DEF Fits, Typed
<1>6. Mute(m, r)
  <2>1. ASSUME NEW k \in Len(m.out) + 1 .. Len(r.out)
        PROVE  r.out[k].call \in QuietCalls
    <3>1. k = n + 1
      BY <1>2
    <3> QED BY <1>2, <3>1
  <2> QED BY <1>2, <1>3, <2>1 DEF Mute, Longer
<1>7. ASSUME c.call # "play", Halting(m.out)
      PROVE  Halting(r.out)
  <2>1. PICK k \in 1 .. n : /\ m.out[k].call \in {"pause", "stop"}
                            /\ \A j \in 1 .. n : m.out[j].call = "play" => j < k
    BY <1>7 DEF Halting
  <2>2. k \in 1 .. Len(r.out) /\ r.out[k].call \in {"pause", "stop"}
    BY <1>2, <2>1
  <2>3. ASSUME NEW j \in 1 .. Len(r.out), r.out[j].call = "play"
        PROVE  j < k
    <3>1. j # n + 1
      BY <1>2, <1>7, <2>3
    <3>2. j \in 1 .. n
      BY <1>2, <3>1
    <3> QED BY <1>2, <2>1, <2>3, <3>2
  <2> QED BY <2>2, <2>3 DEF Halting
<1>8. ASSUME c.call \in {"pause", "stop"}
      PROVE  Halting(r.out)
  <2>1. n + 1 \in 1 .. Len(r.out) /\ r.out[n + 1].call \in {"pause", "stop"}
    BY <1>2, <1>8
  <2>2. ASSUME NEW j \in 1 .. Len(r.out), r.out[j].call = "play"
        PROVE  j < n + 1
    BY <1>2, <1>8, <2>2
  <2> QED BY <2>1, <2>2 DEF Halting
<1>9. /\ Slips(m, r)
      /\ c.call # "play" \/ m.play = "playing" => Passes(m, r)
      /\ c.call \in {"pause", "stop"} => Stands(r)
      /\ r.pool = m.pool /\ r.request = m.request
  BY <1>3, <1>5, <1>6, <1>7, <1>8 DEF Slips, Passes, Stands
<1> QED
  BY <1>9 DEF r

-----------------------------------------------------------------------------
(* The player's operations: what they tell the engine.                       *)

\* The handler forgets what it knows of an end or a change of track.
LEMMA ForgetPasses ==
    ASSUME NEW m, Fits(m)
    PROVE  /\ Passes(m, ForgetEnding(m)) /\ ForgetEnding(m).pool = m.pool
           /\ Passes(m, ForgetOwned(m)) /\ ForgetOwned(m).pool = m.pool
           /\ Passes(m, ForgetTransitions(m)) /\ ForgetTransitions(m).pool = m.pool
           /\ Passes(m, ForgetChange(m)) /\ ForgetChange(m).pool = m.pool
           /\ ForgetTransitions(m).request = m.request
<1>1. ASSUME NEW n, Fits(n)
      PROVE  /\ MKeeps(n, ForgetEnding(n), Bystand)
             /\ MKeeps(n, ForgetOwned(n), Bystand)
  BY <1>1 DEF ForgetEnding, ForgetOwned, MKeeps, Bystand, MainFields, Fits, Typed
<1>2. /\ Passes(m, ForgetEnding(m)) /\ ForgetEnding(m).pool = m.pool
      /\ Passes(m, ForgetOwned(m)) /\ ForgetOwned(m).pool = m.pool
      /\ ForgetEnding(m).request = m.request
  BY <1>1, BystandPasses
<1>3. LET e == ForgetEnding(m)
      IN  Passes(e, ForgetOwned(e)) /\ ForgetOwned(e).pool = e.pool
          /\ ForgetOwned(e).request = e.request
  BY <1>1, <1>2, BystandPasses DEF Passes, Slips
<1>4. /\ Passes(m, ForgetTransitions(m)) /\ ForgetTransitions(m).pool = m.pool
      /\ ForgetTransitions(m).request = m.request
  BY <1>2, <1>3, PassesTwice DEF ForgetTransitions
<1>5. Passes(m, ForgetChange(m)) /\ ForgetChange(m).pool = m.pool
  <2> DEFINE r == ForgetChange(m)
  <2>1. /\ MKeeps(m, r, Own) /\ r.play = m.play /\ r.manual = m.manual
        /\ r.current = m.current /\ r.request = m.request /\ r.change = NoRequest
        /\ r.resume = m.resume /\ r.index = m.index /\ r.pool = m.pool
    BY DEF ForgetChange, MKeeps, Own, MainFields, Fits, Typed
  <2> HIDE DEF r
  <2>2. Passes(m, r) /\ r.pool = m.pool
    BY <2>1, NullTypes, OwnSlips DEF Fits, Typed
  <2> QED BY <2>2 DEF r
<1> QED
  BY <1>2, <1>4, <1>5

\* The next track of the playlist is one, or none.
LEMMA NextTyped ==
    ASSUME NEW m, Typed(m)
    PROVE  /\ FollowingTrack(m) \in PositionType
           /\ FromPlaylist(FollowingTrack(m)) \in OccurrenceType
           /\ FromPlaylist(m.resume) \in OccurrenceType
           /\ FromPlaylist(1) \in OccurrenceType
<1>1. \A i \in PositionType : NextIndex(i) \in PositionType
  BY NullTypes DEF NextIndex, PositionType
<1>2. FollowingTrack(m) \in PositionType
  <2>1. m.current.track \in PositionType
    BY DEF Typed, OccurrenceType
  <2> QED BY <1>1, <2>1 DEF FollowingTrack, Typed
<1>3. \A i \in PositionType : FromPlaylist(i) \in OccurrenceType
  BY NullTypes DEF FromPlaylist, NoOccurrence, OccurrenceType
<1> QED
  BY <1>2, <1>3, NullTypes DEF Typed

LEMMA HeadTyped ==
    ASSUME NEW m, Typed(m)
    PROVE  /\ m.queue # <<>> => QueueHead(m) \in OccurrenceType
           /\ InOrder(m) \in OccurrenceType
           /\ ResolveUpcoming(m) \in OccurrenceType
           /\ FromIdle(m) \in OccurrenceType
<1>1. ASSUME m.queue # <<>>
      PROVE  QueueHead(m) \in OccurrenceType
  <2>1. Head(m.queue) \in EntryType
    BY <1>1 DEF Typed
  <2> QED
    BY <2>1, NullTypes DEF QueueHead, EntryType, NoOccurrence, OccurrenceType
<1>2. \A i \in PositionType : FromPlaylist(i) \in OccurrenceType
  BY NullTypes DEF FromPlaylist, NoOccurrence, OccurrenceType
<1>3. NextIndex(0) \in PositionType
  BY NullTypes DEF NextIndex, PositionType
<1> QED
  BY <1>1, <1>2, <1>3, NextTyped, NullTypes DEF InOrder, ResolveUpcoming, FromIdle, Typed

\* The position in the playlist moves on.
LEMMA MovePasses ==
    ASSUME NEW m, Fits(m)
    PROVE  /\ Passes(m, MoveInOrder(m)) /\ MoveInOrder(m).pool = m.pool
           /\ Passes(m, MoveFromIdle(m)) /\ MoveFromIdle(m).pool = m.pool
           /\ \A i \in PositionType : /\ Passes(m, [m EXCEPT !.index = i])
                                      /\ [m EXCEPT !.index = i].pool = m.pool
                                      /\ [m EXCEPT !.index = i].request = m.request
<1>1. ASSUME NEW i \in PositionType
      PROVE  /\ Passes(m, [m EXCEPT !.index = i])
             /\ [m EXCEPT !.index = i].pool = m.pool
             /\ [m EXCEPT !.index = i].request = m.request
  <2> DEFINE r == [m EXCEPT !.index = i]
  <2>1. /\ MKeeps(m, r, Own) /\ r.play = m.play /\ r.manual = m.manual
        /\ r.current = m.current /\ r.request = m.request /\ r.change = m.change
        /\ r.resume = m.resume /\ r.index = i /\ r.pool = m.pool
    BY DEF MKeeps, Own, MainFields, Fits, Typed
  <2> HIDE DEF r
  <2>2. Passes(m, r) /\ r.pool = m.pool /\ r.request = m.request
    BY <2>1, OwnSlips DEF Fits, Typed
  <2> QED BY <2>2 DEF r
<1>2. Passes(m, m)
  <2>1. MKeeps(m, m, Bystand)
    BY DEF MKeeps, Fits, Typed
  <2> QED BY <2>1, BystandPasses
<1>3. FollowingTrack(m) \in PositionType /\ FromIdle(m).track \in PositionType
  BY NextTyped, HeadTyped DEF Fits, OccurrenceType
<1> QED
  BY <1>1, <1>2, <1>3 DEF MoveInOrder, MoveFromIdle

\* A track is asked for, by a new name.
LEMMA RequestPasses ==
    ASSUME NEW m, NEW o \in OccurrenceType, NEW manual \in BOOLEAN, Fits(m), m.pool # {}
    PROVE  LET r == RequestTrackChange(m, o, manual)
           IN  Passes(m, r) /\ r.request.track = o.track
<1> DEFINE item == Min(m.pool)
           q    == [track |-> o.track, item |-> item, queued |-> o.queued, qid |-> o.qid,
                    manual |-> manual]
           forgotten == m.play = "stopped" /\ m.current.track # o.track
           c    == [m EXCEPT !.request = q, !.manual = manual, !.pool = @ \ {item},
                             !.current = IF forgotten THEN NoOccurrence ELSE @]
           f    == ForgetTransitions(c)
           h    == [f EXCEPT !.change = q, !.changeGen = 0]
           call == [call |-> "load", item |-> Item(q), manual |-> q.manual]
<1>1. RequestTrackChange(m, o, manual) = Send(h, call)
  BY DEF RequestTrackChange, HandleRequest
<1>2. item \in Id
  BY NewName DEF Fits, Typed
<1> HIDE DEF item
<1>3. q \in RequestType /\ q.track = o.track /\ Item(q) \in ItemType
  BY <1>2 DEF OccurrenceType, RequestType, Item, ItemType
<1>4. call.call = "load" /\ CallFit(call)
  BY <1>3 DEF CallFit, CallKnown
<1> HIDE DEF q, forgotten, call
<1>5. /\ MKeeps(m, c, Own) /\ c.play = m.play /\ c.manual = manual
      /\ c.current \in {m.current, NoOccurrence} /\ c.request = q /\ c.change = m.change
      /\ c.resume = m.resume /\ c.index = m.index /\ c.pool = m.pool \ {item}
  BY DEF MKeeps, Own, MainFields, Fits, Typed
<1> HIDE DEF c
<1>6. Passes(m, c)
  BY <1>3, <1>5, OwnSlips, NullTypes DEF Fits, Typed
<1>7. Passes(c, f) /\ f.request = q
  BY <1>5, <1>6, ForgetPasses DEF Passes, Slips
<1> HIDE DEF f
<1>8. /\ MKeeps(f, h, Own) /\ h.play = f.play /\ h.manual = f.manual
      /\ h.current = f.current /\ h.request = f.request /\ h.change = q
      /\ h.resume = f.resume /\ h.index = f.index /\ h.pool = f.pool
  BY <1>7 DEF MKeeps, Own, MainFields, Passes, Slips, Fits, Typed
<1> HIDE DEF h
<1>9. Passes(f, h)
  BY <1>3, <1>7, <1>8, OwnSlips DEF Passes, Slips, Fits, Typed
<1>10. Passes(h, Send(h, call)) /\ Send(h, call).request = h.request
  BY <1>4, <1>9, SendSlips DEF Passes, Slips, QuietCalls
<1> QED
  BY <1>1, <1>3, <1>6, <1>7, <1>8, <1>9, <1>10, PassesTwice

\* Nothing is asked for while a request is pending.
LEMMA RequestSelectedPasses ==
    ASSUME NEW m, NEW o \in OccurrenceType, NEW manual \in BOOLEAN, Fits(m),
           Requested(m) \/ m.pool # {}
    PROVE  Passes(m, RequestSelected(m, o, manual))
<1>1. MKeeps(m, m, Bystand)
  BY DEF MKeeps, Fits, Typed
<1>2. Passes(m, m)
  BY <1>1, BystandPasses
<1> QED
  BY <1>2, RequestPasses DEF RequestSelected

\* The playlist starts again from its beginning.
LEMMA RestartPasses ==
    ASSUME NEW m, NEW manual \in BOOLEAN, Fits(m), Requested(m) \/ m.pool # {}
    PROVE  Passes(m, RestartPlaylist(m, manual))
<1> DEFINE i == [m EXCEPT !.index = 1]
           c == [i EXCEPT !.atEnd = FALSE]
<1>1. RestartPlaylist(m, manual) \in {m, RequestSelected(c, FromPlaylist(1), manual)}
      /\ (Requested(m) => RestartPlaylist(m, manual) = m)
  BY DEF RestartPlaylist
<1>2. Passes(m, i) /\ i.pool = m.pool
  BY MovePasses, NullTypes
<1> HIDE DEF i
<1>3. MKeeps(i, c, Bystand)
  BY <1>2 DEF MKeeps, Bystand, MainFields, Passes, Slips, Fits, Typed
<1> HIDE DEF c
<1>4. Passes(m, c) /\ c.pool = m.pool
  BY <1>2, <1>3, BystandPasses, PassesTwice DEF Passes, Slips
<1>5. FromPlaylist(1) \in OccurrenceType
  BY NextTyped DEF Fits
<1>6. ~Requested(m) => Passes(m, RequestSelected(c, FromPlaylist(1), manual))
  BY <1>4, <1>5, RequestSelectedPasses, PassesTwice DEF Passes, Slips
<1>7. MKeeps(m, m, Bystand)
  BY DEF MKeeps, Fits, Typed
<1> QED
  BY <1>1, <1>6, <1>7, BystandPasses

\* The player stops, and tells the engine or hears of it.
LEMMA EnterStoppedSlips ==
    ASSUME NEW m, NEW transport \in BOOLEAN, Fits(m)
    PROVE  /\ Slips(m, EnterStopped(m, transport))
           /\ transport => Passes(m, EnterStopped(m, transport))
           /\ EnterStopped(m, transport).pool = m.pool
<1> DEFINE s    == [m EXCEPT !.play = "stopped"]
           call == [call |-> "stop"]
<1>1. EnterStopped(m, transport) = IF m.play = "stopped" THEN m
                                   ELSE IF transport THEN Send(s, call) ELSE s
  BY DEF EnterStopped
<1>2. /\ MKeeps(m, s, Own) /\ s.play = "stopped" /\ s.manual = m.manual
      /\ s.current = m.current /\ s.request = m.request /\ s.change = m.change
      /\ s.resume = m.resume /\ s.index = m.index /\ s.pool = m.pool
  BY DEF MKeeps, Own, MainFields, Fits, Typed
<1>3. CallFit(call) /\ call.call = "stop"
  BY DEF CallFit, CallKnown
<1> HIDE DEF s, call
<1>4. Slips(m, s)
  BY <1>2, OwnSlips DEF Fits, Typed, PlayType
<1>5. Slips(s, Send(s, call)) /\ Stands(Send(s, call)) /\ Send(s, call).pool = s.pool
  BY <1>3, <1>4, SendSlips DEF Slips, QuietCalls
<1>6. Passes(m, Send(s, call))
  BY <1>4, <1>5, SlipsTwice DEF Passes
<1>7. MKeeps(m, m, Bystand)
  BY DEF MKeeps, Fits, Typed
<1>8. Passes(m, m)
  BY <1>7, BystandPasses
<1> QED
  BY <1>1, <1>2, <1>4, <1>5, <1>6, <1>8 DEF Passes

LEMMA StopPasses ==
    ASSUME NEW m, Fits(m)
    PROVE  Passes(m, Stop(m)) /\ Passes(m, StopAtEnd(m))
<1> DEFINE c == [m EXCEPT !.atEnd = TRUE]
<1>1. MKeeps(m, c, Bystand)
  BY DEF MKeeps, Bystand, MainFields, Fits, Typed
<1> HIDE DEF c
<1>2. Passes(m, c)
  BY <1>1, BystandPasses
<1>3. Passes(c, Stop(c)) /\ Passes(m, Stop(m))
  BY <1>2, EnterStoppedSlips DEF Stop, Passes, Slips
<1> QED
  BY <1>2, <1>3, PassesTwice DEF StopAtEnd, c

\* pause() of the player.
LEMMA PausePasses ==
    ASSUME NEW m, Fits(m)
    PROVE  Slips(m, Pause(m)) /\ (m.play # "paused" => Stands(Pause(m)))
           /\ Passes(m, Pause(m))
<1> DEFINE c    == [m EXCEPT !.play = "paused"]
           call == [call |-> "pause"]
<1>1. Pause(m) = IF m.play = "paused" THEN m ELSE Send(c, call)
  BY DEF Pause
<1>2. /\ MKeeps(m, c, Own) /\ c.play = "paused" /\ c.manual = m.manual
      /\ c.current = m.current /\ c.request = m.request /\ c.change = m.change
      /\ c.resume = m.resume /\ c.index = m.index /\ c.pool = m.pool
  BY DEF MKeeps, Own, MainFields, Fits, Typed
<1>3. CallFit(call) /\ call.call = "pause"
  BY DEF CallFit, CallKnown
<1> HIDE DEF c, call
<1>4. Slips(m, c)
  BY <1>2, OwnSlips DEF Fits, Typed, PlayType
<1>5. Slips(c, Send(c, call)) /\ Stands(Send(c, call))
  BY <1>3, <1>4, SendSlips DEF Slips, QuietCalls
<1>6. Slips(m, Send(c, call))
  BY <1>4, <1>5, SlipsTwice
<1>7. MKeeps(m, m, Bystand)
  BY DEF MKeeps, Fits, Typed
<1>8. Passes(m, m)
  BY <1>7, BystandPasses
<1> QED
  BY <1>1, <1>5, <1>6, <1>8 DEF Passes

\* play() of the player.
LEMMA PlayPasses ==
    ASSUME NEW m, Fits(m), Requested(m) \/ m.pool # {}
    PROVE  Passes(m, Play(m))
<1> DEFINE selected ==
              IF /\ m.play = "stopped" /\ m.atEnd
                 /\ m.current.track # 0 /\ ~Requested(m) /\ FromList(m)
              THEN RestartPlaylist(m, m.manual)
              ELSE IF Idle(m) THEN RequestSelected(MoveFromIdle(m), FromIdle(m), m.manual)
              ELSE m
           c    == [selected EXCEPT !.play = "playing"]
           call == [call |-> "play"]
<1>1. Play(m) \in {selected, Send(c, call)}
  BY DEF Play
<1>2. Passes(m, selected)
  <2>1. Passes(m, RestartPlaylist(m, m.manual))
    BY RestartPasses DEF Fits, Typed
  <2>2. Idle(m) => m.pool # {}
    BY DEF Idle
  <2>3. Idle(m) => Passes(m, RequestSelected(MoveFromIdle(m), FromIdle(m), m.manual))
    <3>1. Passes(m, MoveFromIdle(m)) /\ MoveFromIdle(m).pool = m.pool
      BY MovePasses
    <3>2. FromIdle(m) \in OccurrenceType /\ m.manual \in BOOLEAN
      BY HeadTyped DEF Fits, Typed
    <3> QED
      BY <2>2, <3>1, <3>2, RequestSelectedPasses, PassesTwice DEF Passes, Slips
  <2>4. MKeeps(m, m, Bystand)
    BY DEF MKeeps, Fits, Typed
  <2> QED
    BY <2>1, <2>3, <2>4, BystandPasses
<1> HIDE DEF selected
<1>3. /\ MKeeps(selected, c, Own) /\ c.play = "playing" /\ c.manual = selected.manual
      /\ c.current = selected.current /\ c.request = selected.request
      /\ c.change = selected.change /\ c.resume = selected.resume
      /\ c.index = selected.index /\ c.pool = selected.pool
  BY <1>2 DEF MKeeps, Own, MainFields, Passes, Slips, Fits, Typed
<1>4. CallFit(call) /\ call.call = "play"
  BY DEF CallFit, CallKnown
<1> HIDE DEF c, call
<1>5. Slips(selected, c)
  BY <1>2, <1>3, OwnSlips DEF Passes, Slips, Fits, Typed, PlayType
<1>6. Passes(c, Send(c, call))
  BY <1>3, <1>4, <1>5, SendSlips DEF Slips, QuietCalls
<1>7. Passes(m, Send(c, call))
  <2>1. Stands(c)
    BY <1>3 DEF Stands
  <2>2. Slips(m, Send(c, call))
    BY <1>2, <1>5, <1>6, SlipsTwice DEF Passes
  <2> QED BY <1>6, <2>1, <2>2 DEF Passes
<1> QED
  BY <1>1, <1>2, <1>7

\* PlayOrStop plays only what was asked for.
LEMMA PlayOrPasses ==
    ASSUME NEW m, Fits(m)
    PROVE  /\ Passes(m, PlayOrStop(m))
           /\ m.pool # {} => Passes(m, PlayPause(m))
BY PlayPasses, PausePasses, StopPasses DEF PlayOrStop, PlayPause

-----------------------------------------------------------------------------
(* The track that is announced.                                             *)

Candidates(out) == {k \in 1 .. Len(out) : out[k].call = "candidate"}

\* What the engine takes for the next track, c, is what the player announces, or
\* is no track, or will be once the calls on their way have arrived.
Hears(m, c) ==
    \/ /\ Candidates(m.out) = {}
       /\ c.track = 0 \/ c.item = m.upcoming.item
    \/ \E k \in Candidates(m.out) : /\ m.out[k].item.item = m.upcoming.item
                                    /\ \A j \in Candidates(m.out) : j <= k

Moves(m, r) ==
    /\ Fits(r)
    /\ Stands(m) => Stands(r)
    /\ \A c : Hears(m, c) => Hears(r, c)

Goes(m, r) == Moves(m, r) /\ (m.queue = <<>> => r.queue = <<>>)

LEMMA GoesTwice ==
    ASSUME NEW m, NEW n, NEW r, Goes(m, n), Goes(n, r)
    PROVE  Goes(m, r)
BY DEF Goes, Moves

\* What says nothing of the next track changes nothing of what is announced.
LEMMA MuteHears ==
    ASSUME NEW m, NEW r, NEW c, Mute(m, r), Hears(m, c)
    PROVE  Hears(r, c)
<1>1. Candidates(r.out) = Candidates(m.out)
  <2>1. ASSUME NEW k \in 1 .. Len(r.out)
        PROVE  r.out[k].call = "candidate" <=> k \in 1 .. Len(m.out) /\ m.out[k].call = "candidate"
    <3>1. CASE k \in 1 .. Len(m.out)
      BY <3>1 DEF Mute, Longer
    <3>2. CASE k \notin 1 .. Len(m.out)
      <4>1. k \in Len(m.out) + 1 .. Len(r.out)
        BY <3>2 DEF Mute, Longer
      <4> QED BY <3>2, <4>1 DEF Mute, QuietCalls
    <3> QED BY <3>1, <3>2
  <2>2. 1 .. Len(m.out) \subseteq 1 .. Len(r.out)
    BY DEF Mute, Longer
  <2> QED
    BY <2>1, <2>2 DEF Candidates
<1>2. \A k \in Candidates(m.out) : r.out[k] = m.out[k]
  BY DEF Candidates, Mute, Longer
<1>3. r.upcoming = m.upcoming
  BY DEF Mute
<1> HIDE DEF Candidates
<1> QED
  BY <1>1, <1>2, <1>3 DEF Hears, Candidates

LEMMA PassesGoes ==
    ASSUME NEW m, NEW r, Passes(m, r)
    PROVE  Goes(m, r)
BY MuteHears DEF Passes, Slips, Goes, Moves, Mute

\* r is out with c at its end.
Adds(out, c, r) ==
    /\ IsSeq(r) /\ Len(r) = Len(out) + 1 /\ Len(out) \in Nat /\ r[Len(out) + 1] = c
    /\ \A k \in 1 .. Len(out) : r[k] = out[k]

\* A call about the next track, or about automatic changes, is added.
LEMMA SendCalls ==
    ASSUME NEW out, NEW c, NEW r, Adds(out, c, r), Calls(out), CallFit(c)
    PROVE  /\ Calls(r)
           /\ c.call # "play" /\ Halting(out) => Halting(r)
           /\ c.call # "candidate" => /\ Candidates(r) = Candidates(out)
                                      /\ \A k \in Candidates(out) : r[k] = out[k]
           /\ c.call = "candidate" =>
                 \E k \in Candidates(r) :
                    /\ r[k] = c
                    /\ \A j \in Candidates(r) : j <= k
<1> DEFINE n == Len(out)
<1>1. /\ IsSeq(r) /\ Len(r) = n + 1 /\ n \in Nat /\ r[n + 1] = c
      /\ \A k \in 1 .. n : r[k] = out[k]
  BY DEF Adds
<1>2. Calls(r)
  <2>1. ASSUME NEW k \in 1 .. Len(r)
        PROVE  CallFit(r[k])
    <3>1. CASE k = n + 1
      BY <1>1, <3>1
    <3>2. CASE k \in 1 .. n
      BY <1>1, <3>2 DEF Calls
    <3> QED BY <1>1, <3>1, <3>2
  <2> QED BY <1>1, <2>1 DEF Calls
<1>3. ASSUME c.call # "play", Halting(out)
      PROVE  Halting(r)
  <2>1. PICK k \in 1 .. n : /\ out[k].call \in {"pause", "stop"}
                            /\ \A j \in 1 .. n : out[j].call = "play" => j < k
    BY <1>3 DEF Halting
  <2>2. k \in 1 .. Len(r) /\ r[k].call \in {"pause", "stop"}
    BY <1>1, <2>1
  <2>3. ASSUME NEW j \in 1 .. Len(r), r[j].call = "play"
        PROVE  j < k
    <3>1. j # n + 1
      BY <1>1, <1>3, <2>3
    <3>2. j \in 1 .. n
      BY <1>1, <3>1
    <3> QED BY <1>1, <2>1, <2>3, <3>2
  <2> QED BY <2>2, <2>3 DEF Halting
<1>4. ASSUME c.call # "candidate"
      PROVE  /\ Candidates(r) = Candidates(out)
             /\ \A k \in Candidates(out) : r[k] = out[k]
  <2>1. \A k \in 1 .. n + 1 : k = n + 1 \/ k \in 1 .. n
    BY <1>1
  <2>2. 1 .. n \subseteq 1 .. n + 1
    BY <1>1
  <2> QED BY <1>1, <1>4, <2>1, <2>2 DEF Candidates
<1>5. ASSUME c.call = "candidate"
      PROVE  \E k \in Candidates(r) : r[k] = c /\ \A j \in Candidates(r) : j <= k
  <2>1. n + 1 \in Candidates(r) /\ r[n + 1] = c
    BY <1>1, <1>5 DEF Candidates
  <2>2. \A j \in Candidates(r) : j <= n + 1
    BY <1>1 DEF Candidates
  <2> QED BY <2>1, <2>2
<1> QED
  BY <1>2, <1>3, <1>4, <1>5

\* A call of that kind, as a step of the record.
LEMMA SendMoves ==
    ASSUME NEW m, NEW c, Typed(m), CallFit(c), c.call # "play"
    PROVE  LET r == Send(m, c)
           IN  /\ Typed(r)
               /\ (m.armed => m.upcoming = NoOccurrence) => Fits(r)
               /\ r.upcoming = m.upcoming /\ r.queue = m.queue /\ r.armed = m.armed
               /\ r.pool = m.pool /\ r.play = m.play
               /\ Stands(m) => Stands(r)
               /\ c.call # "candidate" => \A x : Hears(m, x) => Hears(r, x)
               /\ c.call = "candidate" /\ c.item.item = m.upcoming.item => \A x : Hears(r, x)
<1> DEFINE r == Send(m, c)
<1>1. /\ DOMAIN r = MainFields /\ \A f \in MainFields \ {"out"} : r[f] = m[f]
      /\ r.out = Append(m.out, c)
  BY DEF Send, MainFields, Typed
<1> HIDE DEF r
<1>2. /\ r.play = m.play /\ r.manual = m.manual /\ r.armed = m.armed /\ r.current = m.current
      /\ r.upcoming = m.upcoming /\ r.request = m.request /\ r.change = m.change
      /\ r.resume = m.resume /\ r.index = m.index /\ r.queue = m.queue /\ r.pool = m.pool
  BY <1>1 DEF MainFields
<1>3. Calls(m.out)
  BY DEF Typed
<1> DEFINE t == r.out
<1>t. Adds(m.out, c, t)
  BY <1>1, <1>3, AppendSeq DEF Adds, Calls
<1> HIDE DEF t
<1>u. /\ Calls(t)
      /\ Halting(m.out) => Halting(t)
      /\ c.call # "candidate" => /\ Candidates(t) = Candidates(m.out)
                                 /\ \A k \in Candidates(m.out) : t[k] = m.out[k]
      /\ c.call = "candidate" =>
            \E k \in Candidates(t) : t[k] = c /\ \A j \in Candidates(t) : j <= k
  BY <1>t, <1>3, SendCalls
<1>4. /\ Calls(r.out)
      /\ Halting(m.out) => Halting(r.out)
      /\ c.call # "candidate" => /\ Candidates(r.out) = Candidates(m.out)
                                 /\ \A k \in Candidates(m.out) : r.out[k] = m.out[k]
      /\ c.call = "candidate" =>
            \E k \in Candidates(r.out) : r.out[k] = c /\ \A j \in Candidates(r.out) : j <= k
  BY <1>u DEF t
<1>5. Typed(r)
  BY <1>1, <1>2, <1>4 DEF Typed
<1>6. Stands(m) => Stands(r)
  BY <1>2, <1>4 DEF Stands
<1>7. c.call # "candidate" => \A x : Hears(m, x) => Hears(r, x)
  BY <1>2, <1>4 DEF Hears
<1>8. c.call = "candidate" /\ c.item.item = m.upcoming.item => \A x : Hears(r, x)
  BY <1>2, <1>4 DEF Hears
<1> QED
  BY <1>2, <1>5, <1>6, <1>7, <1>8 DEF r, Fits

\* The announced track is found anew; with the stop after the current track armed
\* there is none.
LEMMA EmitUpcomingMoves ==
    ASSUME NEW m, Typed(m), m.pool # {}
    PROVE  /\ Moves(m, EmitUpcoming(m)) /\ EmitUpcoming(m).queue = m.queue
           /\ EmitUpcoming(m).armed = m.armed
           /\ EmitUpcoming(m).play = m.play
           /\ m.armed /\ m.upcoming = NoOccurrence => EmitUpcoming(m) = m
<1> DEFINE next  == ResolveUpcoming(m)
           reuse == /\ m.upcoming.track = next.track
                    /\ <<m.upcoming.queued, m.upcoming.qid>> = <<next.queued, next.qid>>
                    /\ m.upcoming.item \notin {0, m.current.item}
           item  == IF next.track = 0 THEN 0
                    ELSE IF reuse THEN m.upcoming.item ELSE Min(m.pool)
           up    == [next EXCEPT !.item = item]
           c     == [m EXCEPT !.upcoming = up, !.pool = @ \ {item}]
           call  == [call |-> "candidate", item |-> Item(up)]
<1>1. EmitUpcoming(m) = IF up = m.upcoming THEN m ELSE Send(c, call)
  BY DEF EmitUpcoming
<1>2. next \in OccurrenceType
  BY HeadTyped
<1>a. m.armed => next = NoOccurrence
  BY DEF ResolveUpcoming
<1> HIDE DEF next
<1>3. item \in Id /\ (item = 0 <=> next.track = 0)
  <2>1. Min(m.pool) \in Id /\ Min(m.pool) # 0
    BY NewName DEF Typed
  <2>2. m.upcoming.item \in Id
    BY DEF Typed, OccurrenceType
  <2> HIDE DEF reuse
  <2>3. reuse => m.upcoming.item # 0
    BY DEF reuse
  <2> QED
    BY <2>1, <2>2, <2>3, NullTypes
<1>b. next.track = 0 => item = 0
  BY <1>3
<1> HIDE DEF item
<1>4. up \in OccurrenceType /\ NullId(up) /\ up.item = item /\ up.track = next.track
  BY <1>2, <1>3 DEF OccurrenceType, NullId
<1>5. m.armed => up = NoOccurrence
  <2> SUFFICES ASSUME m.armed PROVE up = NoOccurrence
    OBVIOUS
  <2>1. next = NoOccurrence /\ NoOccurrence.track = 0
    BY <1>a DEF NoOccurrence
  <2>2. item = 0
    BY <1>b, <2>1
  <2> QED
    BY <2>1, <2>2 DEF NoOccurrence
<1> HIDE DEF up
<1>6. Item(up) \in ItemType /\ NullId(Item(up)) /\ Item(up).item = up.item
  BY <1>4 DEF Item, ItemType, OccurrenceType, NullId
<1>7. CallFit(call) /\ call.call = "candidate" /\ call.item.item = up.item
  BY <1>6 DEF CallFit, CallKnown
<1> HIDE DEF call
<1>8. /\ DOMAIN c = MainFields /\ c.upcoming = up /\ c.pool = m.pool \ {item}
      /\ \A f \in MainFields \ {"upcoming", "pool"} : c[f] = m[f]
  BY DEF Typed, MainFields
<1> HIDE DEF c
<1>9. /\ c.play = m.play /\ c.manual = m.manual /\ c.armed = m.armed /\ c.current = m.current
      /\ c.request = m.request /\ c.change = m.change /\ c.out = m.out
      /\ c.resume = m.resume /\ c.index = m.index /\ c.queue = m.queue
  BY <1>8 DEF MainFields
<1>10. Typed(c) /\ (c.armed => c.upcoming = NoOccurrence) /\ (Stands(m) => Stands(c))
  BY <1>4, <1>5, <1>8, <1>9 DEF Typed, Stands
<1>11. /\ Fits(Send(c, call)) /\ (Stands(c) => Stands(Send(c, call)))
       /\ \A x : Hears(Send(c, call), x)
       /\ Send(c, call).queue = c.queue /\ Send(c, call).armed = c.armed
       /\ Send(c, call).play = c.play
  BY <1>7, <1>8, <1>10, SendMoves DEF Fits
<1>12. up = m.upcoming => Moves(m, m)
  BY <1>5 DEF Moves, Fits
<1> QED
  BY <1>1, <1>5, <1>9, <1>10, <1>11, <1>12 DEF Moves

\* The record is changed where the engine hears nothing of it, and the announced
\* track is found anew.
LEMMA AnewGoes ==
    ASSUME NEW m, NEW c, Fits(m), Typed(c), c.pool # {}, c.play = m.play, c.out = m.out,
           c.upcoming = m.upcoming
    PROVE  Moves(m, EmitUpcoming(c)) /\ EmitUpcoming(c).queue = c.queue
<1>1. Stands(m) => Stands(c)
  BY DEF Stands
<1>2. \A x : Hears(m, x) => Hears(c, x)
  BY DEF Hears
<1> QED
  BY <1>1, <1>2, EmitUpcomingMoves DEF Moves

-----------------------------------------------------------------------------
(* The end of a track, and the commands of the user.                        *)

\* The session forgets its track; playback is to stop, so that none is announced.
LEMMA ResetPasses ==
    ASSUME NEW m, Fits(m), m.armed, m.pool # {}
    PROVE  Passes(m, Reset(m))
<1> DEFINE t == [m EXCEPT !.current = NoOccurrence, !.atEnd = FALSE, !.request = NoRequest,
                          !.manual = FALSE]
<1>1. Reset(m) = EmitUpcoming(t)
  BY DEF Reset
<1>2. /\ MKeeps(m, t, Own) /\ t.play = m.play /\ t.manual = FALSE
      /\ t.current = NoOccurrence /\ t.request = NoRequest /\ t.change = m.change
      /\ t.resume = m.resume /\ t.index = m.index /\ t.pool = m.pool
  BY DEF MKeeps, Own, MainFields, Fits, Typed
<1> HIDE DEF t
<1>3. Passes(m, t)
  BY <1>2, NullTypes, OwnSlips DEF Fits, Typed
<1>4. t.armed /\ t.upcoming = NoOccurrence /\ Typed(t)
  BY <1>3 DEF Passes, Slips, Mute, Fits
<1>5. EmitUpcoming(t) = t
  BY <1>2, <1>4, EmitUpcomingMoves
<1> QED
  BY <1>1, <1>3, <1>5

\* A track ends after which playback is to stop.
LEMMA StopAfterCurrentPasses ==
    ASSUME NEW m, Fits(m), m.armed, m.pool # {}
    PROVE  Passes(m, StopAfterCurrent(m))
<1> DEFINE moved == MoveInOrder(m)
           t     == [moved EXCEPT !.resume = FollowingTrack(m)]
<1>1. Passes(m, moved) /\ moved.pool = m.pool
  BY MovePasses
<1>2. StopAfterCurrent(m) \in {Stop(Reset(m)), StopAtEnd(m), Stop(Reset(t))}
  BY DEF StopAfterCurrent
<1> HIDE DEF moved
<1>3. FollowingTrack(m) \in PositionType
  BY NextTyped DEF Fits
<1>4. /\ MKeeps(moved, t, Own) /\ t.play = moved.play /\ t.manual = moved.manual
      /\ t.current = moved.current /\ t.request = moved.request /\ t.change = moved.change
      /\ t.resume = FollowingTrack(m) /\ t.index = moved.index /\ t.pool = moved.pool
  BY <1>1 DEF MKeeps, Own, MainFields, Passes, Slips, Fits, Typed
<1> HIDE DEF t
<1>5. Passes(moved, t)
  BY <1>1, <1>3, <1>4, OwnSlips DEF Passes, Slips, Fits, Typed
<1>6. Passes(m, t) /\ t.pool = m.pool
  BY <1>1, <1>4, <1>5, PassesTwice
<1>7. Passes(m, Reset(m)) /\ Passes(t, Reset(t))
  BY <1>6, ResetPasses DEF Passes, Slips, Mute
<1>8. Passes(Reset(m), Stop(Reset(m))) /\ Passes(Reset(t), Stop(Reset(t)))
  BY <1>7, StopPasses DEF Passes, Slips
<1>9. Passes(m, StopAtEnd(m))
  BY StopPasses
<1> QED
  BY <1>2, <1>6, <1>7, <1>8, <1>9, PassesTwice

\* Only the kind of the next request is changed.
LEMMA ManualPasses ==
    ASSUME NEW m, NEW manual \in BOOLEAN, Fits(m)
    PROVE  LET r == [m EXCEPT !.manual = manual]
           IN  Passes(m, r) /\ r.pool = m.pool /\ r.resume = m.resume
               /\ r.request = m.request /\ r.armed = m.armed
<1> DEFINE t == [m EXCEPT !.manual = manual]
<1>1. /\ MKeeps(m, t, Own) /\ t.play = m.play /\ t.manual = manual
      /\ t.current = m.current /\ t.request = m.request /\ t.change = m.change
      /\ t.resume = m.resume /\ t.index = m.index /\ t.pool = m.pool /\ t.armed = m.armed
  BY DEF MKeeps, Own, MainFields, Fits, Typed
<1> HIDE DEF t
<1>2. Passes(m, t) /\ t.pool = m.pool /\ t.resume = m.resume /\ t.request = m.request
      /\ t.armed = m.armed
  BY <1>1, OwnSlips DEF Fits, Typed
<1> QED
  BY <1>2 DEF t

\* The end of a track.
LEMMA AdvancePasses ==
    ASSUME NEW m0, Fits(m0), m0.pool # {}
    PROVE  Passes(m0, AdvanceNaturally(m0))
<1> DEFINE m  == [m0 EXCEPT !.manual = FALSE]
           at == [m EXCEPT !.index = m.resume]
           r1 == RequestSelected(at, FromPlaylist(m.resume), FALSE)
           r2 == RequestSelected(MoveInOrder(m), InOrder(m), FALSE)
<1>1. \/ m.armed /\ AdvanceNaturally(m0) = StopAfterCurrent(m)
      \/ AdvanceNaturally(m0) \in {StopAtEnd(m), PlayOrStop(m), PlayOrStop(r1), PlayOrStop(r2)}
  BY DEF AdvanceNaturally
<1>2. Passes(m0, m) /\ m.pool = m0.pool /\ m.resume = m0.resume
  BY ManualPasses
<1> HIDE DEF m
<1>3. Fits(m) /\ m.pool # {} /\ m.resume \in PositionType
  BY <1>2 DEF Passes, Slips, Fits, Typed
<1>4. Passes(m, at) /\ at.pool = m.pool
  BY <1>3, MovePasses
<1>5. FromPlaylist(m.resume) \in OccurrenceType /\ InOrder(m) \in OccurrenceType
  BY <1>3, NextTyped, HeadTyped DEF Fits
<1> HIDE DEF at
<1>6. Passes(m, r1)
  BY <1>3, <1>4, <1>5, RequestSelectedPasses, PassesTwice DEF Passes, Slips
<1>7. Passes(m, r2)
  BY <1>3, <1>5, MovePasses, RequestSelectedPasses, PassesTwice DEF Passes, Slips
<1> HIDE DEF r1, r2
<1>8. /\ Passes(m, PlayOrStop(m)) /\ Passes(m, PlayOrStop(r1)) /\ Passes(m, PlayOrStop(r2))
  BY <1>3, <1>6, <1>7, PlayOrPasses, PassesTwice DEF Passes, Slips
<1>9. Passes(m, StopAtEnd(m)) /\ (m.armed => Passes(m, StopAfterCurrent(m)))
  BY <1>3, StopAfterCurrentPasses, StopPasses
<1> QED
  BY <1>1, <1>2, <1>8, <1>9, PassesTwice

\* next() of the player.
LEMMA SkipPasses ==
    ASSUME NEW m0, Fits(m0), m0.pool # {}
    PROVE  Passes(m0, SkipToNext(m0))
<1> DEFINE m       == [m0 EXCEPT !.manual = TRUE]
           resumed == IF m.resume = 0 THEN m ELSE [m EXCEPT !.index = m.resume, !.resume = 0]
           moved   == MoveInOrder(resumed)
           r1      == RestartPlaylist(m, TRUE)
           r2      == RequestSelected(moved, InOrder(resumed), TRUE)
<1>1. SkipToNext(m0) \in {PlayOrStop(r1), Play(m), PlayOrStop(r2), moved, StopAtEnd(moved)}
  BY DEF SkipToNext
<1>2. Passes(m0, m) /\ m.pool = m0.pool /\ m.resume = m0.resume
  BY ManualPasses
<1> HIDE DEF m
<1>3. Fits(m) /\ m.pool # {}
  BY <1>2 DEF Passes, Slips
<1>4. Passes(m, resumed) /\ resumed.pool = m.pool
  <2> DEFINE t == [m EXCEPT !.index = m.resume, !.resume = 0]
  <2>1. /\ MKeeps(m, t, Own) /\ t.play = m.play /\ t.manual = m.manual
        /\ t.current = m.current /\ t.request = m.request /\ t.change = m.change
        /\ t.resume = 0 /\ t.index = m.resume /\ t.pool = m.pool
    BY <1>3 DEF MKeeps, Own, MainFields, Fits, Typed
  <2> HIDE DEF t
  <2>2. Passes(m, t) /\ t.pool = m.pool
    BY <1>3, <2>1, NullTypes, OwnSlips DEF Fits, Typed
  <2>3. MKeeps(m, m, Bystand)
    BY <1>3 DEF MKeeps, Fits, Typed
  <2>4. Passes(m, m)
    BY <1>3, <2>3, BystandPasses
  <2> QED
    BY <2>2, <2>4 DEF t
<1> HIDE DEF resumed
<1>5. Passes(m, moved) /\ moved.pool = m.pool /\ InOrder(resumed) \in OccurrenceType
  BY <1>4, MovePasses, HeadTyped, PassesTwice DEF Passes, Slips, Fits
<1> HIDE DEF moved
<1>6. Passes(m, r1) /\ Passes(m, r2)
  BY <1>3, <1>5, RestartPasses, RequestSelectedPasses, PassesTwice DEF Passes, Slips
<1> HIDE DEF r1, r2
<1>7. /\ Passes(m, PlayOrStop(r1)) /\ Passes(m, PlayOrStop(r2)) /\ Passes(m, Play(m))
      /\ Passes(m, StopAtEnd(moved))
  BY <1>3, <1>5, <1>6, PlayOrPasses, PlayPasses, StopPasses, PassesTwice DEF Passes, Slips
<1> QED
  BY <1>1, <1>2, <1>5, <1>7, PassesTwice

\* The user chooses a track of the playlist.
LEMMA SelectPasses ==
    ASSUME NEW m, NEW i \in Tracks, Fits(m), m.pool # {}
    PROVE  Passes(m, Select(m, i))
<1> DEFINE c      == [m EXCEPT !.index = i]
           queued == \E k \in DOMAIN m.queue : m.queue[k].track = i
           o      == [FromPlaylist(i) EXCEPT !.queued = queued]
           r      == RequestTrackChange(c, o, TRUE)
<1>1. Select(m, i) = Play(r)
  BY DEF Select
<1>2. i \in PositionType /\ i # 0
  BY NullTypes DEF Tracks, PositionType
<1>3. Passes(m, c) /\ c.pool = m.pool
  BY <1>2, MovePasses
<1>q. queued \in BOOLEAN
  OBVIOUS
<1> HIDE DEF c, queued
<1>4. o \in OccurrenceType /\ o.track = i
  BY <1>2, <1>q, NullTypes DEF FromPlaylist, NoOccurrence, OccurrenceType
<1> HIDE DEF o
<1>5. Passes(c, r) /\ r.request.track = i
  BY <1>3, <1>4, RequestPasses DEF Passes, Slips
<1> HIDE DEF r
<1>6. Passes(r, Play(r))
  BY <1>2, <1>5, PlayPasses DEF Passes, Slips, Requested
<1> QED
  BY <1>1, <1>3, <1>5, <1>6, PassesTwice

\* A track is queued.
LEMMA EnqueueMoves ==
    ASSUME NEW m, NEW i \in Tracks, Fits(m), m.pool # {}, \A x : m.pool \ {x} # {},
           Len(m.queue) < MaxQueue
    PROVE  Moves(m, Enqueue(m, i))
<1> DEFINE qid   == Min(m.pool)
           entry == [track |-> i, qid |-> qid]
           q     == Append(m.queue, entry)
           c     == [m EXCEPT !.queue = q, !.pool = @ \ {qid}]
<1>1. Enqueue(m, i) = EmitUpcoming(c)
  BY DEF Enqueue
<1>2. qid \in Id /\ i \in PositionType
  BY NewName, NullTypes DEF Fits, Typed, Tracks, PositionType
<1> HIDE DEF qid
<1>3. entry \in EntryType
  BY <1>2 DEF EntryType
<1> HIDE DEF entry
<1>4. q \in Seq(EntryType) /\ Len(q) <= MaxQueue
  <2>1. m.queue \in Seq(EntryType) /\ Len(m.queue) \in Nat
    BY DEF Fits, Typed
  <2> QED
    BY <1>3, <2>1, NullTypes
<1> HIDE DEF q
<1>5. /\ DOMAIN c = MainFields /\ c.queue = q /\ c.pool = m.pool \ {qid}
      /\ \A f \in MainFields \ {"queue", "pool"} : c[f] = m[f]
  BY DEF Fits, Typed, MainFields
<1> HIDE DEF c
<1>6. /\ c.play = m.play /\ c.manual = m.manual /\ c.armed = m.armed /\ c.current = m.current
      /\ c.request = m.request /\ c.change = m.change /\ c.out = m.out
      /\ c.resume = m.resume /\ c.index = m.index /\ c.upcoming = m.upcoming
  BY <1>5 DEF MainFields
<1>7. Typed(c) /\ c.pool # {}
  BY <1>4, <1>5, <1>6 DEF Fits, Typed
<1> QED
  BY <1>1, <1>6, <1>7, AnewGoes

\* The queue is cleared.
LEMMA ClearMoves ==
    ASSUME NEW m, Fits(m), m.pool # {}
    PROVE  Moves(m, ClearQueue(m)) /\ ClearQueue(m).queue = <<>>
<1> DEFINE c == [m EXCEPT !.queue = <<>>]
<1>1. ClearQueue(m) = EmitUpcoming(c)
  BY DEF ClearQueue
<1>5. /\ DOMAIN c = MainFields /\ c.queue = <<>>
      /\ \A f \in MainFields \ {"queue"} : c[f] = m[f]
  BY DEF Fits, Typed, MainFields
<1> HIDE DEF c
<1>6. /\ c.play = m.play /\ c.manual = m.manual /\ c.armed = m.armed /\ c.current = m.current
      /\ c.request = m.request /\ c.change = m.change /\ c.out = m.out /\ c.pool = m.pool
      /\ c.resume = m.resume /\ c.index = m.index /\ c.upcoming = m.upcoming
  BY <1>5 DEF MainFields
<1>4. <<>> \in Seq(EntryType) /\ Len(<<>>) <= MaxQueue
  BY NullTypes
<1>7. Typed(c) /\ c.pool # {}
  BY <1>4, <1>5, <1>6 DEF Fits, Typed
<1> QED
  BY <1>1, <1>5, <1>6, <1>7, AnewGoes

\* The stop after the current track is armed, or no longer; with it goes the
\* announced track.
LEMMA SetArmedMoves ==
    ASSUME NEW m, NEW armed \in BOOLEAN, Fits(m), m.pool # {}
    PROVE  Moves(m, SetArmed(m, armed)) /\ SetArmed(m, armed).queue = m.queue
<1> DEFINE f     == ForgetTransitions(m)
           c     == [f EXCEPT !.armed = armed]
           auto  == [call |-> "auto", on |-> ~armed]
           told  == Send(c, auto)
           again == [call |-> "candidate", item |-> Item(m.upcoming)]
           r     == Send(told, again)
<1>1. SetArmed(m, armed) = EmitUpcoming(IF armed THEN told ELSE r)
  BY DEF SetArmed
<1>2. Passes(m, f) /\ f.pool = m.pool
  BY ForgetPasses
<1> HIDE DEF f
<1>3. /\ DOMAIN c = MainFields /\ c.armed = armed
      /\ \A x \in MainFields \ {"armed"} : c[x] = f[x]
  BY <1>2 DEF Passes, Slips, Fits, Typed, MainFields
<1> HIDE DEF c
<1>4. /\ c.play = f.play /\ c.manual = f.manual /\ c.queue = f.queue /\ c.current = f.current
      /\ c.request = f.request /\ c.change = f.change /\ c.out = f.out /\ c.pool = f.pool
      /\ c.resume = f.resume /\ c.index = f.index /\ c.upcoming = f.upcoming
  BY <1>3 DEF MainFields
<1>5. Typed(c) /\ c.pool # {}
  BY <1>2, <1>3, <1>4 DEF Passes, Slips, Fits, Typed
<1>6. /\ Stands(m) => Stands(c)
      /\ \A x : Hears(m, x) => Hears(c, x)
      /\ c.upcoming = m.upcoming /\ c.queue = m.queue
  <2>1. Stands(f) => Stands(c)
    BY <1>4 DEF Stands
  <2>2. \A x : Hears(f, x) => Hears(c, x)
    BY <1>4 DEF Hears
  <2>3. Goes(m, f) /\ f.upcoming = m.upcoming /\ f.queue = m.queue
    BY <1>2, PassesGoes DEF Passes, Slips, Mute
  <2> QED
    BY <1>4, <2>1, <2>2, <2>3 DEF Goes, Moves
<1>7. CallFit(auto) /\ auto.call = "auto"
  BY DEF CallFit, CallKnown
<1>8. CallFit(again) /\ again.call = "candidate" /\ again.item.item = m.upcoming.item
  BY DEF CallFit, CallKnown, Item, ItemType, Fits, Typed, OccurrenceType, NullId
<1> HIDE DEF auto, again
<1>9. /\ Typed(told) /\ told.upcoming = m.upcoming /\ told.queue = m.queue
      /\ told.pool = c.pool
      /\ Stands(m) => Stands(told)
      /\ \A x : Hears(m, x) => Hears(told, x)
  BY <1>5, <1>6, <1>7, SendMoves
<1> HIDE DEF told
<1>10. /\ Typed(r) /\ r.queue = m.queue /\ r.pool = c.pool
       /\ Stands(m) => Stands(r)
       /\ \A x : Hears(r, x)
  BY <1>8, <1>9, SendMoves
<1> HIDE DEF r
<1>11. /\ Moves(told, EmitUpcoming(told)) /\ EmitUpcoming(told).queue = told.queue
       /\ Moves(r, EmitUpcoming(r)) /\ EmitUpcoming(r).queue = r.queue
  BY <1>5, <1>9, <1>10, EmitUpcomingMoves
<1> QED
  BY <1>1, <1>9, <1>10, <1>11 DEF Moves

-----------------------------------------------------------------------------
(* What the engine's signals do.                                            *)

\* What is left of a sequence when one element is removed.
LEMMA RemoveAtTyped ==
    ASSUME NEW S, NEW s \in Seq(S), NEW at \in 1 .. Len(s)
    PROVE  RemoveAt(s, at) \in Seq(S) /\ Len(RemoveAt(s, at)) = Len(s) - 1
<1> DEFINE l == SubSeq(s, 1, at - 1)
           r == SubSeq(s, at + 1, Len(s))
           e == RemoveAt(s, at)
<1>1. Len(s) \in Nat /\ at \in Nat /\ at >= 1 /\ at <= Len(s)
  OBVIOUS
<1>2. l \in Seq(S) /\ Len(l) = at - 1
  OBVIOUS
<1>3. r \in Seq(S) /\ Len(r) = Len(s) - at
  OBVIOUS
<1>4. e = l \o r
  BY DEF RemoveAt
<1> HIDE DEF l, r, e
<1>5. (l \o r) \in Seq(S) /\ Len(l \o r) = Len(l) + Len(r)
  BY <1>2, <1>3
<1> QED
  BY <1>1, <1>2, <1>3, <1>4, <1>5 DEF e

\* What is left of a queue when one entry has gone.
LEMMA DequeuedTyped ==
    ASSUME NEW q \in Seq(EntryType), NEW r
    PROVE  /\ Dequeued(q, r) \in Seq(EntryType) /\ Len(Dequeued(q, r)) <= Len(q)
           /\ q = <<>> => Dequeued(q, r) = <<>>
<1> DEFINE byId == {i \in 1 .. Len(q) : q[i].qid = r.qid}
           byTrack == {i \in 1 .. Len(q) : q[i].track = r.track}
           at(I) == IF I # {} THEN Min(I) ELSE 0
           I == IF byId # {} THEN byId ELSE byTrack
           d == Dequeued(q, r)
<1>1. DOMAIN q = 1 .. Len(q) /\ Len(q) \in Nat
  OBVIOUS
<1>2. d = IF at(I) = 0 THEN q ELSE RemoveAt(q, at(I))
  BY <1>1 DEF Dequeued, SelectInSeq
<1>3. I \subseteq 1 .. Len(q)
  OBVIOUS
<1> HIDE DEF d, I, byId, byTrack
<1>4. at(I) = 0 \/ at(I) \in 1 .. Len(q)
  <2>1. I \subseteq Nat
    BY <1>1, <1>3
  <2>2. I # {} => Min(I) \in I
    BY <2>1, LeastId
  <2> QED
    BY <1>3, <2>2
<1> DEFINE k == at(I)
<1> HIDE DEF k
<1>5. k = 0 \/ k \in 1 .. Len(q)
  BY <1>4 DEF k
<1>6. d = IF k = 0 THEN q ELSE RemoveAt(q, k)
  BY <1>2 DEF k
<1>7. CASE k = 0
  BY <1>1, <1>6, <1>7 DEF d
<1>8. CASE k \in 1 .. Len(q)
  <2>1. d = RemoveAt(q, k) /\ k # 0
    BY <1>1, <1>6, <1>8
  <2>2. RemoveAt(q, k) \in Seq(EntryType) /\ Len(RemoveAt(q, k)) = Len(q) - 1
    BY <1>8, RemoveAtTyped
  <2>3. d \in Seq(EntryType) /\ Len(d) = Len(q) - 1
    BY <2>1, <2>2
  <2>4. q # <<>>
    BY <1>1, <1>8
  <2> QED
    BY <1>1, <2>3, <2>4 DEF d
<1> QED
  BY <1>5, <1>7, <1>8

\* A track becomes the current one.
LEMMA CommitGoes ==
    ASSUME NEW m, NEW r, Fits(m), m.pool # {},
           r \in RequestType \/ r \in OccurrenceType
    PROVE  Goes(m, Commit(m, r))
<1> DEFINE from == IF Item(m.request) = Item(r) THEN m.request ELSE r
           left == IF from.queued THEN Dequeued(m.queue, from) ELSE m.queue
           i    == IF from.queued THEN m.index ELSE r.track
           cur  == [track |-> r.track, item |-> r.item, queued |-> from.queued, qid |-> from.qid]
           c    == [m EXCEPT !.current = [track |-> r.track, item |-> r.item,
                                          queued |-> from.queued, qid |-> from.qid],
                             !.manual = FALSE, !.resume = 0, !.request = NoRequest,
                             !.atEnd = FALSE, !.index = IF from.queued THEN @ ELSE r.track,
                             !.queue = IF from.queued THEN Dequeued(@, from) ELSE @]
<1>1. Commit(m, r) = EmitUpcoming(c)
  BY DEF Commit
<1>2. /\ from.queued \in BOOLEAN /\ from.qid \in Id /\ r.track \in PositionType /\ r.item \in Id
  BY DEF Fits, Typed, RequestType, OccurrenceType
<1> HIDE DEF from
<1>3. cur \in OccurrenceType
  BY <1>2 DEF OccurrenceType
<1>4. i \in PositionType
  BY <1>2 DEF Fits, Typed
<1>5. /\ left \in Seq(EntryType) /\ Len(left) <= MaxQueue
      /\ m.queue = <<>> => left = <<>>
  <2>1. m.queue \in Seq(EntryType) /\ Len(m.queue) <= MaxQueue /\ Len(m.queue) \in Nat
    BY DEF Fits, Typed
  <2> DEFINE d == Dequeued(m.queue, from)
  <2>2. d \in Seq(EntryType) /\ Len(d) <= Len(m.queue) /\ (m.queue = <<>> => d = <<>>)
    BY <2>1, DequeuedTyped
  <2> HIDE DEF d
  <2>3. Len(d) <= MaxQueue
    BY <2>1, <2>2, NullTypes
  <2> QED
    BY <2>1, <2>2, <2>3 DEF d
<1>6. /\ DOMAIN c = MainFields /\ c.play = m.play /\ c.manual = FALSE /\ c.armed = m.armed
      /\ c.current = cur /\ c.request = NoRequest /\ c.change = m.change /\ c.out = m.out
      /\ c.resume = 0 /\ c.index = i /\ c.upcoming = m.upcoming /\ c.queue = left
      /\ c.pool = m.pool
  BY DEF MainFields, Fits, Typed
<1> HIDE DEF c, cur, i, left
<1>7. Typed(c) /\ c.pool # {}
  BY <1>3, <1>4, <1>5, <1>6, NullTypes DEF Fits, Typed
<1> QED
  BY <1>1, <1>5, <1>6, <1>7, AnewGoes DEF Goes

\* The controller goes on when the output has played the rest.
LEMMA TryAdvancePasses ==
    ASSUME NEW m, Fits(m), m.pool # {}
    PROVE  Passes(m, TryAdvance(m))
<1>1. MKeeps(m, m, Bystand)
  BY DEF MKeeps, Fits, Typed
<1>2. Passes(m, ForgetEnding(m)) /\ ForgetEnding(m).pool = m.pool
  BY ForgetPasses
<1>3. Passes(m, AdvanceNaturally(ForgetEnding(m)))
  BY <1>2, AdvancePasses, PassesTwice DEF Passes, Slips
<1> QED
  BY <1>1, <1>3, BystandPasses DEF TryAdvance

\* The engine has passed the end of a track: where the next one follows of
\* itself, the engine is told of it again, or nothing is said.
Again(m) == Send(Send(m, [call |-> "candidate", item |-> Item(m.upcoming)]),
                 [call |-> "prepare", item |-> Item(m.upcoming)])

LEMMA HandleBoundaryGoes ==
    ASSUME NEW m, NEW s, Fits(m), m.pool # {}
    PROVE  /\ Goes(m, HandleBoundary(m, s))
           /\ \/ Passes(m, HandleBoundary(m, s))
              \/ /\ ~s.owned /\ ~m.armed /\ m.upcoming.track # 0
                 /\ HandleBoundary(m, s).out = Again(m).out
                 /\ HandleBoundary(m, s).upcoming = m.upcoming
                 /\ ~HandleBoundary(m, s).armed
<1> DEFINE note(n) == [n EXCEPT !.owned = [track |-> s.track, item |-> n.upcoming.item,
                                           gen |-> s.gen]]
           wait == [ForgetOwned(m) EXCEPT !.ending = [track |-> s.track, gen |-> s.gen,
                                                      ready |-> ~s.rest]]
           late == [wait EXCEPT !.timers = @ \cup {[track |-> s.track, gen |-> s.gen]}]
           cand == [call |-> "candidate", item |-> Item(m.upcoming)]
           prep == [call |-> "prepare", item |-> Item(m.upcoming)]
           told == Send(m, cand)
           twice == Send(told, prep)
           r    == HandleBoundary(m, s)
<1>1. \/ r \in {m, note(m), late, TryAdvance(wait)}
      \/ r = note(twice) /\ ~s.owned /\ ~m.armed /\ m.upcoming.track # 0
  BY DEF HandleBoundary, HasAutoTransition, DistinctUpcoming
<1> HIDE DEF r
<1>2. ASSUME NEW n, Fits(n)
      PROVE  MKeeps(n, note(n), Bystand)
  BY <1>2 DEF MKeeps, Bystand, MainFields, Fits, Typed
<1>3. Passes(m, note(m))
  BY <1>2, BystandPasses
<1>4. Passes(m, m)
  <2>1. MKeeps(m, m, Bystand)
    BY DEF MKeeps, Fits, Typed
  <2> QED BY <2>1, BystandPasses
<1>5. Passes(m, wait) /\ wait.pool = m.pool
  <2> DEFINE f == ForgetOwned(m)
  <2>1. Passes(m, f) /\ f.pool = m.pool
    BY ForgetPasses
  <2>2. wait = [f EXCEPT !.ending = [track |-> s.track, gen |-> s.gen, ready |-> ~s.rest]]
    OBVIOUS
  <2> HIDE DEF f
  <2>3. MKeeps(f, wait, Bystand)
    BY <2>1, <2>2 DEF MKeeps, Bystand, MainFields, Passes, Slips, Fits, Typed
  <2> HIDE DEF wait
  <2> QED
    BY <2>1, <2>3, BystandPasses, PassesTwice DEF Passes, Slips
<1> HIDE DEF wait
<1>6. Passes(m, late)
  <2>1. MKeeps(wait, late, Bystand)
    BY <1>5 DEF MKeeps, Bystand, MainFields, Passes, Slips, Fits, Typed
  <2> HIDE DEF late
  <2> QED
    BY <1>5, <2>1, BystandPasses, PassesTwice DEF Passes, Slips
<1> HIDE DEF late
<1>7. Passes(m, TryAdvance(wait))
  BY <1>5, TryAdvancePasses, PassesTwice DEF Passes, Slips
<1>8. CallFit(cand) /\ CallFit(prep)
  BY DEF CallFit, CallKnown, Item, ItemType, Fits, Typed, OccurrenceType, NullId
<1>9. cand.call = "candidate" /\ cand.item.item = m.upcoming.item /\ prep.call = "prepare"
  BY DEF Item
<1>10. twice = Again(m)
  BY DEF Again
<1> HIDE DEF cand, prep
<1>11. /\ Typed(told) /\ told.upcoming = m.upcoming /\ told.queue = m.queue
       /\ told.armed = m.armed
       /\ Stands(m) => Stands(told)
       /\ \A x : Hears(told, x)
  BY <1>8, <1>9, SendMoves DEF Fits
<1> HIDE DEF told
<1>12. /\ Fits(twice) /\ twice.upcoming = m.upcoming /\ twice.queue = m.queue
       /\ twice.armed = m.armed
       /\ Stands(m) => Stands(twice)
       /\ \A x : Hears(twice, x)
  BY <1>8, <1>9, <1>11, SendMoves DEF Fits
<1> HIDE DEF twice
<1>13. /\ Passes(twice, note(twice)) /\ note(twice).out = twice.out
       /\ note(twice).upcoming = twice.upcoming /\ note(twice).armed = twice.armed
       /\ note(twice).queue = twice.queue
  <2>1. MKeeps(twice, note(twice), Bystand)
    BY <1>2, <1>12
  <2>2. /\ note(twice).out = twice.out
        /\ note(twice).upcoming = twice.upcoming /\ note(twice).armed = twice.armed
        /\ note(twice).queue = twice.queue
    BY <2>1 DEF MKeeps, Bystand, MainFields
  <2> QED
    BY <1>12, <2>1, <2>2, BystandPasses
<1>14. Goes(m, note(twice))
  <2>1. Goes(twice, note(twice))
    BY <1>13, PassesGoes
  <2> QED
    BY <1>12, <2>1 DEF Goes, Moves
<1> HIDE DEF note
<1>15. CASE r \in {m, note(m), late, TryAdvance(wait)}
  <2>1. Passes(m, r)
    BY <1>3, <1>4, <1>6, <1>7, <1>15
  <2> QED
    BY <2>1, PassesGoes DEF r
<1>16. CASE r = note(twice) /\ ~s.owned /\ ~m.armed /\ m.upcoming.track # 0
  <2>1. r.out = Again(m).out /\ r.upcoming = m.upcoming /\ ~r.armed
    BY <1>10, <1>12, <1>13, <1>16
  <2> QED
    BY <1>14, <1>16, <2>1 DEF r
<1> QED
  BY <1>1, <1>15, <1>16

\* The timers of the player.
LEMMA TimerPasses ==
    ASSUME NEW m, Fits(m), m.pool # {}
    PROVE  /\ \A t : Passes(m, RestPlayed(m, t))
           /\ Passes(m, WatchdogExpires(m))
<1>1. ASSUME NEW t
      PROVE  Passes(m, RestPlayed(m, t))
  <2> DEFINE fired == [m EXCEPT !.timers = @ \ {t}]
             ready == [fired EXCEPT !.ending.ready = TRUE]
  <2>1. RestPlayed(m, t) \in {fired, TryAdvance(ready)}
    BY DEF RestPlayed
  <2>2. MKeeps(m, fired, Bystand)
    BY DEF MKeeps, Bystand, MainFields, Fits, Typed
  <2> HIDE DEF fired
  <2>3. Passes(m, fired) /\ fired.pool = m.pool
    BY <2>2, BystandPasses
  <2>4. MKeeps(fired, ready, Bystand)
    BY <2>3 DEF MKeeps, Bystand, MainFields, Passes, Slips, Fits, Typed
  <2> HIDE DEF ready
  <2>5. Passes(m, ready) /\ ready.pool = m.pool
    BY <2>3, <2>4, BystandPasses, PassesTwice DEF Passes, Slips
  <2>6. Passes(m, TryAdvance(ready))
    BY <2>5, TryAdvancePasses, PassesTwice DEF Passes, Slips
  <2> QED
    BY <2>1, <2>3, <2>6
<1>2. Passes(m, WatchdogExpires(m))
  <2> DEFINE fired == [m EXCEPT !.watchdog = FALSE]
             f == ForgetOwned(fired)
  <2>1. WatchdogExpires(m) \in {fired, AdvanceNaturally(f)}
    BY DEF WatchdogExpires
  <2>2. MKeeps(m, fired, Bystand)
    BY DEF MKeeps, Bystand, MainFields, Fits, Typed
  <2> HIDE DEF fired
  <2>3. Passes(m, fired) /\ fired.pool = m.pool
    BY <2>2, BystandPasses
  <2>4. Passes(m, f) /\ f.pool = m.pool
    BY <2>3, ForgetPasses, PassesTwice DEF Passes, Slips
  <2> HIDE DEF f
  <2>5. Passes(m, AdvanceNaturally(f))
    BY <2>4, AdvancePasses, PassesTwice DEF Passes, Slips
  <2> QED
    BY <2>1, <2>3, <2>5
<1> QED
  BY <1>1, <1>2

\* The engine has moved on by itself.
LEMMA HandleCommittedGoes ==
    ASSUME NEW m0, NEW s, Fits(m0), m0.pool # {}
    PROVE  Goes(m0, HandleCommitted(m0, s))
<1> DEFINE f == ForgetEnding(m0)
           m == [f EXCEPT !.heard = s.item]
           c == Commit(m, m.change)
           u == Commit(m, m.upcoming)
           o == ForgetOwned(m)
<1>1. HandleCommitted(m0, s) \in {ForgetOwned(ForgetChange(c)), m, AdvanceNaturally(o),
                                  ForgetOwned(u)}
  BY DEF HandleCommitted
<1>2. Passes(m0, f) /\ f.pool = m0.pool
  BY ForgetPasses
<1> HIDE DEF f
<1>3. MKeeps(f, m, Bystand)
  BY <1>2 DEF MKeeps, Bystand, MainFields, Passes, Slips, Fits, Typed
<1> HIDE DEF m
<1>4. Passes(m0, m) /\ m.pool = m0.pool
  BY <1>2, <1>3, BystandPasses, PassesTwice DEF Passes, Slips
<1>5. Fits(m) /\ m.pool # {} /\ m.change \in RequestType /\ m.upcoming \in OccurrenceType
  BY <1>4 DEF Passes, Slips, Fits, Typed
<1>6. Goes(m, c) /\ Goes(m, u)
  BY <1>5, CommitGoes
<1> HIDE DEF c, u
<1>7. ASSUME NEW x, Goes(m, x)
      PROVE  Goes(m, ForgetOwned(x)) /\ Goes(m, ForgetChange(x))
  <2>1. Passes(x, ForgetOwned(x)) /\ Passes(x, ForgetChange(x))
    BY <1>7, ForgetPasses DEF Goes, Moves
  <2> QED
    BY <1>7, <2>1, PassesGoes, GoesTwice
<1>8. Goes(m, ForgetOwned(ForgetChange(c))) /\ Goes(m, ForgetOwned(u))
  BY <1>6, <1>7
<1>9. Goes(m, AdvanceNaturally(o))
  <2>1. Passes(m, o) /\ o.pool = m.pool
    BY <1>5, ForgetPasses
  <2> HIDE DEF o
  <2>2. Passes(m, AdvanceNaturally(o))
    BY <1>5, <2>1, AdvancePasses, PassesTwice DEF Passes, Slips
  <2> QED
    BY <2>2, PassesGoes
<1>10. Goes(m0, m)
  BY <1>4, PassesGoes
<1> QED
  BY <1>1, <1>8, <1>9, <1>10, GoesTwice

\* A signal that ends the playback.
Halts(s) ==
    \/ s.signal = "state" /\ s.play # "playing"
    \/ s.signal = "status" /\ s.status = "none"

\* The status of the track has changed.
LEMMA HandleStatusSlips ==
    ASSUME NEW m, NEW s, Fits(m), m.pool # {}, s.status \in {"none", "end", "invalid", "loading"}
    PROVE  /\ s.status = "none" => Slips(m, HandleStatus(m, s))
           /\ s.status \in {"end", "loading"} => Passes(m, HandleStatus(m, s))
           /\ s.status = "invalid" => Goes(m, HandleStatus(m, s))
<1> DEFINE f == ForgetTransitions(m)
<1>f. Passes(m, f) /\ f.pool = m.pool
  BY ForgetPasses
<1>m. Passes(m, m)
  <2>1. MKeeps(m, m, Bystand)
    BY DEF MKeeps, Fits, Typed
  <2> QED BY <2>1, BystandPasses
<1>1. CASE s.status = "none"
  <2> DEFINE g == ForgetChange(f)
  <2>1. HandleStatus(m, s) = EnterStopped(g, FALSE)
    BY <1>1 DEF HandleStatus
  <2> HIDE DEF f
  <2>2. Passes(m, g)
    BY <1>f, ForgetPasses, PassesTwice DEF Passes, Slips
  <2> HIDE DEF g
  <2>3. Slips(g, EnterStopped(g, FALSE))
    BY <2>2, EnterStoppedSlips DEF Passes, Slips
  <2>4. Slips(m, EnterStopped(g, FALSE))
    BY <2>2, <2>3, SlipsTwice DEF Passes
  <2> QED
    BY <1>1, <2>1, <2>4
<1>2. CASE s.status = "end"
  <2> DEFINE c == [m EXCEPT !.suppressed = TRUE, !.watchdog = TRUE]
  <2>1. HandleStatus(m, s) \in {m, c}
    BY <1>2 DEF HandleStatus
  <2>2. MKeeps(m, c, Bystand)
    BY DEF MKeeps, Bystand, MainFields, Fits, Typed
  <2> HIDE DEF c
  <2>3. Passes(m, c)
    BY <2>2, BystandPasses
  <2> QED
    BY <1>2, <1>m, <2>1, <2>3
<1>3. CASE s.status = "invalid"
  <2> DEFINE c == Commit(f, m.change)
             g == ForgetChange(c)
  <2>1. HandleStatus(m, s) \in {Pause(g), Pause(f)}
    BY <1>3 DEF HandleStatus
  <2> HIDE DEF f
  <2>2. m.change \in RequestType
    BY DEF Fits, Typed
  <2>3. Goes(f, c)
    BY <1>f, <2>2, CommitGoes DEF Passes, Slips
  <2> HIDE DEF c
  <2>4. Goes(f, g)
    <3>1. Passes(c, g)
      BY <2>3, ForgetPasses DEF Goes, Moves
    <3> QED BY <2>3, <3>1, PassesGoes, GoesTwice
  <2> HIDE DEF g
  <2>5. Goes(f, Pause(g)) /\ Goes(f, Pause(f))
    <3>1. Passes(g, Pause(g)) /\ Passes(f, Pause(f))
      BY <1>f, <2>4, PausePasses DEF Goes, Moves, Passes, Slips
    <3> QED BY <2>4, <3>1, PassesGoes, GoesTwice
  <2>6. Goes(m, f)
    BY <1>f, PassesGoes
  <2> QED
    BY <1>3, <2>1, <2>5, <2>6, GoesTwice
<1>4. CASE s.status = "loading"
  <2> DEFINE c == [m EXCEPT !.changeGen = s.gen]
  <2>1. HandleStatus(m, s) \in {m, c}
    BY <1>4 DEF HandleStatus
  <2>2. MKeeps(m, c, Bystand)
    BY DEF MKeeps, Bystand, MainFields, Fits, Typed
  <2> HIDE DEF c
  <2>3. Passes(m, c)
    BY <2>2, BystandPasses
  <2> QED
    BY <1>4, <1>m, <2>1, <2>3
<1> QED
  BY <1>1, <1>2, <1>3, <1>4

\* The engine plays, pauses or stops.
LEMMA HandleStateSlips ==
    ASSUME NEW m, NEW s, Fits(m), s.play \in {"stopped", "paused", "playing"}
    PROVE  /\ Slips(m, HandleState(m, s))
           /\ s.play = "playing" => Stands(HandleState(m, s))
<1>1. CASE s.play = "stopped"
  <2> DEFINE f == ForgetTransitions(m)
  <2>1. HandleState(m, s) = EnterStopped(f, FALSE)
    BY <1>1 DEF HandleState
  <2>2. Passes(m, f)
    BY ForgetPasses
  <2> HIDE DEF f
  <2>3. Slips(f, EnterStopped(f, FALSE))
    BY <2>2, EnterStoppedSlips DEF Passes, Slips
  <2> QED
    BY <1>1, <2>1, <2>2, <2>3, SlipsTwice DEF Passes
<1>2. ASSUME NEW p \in PlayType, NEW w
      PROVE  Slips(m, [m EXCEPT !.play = p, !.watchdog = w])
             /\ [m EXCEPT !.play = p, !.watchdog = w].play = p
  <2> DEFINE c == [m EXCEPT !.play = p, !.watchdog = w]
  <2>1. /\ MKeeps(m, c, Own) /\ c.play = p /\ c.manual = m.manual
        /\ c.current = m.current /\ c.request = m.request /\ c.change = m.change
        /\ c.resume = m.resume /\ c.index = m.index /\ c.pool = m.pool
    BY DEF MKeeps, Own, MainFields, Fits, Typed
  <2> HIDE DEF c
  <2>2. Slips(m, c) /\ c.play = p
    BY <2>1, OwnSlips DEF Fits, Typed
  <2> QED
    BY <2>2 DEF c
<1>3. CASE s.play = "paused"
  <2> DEFINE w == m.watchdog /\ ~m.suppressed
  <2>1. HandleState(m, s) = [m EXCEPT !.play = "paused", !.watchdog = w]
    BY <1>3 DEF HandleState
  <2> HIDE DEF w
  <2>2. Slips(m, [m EXCEPT !.play = "paused", !.watchdog = w])
    BY <1>2, Zenon DEF PlayType
  <2> QED
    BY <1>3, <2>1, <2>2
<1>4. CASE s.play = "playing"
  <2> DEFINE w == m.watchdog \/ (m.suppressed /\ m.owned.track # 0)
             c == [m EXCEPT !.play = "playing", !.watchdog = w]
  <2>1. HandleState(m, s) = c
    BY <1>4 DEF HandleState
  <2> HIDE DEF w
  <2>2. Slips(m, c) /\ c.play = "playing"
    BY <1>2, Zenon DEF PlayType
  <2> HIDE DEF c
  <2> QED
    BY <1>4, <2>1, <2>2 DEF Stands
<1> QED
  BY <1>1, <1>3, <1>4

\* Whatever signal the handler receives.
LEMMA HandleGoes ==
    ASSUME NEW m, NEW s, Fits(m), m.pool # {}, SignalOk(s)
    PROVE  LET r == Handle(m, s)
           IN  /\ Fits(r) /\ (m.queue = <<>> => r.queue = <<>>)
               /\ \A c : Hears(m, c) => Hears(r, c)
               /\ ~Halts(s) => (Stands(m) => Stands(r))
               /\ s.signal = "state" /\ s.play = "playing" => Stands(r)
               /\ \/ Slips(m, r)
                  \/ s.signal = "boundary"
                  \/ s.signal = "committed"
                  \/ s.signal = "status" /\ s.status = "invalid"
<1> DEFINE r == Handle(m, s)
<1>s. Slips(m, r) => /\ Fits(r) /\ (m.queue = <<>> => r.queue = <<>>)
                     /\ \A c : Hears(m, c) => Hears(r, c)
  BY MuteHears DEF Slips, Mute
<1>g. Goes(m, r) => /\ Fits(r) /\ (m.queue = <<>> => r.queue = <<>>)
                    /\ (Stands(m) => Stands(r))
                    /\ \A c : Hears(m, c) => Hears(r, c)
  BY DEF Goes, Moves
<1>1. CASE s.signal = "boundary"
  <2>1. Goes(m, r)
    BY <1>1, HandleBoundaryGoes DEF Handle
  <2> HIDE DEF r
  <2> QED BY <1>1, <1>g, <2>1 DEF r
<1>2. CASE s.signal = "committed"
  <2>1. Goes(m, r)
    BY <1>2, HandleCommittedGoes DEF Handle
  <2> HIDE DEF r
  <2> QED BY <1>2, <1>g, <2>1 DEF r
<1>3. CASE s.signal = "status"
  <2>1. s.status \in {"none", "end", "invalid", "loading"} /\ r = HandleStatus(m, s)
    BY <1>3 DEF Handle, SignalOk
  <2> HIDE DEF r
  <2>2. CASE s.status = "none"
    <3>1. Slips(m, r)
      BY <2>1, <2>2, HandleStatusSlips
    <3> QED BY <1>3, <1>s, <2>2, <3>1 DEF Halts, r
  <2>3. CASE s.status \in {"end", "loading"}
    <3>1. Passes(m, r)
      BY <2>1, <2>3, HandleStatusSlips
    <3> QED BY <1>3, <1>s, <3>1 DEF Passes, r
  <2>4. CASE s.status = "invalid"
    <3>1. Goes(m, r)
      BY <2>1, <2>4, HandleStatusSlips
    <3> QED BY <1>3, <1>g, <2>4, <3>1 DEF r
  <2> QED
    BY <2>1, <2>2, <2>3, <2>4
<1>4. CASE s.signal = "state"
  <2>1. s.play \in {"stopped", "paused", "playing"} /\ r = HandleState(m, s)
    BY <1>4 DEF Handle, SignalOk
  <2> HIDE DEF r
  <2>2. Slips(m, r) /\ (s.play = "playing" => Stands(r))
    BY <2>1, HandleStateSlips
  <2> QED
    BY <1>4, <1>s, <2>2 DEF Halts, r
<1>5. CASE s.signal = "unready"
  <2>1. r \in {m, WatchdogExpires(m)}
    BY <1>5 DEF Handle, HandleUnready
  <2>2. Passes(m, m)
    <3>1. MKeeps(m, m, Bystand)
      BY DEF MKeeps, Fits, Typed
    <3> QED BY <3>1, BystandPasses
  <2> HIDE DEF r
  <2>3. Passes(m, r)
    BY <2>1, <2>2, TimerPasses
  <2> QED
    BY <1>5, <1>s, <2>3 DEF Passes, r
<1> QED
  BY <1>1, <1>2, <1>3, <1>4, <1>5 DEF SignalOk

-----------------------------------------------------------------------------
(* The types of the engine's record, and what a step of it tells the player. *)

StatusType   == {"none", "ok", "end", "invalid"}
StreamType   == {"none", "body", "ended", "drained"}
PreparedType == [track : PositionType, item : Id, fits : BOOLEAN]
ArmedType    == [track : PositionType, item : Id, gen : Id, adopted : BOOLEAN]

\* The parts of the engine's record have their types.
EngineTyped(e) ==
    /\ Shape(e)
    /\ e.playback \in PlayType /\ e.status \in StatusType /\ e.stream \in StreamType
    /\ e.current \in ItemType /\ e.candidate \in ItemType /\ e.job \in ItemType
    /\ e.prepared \in PreparedType /\ e.armed \in ArmedType
    /\ e.gen \in Id /\ e.pool \subseteq 1 .. MaxItem

\* The boundary belongs to a track that has been played.
Marked(e) == e.anchor \/ e.waiting => e.stream = "drained"

\* A step that neither starts nor ends the playback.
Runs(e, r) ==
    /\ EngineTyped(r) /\ r.playback = e.playback /\ r.timers = e.timers
    /\ Longer(e.out, r.out)
    /\ \A k \in Len(e.out) + 1 .. Len(r.out) : ~Halts(r.out[k])
    /\ Marked(e) => Marked(r)

\* And leaves the track as it is.
Stays(e, r) == Runs(e, r) /\ r.gen = e.gen /\ r.pool = e.pool /\ r.current = e.current

\* The track may change, to one with a new generation.
Turns(e, r) == Runs(e, r) /\ (Stays(e, r) \/ r.gen \in e.pool)

\* The fields that a step may change in silence.
Inner == EngineFields \ {"playback", "current", "gen", "timers", "pool", "out"}

\* No item is an item.
LEMMA NullItems ==
    NoTrack \in ItemType /\ NoPrepared \in PreparedType /\ NoGapless \in ArmedType
BY NullTypes DEF NoTrack, NoPrepared, NoGapless, ItemType, PreparedType, ArmedType

\* What is prepared or attached is an item.
LEMMA PlainTyped ==
    ASSUME NEW o, o \in ItemType \/ o \in PreparedType \/ o \in ArmedType
    PROVE  Plain(o) \in ItemType
BY DEF Plain, ItemType, PreparedType, ArmedType

\* One step after another.
LEMMA RunsTwice ==
    ASSUME NEW e, NEW f, NEW r, Runs(e, f), Runs(f, r)
    PROVE  Runs(e, r)
<1>1. Longer(e.out, r.out)
  BY LongerTwice DEF Runs
<1>2. ASSUME NEW k \in Len(e.out) + 1 .. Len(r.out)
      PROVE  ~Halts(r.out[k])
  <2>0. Longer(e.out, f.out) /\ Longer(f.out, r.out)
    BY DEF Runs
  <2>1. CASE k \in Len(e.out) + 1 .. Len(f.out)
    <3>1. k \in 1 .. Len(f.out)
      BY <2>0, <2>1 DEF Longer
    <3>2. r.out[k] = f.out[k]
      BY <2>0, <3>1 DEF Longer
    <3> QED BY <2>1, <3>2 DEF Runs
  <2>2. CASE k \in Len(f.out) + 1 .. Len(r.out)
    BY <2>2 DEF Runs
  <2> QED
    BY <1>2, <2>0, <2>1, <2>2 DEF Longer
<1> QED
  BY <1>1, <1>2 DEF Runs

LEMMA StaysTwice ==
    ASSUME NEW e, NEW f, NEW r, Stays(e, f), Stays(f, r)
    PROVE  Stays(e, r)
BY RunsTwice DEF Stays

\* A track is changed once.
LEMMA TurnsTwice ==
    ASSUME NEW e, NEW f, NEW r, (Stays(e, f) /\ Turns(f, r)) \/ (Turns(e, f) /\ Stays(f, r))
    PROVE  Turns(e, r)
BY RunsTwice, StaysTwice DEF Stays, Turns

\* A silent step.
LEMMA InnerStays ==
    ASSUME NEW e, NEW r, EngineTyped(e), Keeps(e, r, Inner),
           r.status \in StatusType, r.stream \in StreamType, r.candidate \in ItemType,
           r.job \in ItemType, r.prepared \in PreparedType, r.armed \in ArmedType,
           Marked(e) => Marked(r)
    PROVE  Stays(e, r) /\ r.out = e.out
<1>1. /\ r.playback = e.playback /\ r.current = e.current /\ r.gen = e.gen
      /\ r.timers = e.timers /\ r.pool = e.pool /\ r.out = e.out /\ Shape(r)
  BY DEF Keeps, Inner, EngineFields
<1>2. Len(e.out) \in Nat
  BY DEF EngineTyped, Shape, SignalsOk, IsSeq
<1>3. Longer(e.out, r.out)
  BY <1>1, <1>2 DEF Longer
<1>4. EngineTyped(r)
  BY <1>1 DEF EngineTyped
<1> QED
  BY <1>1, <1>2, <1>3, <1>4 DEF Stays, Runs

\* A step that touches what comes next alone.
LEMMA NextStays ==
    ASSUME NEW e, NEW r, EngineTyped(e),
           Keeps(e, r, Inner \ {"status", "stream", "anchor", "waiting"}),
           r.candidate \in ItemType, r.job \in ItemType, r.prepared \in PreparedType,
           r.armed \in ArmedType
    PROVE  Stays(e, r) /\ r.out = e.out
<1>1. Keeps(e, r, Inner) /\ r.status = e.status /\ r.stream = e.stream
      /\ r.anchor = e.anchor /\ r.waiting = e.waiting
  BY DEF Keeps, Inner, EngineFields
<1> QED
  BY <1>1, InnerStays DEF EngineTyped, Marked

\* A signal that does not end the playback.
LEMMA EmitStays ==
    ASSUME NEW e, NEW s, EngineTyped(e), SignalOk(s), ~Halts(s)
    PROVE  LET r == Emit(e, s)
           IN  Stays(e, r) /\ \E k \in 1 .. Len(r.out) : r.out[k] = s
<1> DEFINE r == Emit(e, s)
           n == Len(e.out)
<1>1. Keeps(e, r, {"out"}) /\ r.out = Append(e.out, s)
  <2>1. Shape(e)
    BY DEF EngineTyped
  <2>2. r.out = Append(e.out, s)
    BY <2>1 DEF Emit, Shape, EngineFields
  <2> QED BY <2>1, <2>2, EmitKeeps
<1>2. /\ IsSeq(r.out) /\ Len(r.out) = n + 1 /\ n \in Nat /\ r.out[n + 1] = s
      /\ \A k \in 1 .. n : r.out[k] = e.out[k]
  BY <1>1, AppendSeq DEF EngineTyped, Shape, SignalsOk
<1> HIDE DEF r
<1>3. /\ EngineTyped(r) /\ r.playback = e.playback /\ r.timers = e.timers
      /\ (Marked(e) => Marked(r)) /\ r.gen = e.gen /\ r.pool = e.pool /\ r.current = e.current
  BY <1>1 DEF EngineTyped, Keeps, EngineFields, Marked
<1>4. Longer(e.out, r.out)
  BY <1>2 DEF Longer
<1>5. ASSUME NEW k \in n + 1 .. Len(r.out)
      PROVE  ~Halts(r.out[k])
  <2>1. k = n + 1
    BY <1>2
  <2> QED BY <1>2, <2>1
<1>6. n + 1 \in 1 .. Len(r.out)
  BY <1>2
<1>7. Stays(e, r) /\ \E k \in 1 .. Len(r.out) : r.out[k] = s
  BY <1>2, <1>3, <1>4, <1>5, <1>6 DEF Stays, Runs
<1> QED
  BY <1>7 DEF r

\* The track has ended or cannot be played.
LEMMA SetStatusStays ==
    ASSUME NEW e, NEW status, EngineTyped(e), status \in {"end", "invalid"}
    PROVE  Stays(e, SetStatus(e, status))
<1> DEFINE c      == [e EXCEPT !.status = status]
           signal == [signal |-> "status", status |-> status, track |-> e.current.track,
                      gen |-> e.gen]
<1>1. Keeps(e, c, {"status"}) /\ c.status = status
  BY DEF EngineTyped, Keeps, Shape, EngineFields
<1>2. SignalOk(signal) /\ ~Halts(signal)
  BY DEF SignalOk, Halts
<1>3. SetStatus(e, status) \in {e, Emit(c, signal)}
  BY DEF SetStatus
<1> HIDE DEF c, signal
<1>4. Stays(e, c)
  <2>1. Keeps(e, c, Inner) /\ c.stream = e.stream /\ c.anchor = e.anchor /\ c.waiting = e.waiting
        /\ c.candidate = e.candidate /\ c.job = e.job /\ c.prepared = e.prepared
        /\ c.armed = e.armed /\ c.status \in StatusType
    BY <1>1 DEF Keeps, Inner, EngineFields, StatusType
  <2> QED BY <2>1, InnerStays DEF EngineTyped, Marked
<1>5. Stays(c, Emit(c, signal))
  BY <1>2, <1>4, EmitStays DEF Stays, Runs
<1>6. Keeps(e, e, {})
  BY DEF Keeps, EngineTyped
<1>7. Stays(e, e)
  <2>1. Keeps(e, e, Inner \ {"status", "stream", "anchor", "waiting"})
    BY <1>6 DEF Keeps
  <2> QED BY <2>1, NextStays DEF EngineTyped
<1> QED
  BY <1>3, <1>4, <1>5, <1>7, StaysTwice

\* No step at all.
LEMMA SelfStays ==
    ASSUME NEW e, EngineTyped(e)
    PROVE  Stays(e, e)
<1>1. Keeps(e, e, Inner \ {"status", "stream", "anchor", "waiting"})
  BY DEF Keeps, EngineTyped
<1> QED
  BY <1>1, NextStays DEF EngineTyped

\* What is known of an automatic change is forgotten.
LEMMA ClearAdvanceStays ==
    ASSUME NEW e, EngineTyped(e)
    PROVE  LET r == ClearAdvance(e)
           IN  Stays(e, r) /\ r.out = e.out /\ Marked(r) /\ ~r.anchor /\ ~r.waiting
<1> DEFINE r == ClearAdvance(e)
<1>1. Keeps(e, r, Advance)
  BY ClearAdvanceKeeps DEF EngineTyped
<1>2. r.anchor = FALSE /\ r.waiting = FALSE
  BY DEF ClearAdvance, EngineTyped, Shape, EngineFields
<1> HIDE DEF r
<1>3. Keeps(e, r, Inner) /\ r.stream = e.stream /\ r.status = e.status
      /\ r.candidate = e.candidate /\ r.job = e.job /\ r.prepared = e.prepared
      /\ r.armed = e.armed /\ Marked(r)
  BY <1>1, <1>2 DEF Keeps, Inner, EngineFields, Advance, Marked
<1>4. Stays(e, r) /\ r.out = e.out /\ Marked(r) /\ ~r.anchor /\ ~r.waiting
  BY <1>2, <1>3, InnerStays DEF EngineTyped
<1> QED
  BY <1>4 DEF r

\* What is known of the end of the track is forgotten.
LEMMA ClearEndingStays ==
    ASSUME NEW e, EngineTyped(e)
    PROVE  Stays(e, ClearEnding(e)) /\ ClearEnding(e).out = e.out
<1>1. Keeps(e, ClearEnding(e), {"live", "latched", "ended"})
  BY ClearEndingKeeps DEF EngineTyped
<1> DEFINE r == ClearEnding(e)
<1> HIDE DEF r
<1>2. Keeps(e, r, {"live", "latched", "ended"})
  BY <1>1 DEF r
<1>3. Keeps(e, r, Inner \ {"status", "stream", "anchor", "waiting"})
      /\ r.candidate = e.candidate /\ r.job = e.job /\ r.prepared = e.prepared
      /\ r.armed = e.armed
  BY <1>2 DEF Keeps, Inner, EngineFields
<1>4. Stays(e, r) /\ r.out = e.out
  BY <1>3, NextStays DEF EngineTyped
<1> QED
  BY <1>4 DEF r

\* A step that changes what is prepared and attached.
LEMMA PreparedStays ==
    ASSUME NEW e, NEW r, EngineTyped(e), Keeps(e, r, {"prepared", "armed", "job"}),
           r.prepared \in PreparedType, r.armed \in ArmedType, r.job \in ItemType
    PROVE  Stays(e, r) /\ r.out = e.out
<1>1. Keeps(e, r, Inner \ {"status", "stream", "anchor", "waiting"})
      /\ r.candidate = e.candidate
  BY DEF Keeps, Inner, EngineFields
<1> QED
  BY <1>1, NextStays DEF EngineTyped

LEMMA ClearPreparedStays ==
    ASSUME NEW e, EngineTyped(e)
    PROVE  Stays(e, ClearPrepared(e)) /\ ClearPrepared(e).out = e.out
<1>1. Keeps(e, ClearPrepared(e), {"prepared", "armed"})
      /\ ClearPrepared(e).prepared = NoPrepared /\ ClearPrepared(e).armed = NoGapless
  BY ClearPreparedKeeps DEF EngineTyped
<1>2. Keeps(e, ClearPrepared(e), {"prepared", "armed", "job"})
      /\ ClearPrepared(e).job = e.job
  BY <1>1 DEF Keeps, EngineFields
<1> QED
  BY <1>1, <1>2, NullItems, PreparedStays DEF EngineTyped

LEMMA CancelJobsStays ==
    ASSUME NEW e, EngineTyped(e)
    PROVE  Stays(e, CancelJobs(e)) /\ CancelJobs(e).out = e.out
<1>1. Keeps(e, CancelJobs(e), {"job"}) /\ CancelJobs(e).job = NoTrack
  BY CancelJobsKeeps DEF EngineTyped
<1>2. Keeps(e, CancelJobs(e), {"prepared", "armed", "job"})
      /\ CancelJobs(e).prepared = e.prepared /\ CancelJobs(e).armed = e.armed
  BY <1>1 DEF Keeps, EngineFields
<1> QED
  BY <1>1, <1>2, NullItems, PreparedStays DEF EngineTyped

\* What is attached goes.
LEMMA DisarmStays ==
    ASSUME NEW e, EngineTyped(e)
    PROVE  Stays(e, Disarm(e)) /\ Disarm(e).out = e.out
<1>1. Keeps(e, Disarm(e), {"prepared", "armed"})
      /\ Disarm(e).prepared \in {e.prepared, NoPrepared}
  BY DisarmKeeps DEF EngineTyped
<1>2. Disarm(e).armed \in {e.armed, NoGapless}
  BY DEF Disarm, EngineTyped, Shape, EngineFields
<1>3. Keeps(e, Disarm(e), {"prepared", "armed", "job"}) /\ Disarm(e).job = e.job
  BY <1>1 DEF Keeps, EngineFields
<1> QED
  BY <1>1, <1>2, <1>3, NullItems, PreparedStays DEF EngineTyped

LEMMA DisarmStaleStays ==
    ASSUME NEW e, NEW track, EngineTyped(e)
    PROVE  Stays(e, DisarmStale(e, track)) /\ DisarmStale(e, track).out = e.out
<1>1. DisarmStale(e, track) \in {e, Disarm(e)}
  BY DEF DisarmStale
<1> QED
  BY <1>1, SelfStays, DisarmStays

\* A preparation begins.
LEMMA EnsurePreparedStays ==
    ASSUME NEW e, NEW item, EngineTyped(e), item \in ItemType
    PROVE  Stays(e, EnsurePrepared(e, item))
<1> DEFINE c == ClearPrepared(e)
           r == EnsurePrepared(e, item)
<1>1. r = e \/ r = [c EXCEPT !.job = item]
  BY DEF EnsurePrepared
<1>2. Stays(e, c)
  BY ClearPreparedStays
<1>3. CASE r = [c EXCEPT !.job = item]
  <2>1. EngineTyped(c)
    BY <1>2 DEF Stays, Runs
  <2> HIDE DEF c, r
  <2>2. Keeps(c, r, {"prepared", "armed", "job"}) /\ r.job = item
        /\ r.prepared = c.prepared /\ r.armed = c.armed
    BY <1>3, <2>1 DEF EngineTyped, Keeps, Shape, EngineFields
  <2>3. Stays(c, r)
    BY <2>1, <2>2, PreparedStays DEF EngineTyped
  <2> QED BY <1>2, <2>3, StaysTwice DEF r
<1> QED
  BY <1>1, <1>3, SelfStays

\* The handler is told that a track is not ready.
LEMMA UnreadyStays ==
    ASSUME NEW e, NEW item, EngineTyped(e)
    PROVE  Stays(e, Unready(e, item)) /\ Unready(e, item).anchor = e.anchor
<1> DEFINE s == [signal |-> "unready", track |-> item.track, item |-> item.item]
<1>1. SignalOk(s) /\ ~Halts(s)
  BY DEF SignalOk, Halts
<1>2. Unready(e, item) = Emit(e, s)
  BY DEF Unready
<1> HIDE DEF s
<1>3. Keeps(e, Unready(e, item), {"out"})
  BY UnreadyKeeps DEF EngineTyped
<1> QED
  BY <1>1, <1>2, <1>3, EmitStays DEF Keeps, EngineFields

\* The player asks for the preparation of a track.
LEMMA PrepareNextStays ==
    ASSUME NEW e, NEW item, EngineTyped(e), item \in ItemType
    PROVE  Stays(e, PrepareNext(e, item))
<1> DEFINE idle == CancelJobs(e)
           gone == ClearPrepared(idle)
<1>1. Stays(e, idle)
  BY CancelJobsStays
<1>2. \/ PrepareNext(e, item) = Unready(gone, item)
      \/ PrepareNext(e, item) = Unready(e, item)
      \/ PrepareNext(e, item) = EnsurePrepared(e, item)
  BY PrepareNextCases
<1> HIDE DEF idle
<1>3. Stays(idle, gone)
  BY <1>1, ClearPreparedStays DEF Stays, Runs
<1> HIDE DEF gone
<1>4. Stays(e, gone) /\ EngineTyped(gone)
  BY <1>1, <1>3, StaysTwice DEF Stays, Runs
<1>5. Stays(e, Unready(gone, item))
  <2>1. Stays(gone, Unready(gone, item))
    BY <1>4, UnreadyStays
  <2> QED BY <1>4, <2>1, StaysTwice
<1> QED
  BY <1>2, <1>5, UnreadyStays, EnsurePreparedStays

\* A prepared track is attached.
LEMMA ArmStays ==
    ASSUME NEW e, NEW target, EngineTyped(e), target \in ItemType
    PROVE  Stays(e, Arm(e, target)) /\ Arm(e, target).out = e.out
<1> DEFINE stale == DisarmStale(e, target.track)
           gapless == [track |-> target.track, item |-> target.item,
                       gen |-> stale.gen, adopted |-> FALSE]
           r     == Arm(e, target)
<1>1. Stays(e, stale) /\ stale.out = e.out
  BY DisarmStaleStays
<1>2. r \in {stale, [stale EXCEPT !.armed = gapless]}
  BY DEF Arm
<1> HIDE DEF stale
<1>3. EngineTyped(stale)
  BY <1>1 DEF Stays, Runs
<1>4. gapless \in ArmedType
  BY <1>3 DEF EngineTyped, ArmedType, ItemType
<1> HIDE DEF gapless
<1>5. CASE r = [stale EXCEPT !.armed = gapless]
  <2> HIDE DEF r
  <2>1. Keeps(stale, r, {"prepared", "armed", "job"}) /\ r.job = stale.job
        /\ r.prepared = stale.prepared /\ r.armed = gapless
    <3>1. DOMAIN gapless = {"track", "item", "gen", "adopted"}
      BY <1>4 DEF ArmedType
    <3> QED BY <1>3, <1>5, <3>1 DEF EngineTyped, Keeps, Shape, EngineFields
  <2>2. Stays(stale, r) /\ r.out = stale.out
    BY <1>3, <1>4, <2>1, PreparedStays DEF EngineTyped
  <2> QED BY <1>1, <2>2, StaysTwice DEF r
<1>6. CASE r = stale
  BY <1>1, <1>6
<1> QED
  BY <1>2, <1>5, <1>6

\* The decoder of what is attached takes over.
LEMMA StageStays ==
    ASSUME NEW e, EngineTyped(e)
    PROVE  Stays(e, Stage(e)) /\ Stage(e).out = e.out
<1>1. CASE Stage(e) = e
  BY <1>1, SelfStays
<1>2. CASE Stage(e) = [e EXCEPT !.prepared = NoPrepared, !.armed.adopted = TRUE]
  <2> DEFINE taken == [e.armed EXCEPT !.adopted = TRUE]
             r     == Stage(e)
  <2>1. r = [e EXCEPT !.prepared = NoPrepared, !.armed = taken]
    BY <1>2
  <2>2. taken \in ArmedType
    BY DEF EngineTyped, ArmedType
  <2>3. Keeps(e, r, {"prepared", "armed", "job"})
    BY StageKeeps DEF EngineTyped, Keeps
  <2> HIDE DEF taken, r
  <2>4. r.job = e.job /\ r.prepared = NoPrepared /\ r.armed = taken
    BY <2>1 DEF EngineTyped, Shape, EngineFields
  <2> QED
    BY <2>2, <2>3, <2>4, NullItems, PreparedStays DEF EngineTyped, r
<1> QED
  BY <1>1, <1>2 DEF Stage

\* Another track is the current one.
LEMMA SetContextTurns ==
    ASSUME NEW e, NEW item, EngineTyped(e), e.pool # {}, Plain(item) \in ItemType
    PROVE  LET r == SetContext(e, item)
           IN  Runs(e, r) /\ r.gen \in e.pool /\ Marked(r) /\ ~r.anchor /\ ~r.waiting
               /\ r.out = e.out
<1> DEFINE gen == Min(e.pool)
           c   == [e EXCEPT !.current = Plain(item), !.gen = gen, !.pool = @ \ {gen}]
           r   == SetContext(e, item)
<1>1. r = ClearAdvance(c)
  BY DEF SetContext
<1>2. gen \in e.pool /\ gen \in Id
  BY NewName DEF EngineTyped
<1>3. /\ Keeps(e, c, {"current", "gen", "pool"})
      /\ c.current = Plain(item) /\ c.gen = gen /\ c.pool = e.pool \ {gen}
  BY DEF EngineTyped, Keeps, Shape, EngineFields
<1> HIDE DEF c, gen
<1>4. /\ Shape(c) /\ c.playback = e.playback /\ c.status = e.status /\ c.stream = e.stream
      /\ c.candidate = e.candidate /\ c.job = e.job /\ c.prepared = e.prepared
      /\ c.armed = e.armed /\ c.timers = e.timers /\ c.out = e.out
      /\ c.anchor = e.anchor /\ c.waiting = e.waiting
  BY <1>3 DEF Keeps, EngineFields
<1>5. EngineTyped(c)
  BY <1>2, <1>3, <1>4 DEF EngineTyped
<1>6. Runs(e, c)
  <2>1. Len(e.out) \in Nat
    BY DEF EngineTyped, Shape, SignalsOk, IsSeq
  <2> QED BY <1>4, <1>5, <2>1 DEF Runs, Longer, Marked
<1>7. Stays(c, r) /\ r.out = c.out /\ Marked(r) /\ ~r.anchor /\ ~r.waiting
  BY <1>1, <1>5, ClearAdvanceStays
<1> HIDE DEF r
<1>8. Runs(e, r) /\ r.gen = gen /\ r.out = e.out
  BY <1>3, <1>4, <1>6, <1>7, RunsTwice DEF Stays
<1> QED
  BY <1>2, <1>7, <1>8 DEF r

\* A change of track is announced.
LEMMA CommittedStays ==
    ASSUME NEW e, EngineTyped(e)
    PROVE  LET r == Committed(e)
           IN  Stays(e, r) /\ Marked(r)
<1> DEFINE c == [e EXCEPT !.candidate = IF Same(@, e.current) THEN NoTrack ELSE @]
           d == ClearAdvance(c)
           signal == [signal |-> "committed", track |-> e.current.track,
                      item |-> e.current.item, gen |-> e.gen]
           r == Committed(e)
<1>1. Keeps(e, c, {"candidate"}) /\ c.candidate \in {e.candidate, NoTrack}
  BY DEF EngineTyped, Keeps, Shape, EngineFields
<1>2. r = Emit(d, signal)
  BY DEF Committed
<1>3. SignalOk(signal) /\ ~Halts(signal)
  BY DEF SignalOk, Halts
<1> HIDE DEF c, signal
<1>4. Stays(e, c)
  <2>1. Keeps(e, c, Inner \ {"status", "stream", "anchor", "waiting"})
        /\ c.job = e.job /\ c.prepared = e.prepared /\ c.armed = e.armed
        /\ c.candidate \in ItemType
    BY <1>1, NullItems DEF Keeps, Inner, EngineFields, EngineTyped
  <2> QED BY <2>1, NextStays DEF EngineTyped
<1>5. Stays(c, d) /\ ~d.anchor /\ ~d.waiting
  BY <1>4, ClearAdvanceStays DEF Stays, Runs
<1> HIDE DEF d
<1>6. Stays(d, r) /\ r.anchor = d.anchor /\ r.waiting = d.waiting
  <2>1. EngineTyped(d) /\ Shape(d)
    BY <1>5 DEF Stays, Runs, EngineTyped
  <2>2. Keeps(d, Emit(d, signal), {"out"})
    BY <1>3, <2>1, EmitKeeps
  <2>3. Stays(d, Emit(d, signal))
    BY <1>3, <2>1, EmitStays
  <2> QED BY <1>2, <2>2, <2>3 DEF Keeps, EngineFields
<1> HIDE DEF r
<1>7. Stays(e, r) /\ Marked(r)
  BY <1>4, <1>5, <1>6, StaysTwice DEF Marked
<1> QED
  BY <1>7 DEF r

\* A track is loaded, or cannot be.
LEMMA LoadTurns ==
    ASSUME NEW e, NEW item, NEW manual, NEW opens, EngineTyped(e), e.pool # {},
           item \in ItemType
    PROVE  LET r == Load(e, item, manual, opens)
           IN  Runs(e, r) /\ r.gen \in e.pool /\ Marked(r)
<1> DEFINE disarmed == IF manual THEN Disarm(e) ELSE EnsurePrepared(DisarmStale(e, item.track), item)
           set      == SetContext(disarmed, item)
           context  == [set EXCEPT !.ended = FALSE]
           begun    == [context EXCEPT !.status = "ok", !.stream = "none"]
           signal   == [signal |-> "status", status |-> "loading", track |-> item.track,
                        gen |-> context.gen]
           loading  == Emit(begun, signal)
           adopts   == Same(loading.prepared, item) /\ (loading.prepared.fits \/ manual)
           adopted  == IF Same(loading.prepared, item) THEN ClearPrepared(loading) ELSE loading
           ending   == ClearEnding(adopted)
           played   == [ending EXCEPT !.stream = "body"]
           r        == Load(e, item, manual, opens)
<1>1. r = IF adopts \/ opens THEN Committed(played) ELSE SetStatus(loading, "invalid")
  BY DEF Load
<1>2. Stays(e, disarmed)
  <2>1. CASE manual
    BY <2>1, DisarmStays
  <2>2. CASE ~manual
    <3> DEFINE stale == DisarmStale(e, item.track)
    <3>1. Stays(e, stale)
      BY DisarmStaleStays
    <3>2. disarmed = EnsurePrepared(stale, item)
      BY <2>2
    <3> HIDE DEF stale, disarmed
    <3>3. Stays(stale, disarmed)
      BY <3>1, <3>2, EnsurePreparedStays DEF Stays, Runs
    <3> QED BY <3>1, <3>3, StaysTwice
  <2> QED BY <2>1, <2>2
<1> HIDE DEF disarmed
<1>3. Runs(disarmed, set) /\ set.gen \in e.pool /\ ~set.anchor /\ ~set.waiting
  <2>1. EngineTyped(disarmed) /\ disarmed.pool = e.pool
    BY <1>2 DEF Stays, Runs
  <2>2. Plain(item) \in ItemType
    BY PlainTyped
  <2> QED BY <2>1, <2>2, SetContextTurns
<1> HIDE DEF set
<1>4. Stays(set, begun) /\ ~begun.anchor /\ ~begun.waiting
  <2>1. EngineTyped(set)
    BY <1>3 DEF Runs
  <2>2. Keeps(set, begun, {"ended", "status", "stream"}) /\ begun.status = "ok"
        /\ begun.stream = "none"
    BY <2>1 DEF EngineTyped, Keeps, Shape, EngineFields
  <2> HIDE DEF begun
  <2>3. Keeps(set, begun, Inner) /\ begun.candidate = set.candidate /\ begun.job = set.job
        /\ begun.prepared = set.prepared /\ begun.armed = set.armed
        /\ begun.anchor = set.anchor /\ begun.waiting = set.waiting
        /\ begun.status \in StatusType /\ begun.stream \in StreamType
    BY <2>2 DEF Keeps, Inner, EngineFields, StatusType, StreamType
  <2> QED BY <1>3, <2>1, <2>3, InnerStays DEF EngineTyped, Marked
<1>5. SignalOk(signal) /\ ~Halts(signal)
  BY DEF SignalOk, Halts
<1> HIDE DEF begun, signal
<1>6. Stays(begun, loading)
  BY <1>4, <1>5, EmitStays DEF Stays, Runs
<1>7. ~loading.anchor /\ ~loading.waiting
  <2>1. Keeps(begun, loading, {"out"})
    BY <1>4, <1>5, EmitKeeps DEF Stays, Runs, EngineTyped
  <2> QED BY <1>4, <2>1 DEF Keeps, EngineFields
<1> HIDE DEF loading
<1>8. Runs(e, loading) /\ loading.gen \in e.pool
  BY <1>2, <1>3, <1>4, <1>6, RunsTwice DEF Stays
<1>9. CASE adopts \/ opens
  <2>1. Stays(loading, adopted)
    BY <1>8, ClearPreparedStays, SelfStays DEF Runs
  <2> HIDE DEF adopted
  <2>2. Stays(adopted, ending)
    BY <2>1, ClearEndingStays DEF Stays, Runs
  <2>a. ~adopted.anchor /\ ~adopted.waiting
    <3>1. Keeps(loading, ClearPrepared(loading), {"prepared", "armed"})
      BY <1>8, ClearPreparedKeeps DEF Runs, EngineTyped
    <3> QED BY <1>7, <3>1 DEF adopted, Keeps, EngineFields
  <2>3. ~ending.anchor /\ ~ending.waiting
    <3>1. Keeps(adopted, ending, {"live", "latched", "ended"})
      BY <2>1, ClearEndingKeeps DEF Stays, Runs, EngineTyped
    <3> QED BY <2>a, <3>1 DEF Keeps, EngineFields
  <2> HIDE DEF ending
  <2>4. Stays(ending, played)
    <3>1. EngineTyped(ending)
      BY <2>2 DEF Stays, Runs
    <3>2. Keeps(ending, played, {"stream"}) /\ played.stream = "body"
      BY <3>1 DEF EngineTyped, Keeps, Shape, EngineFields
    <3> HIDE DEF played
    <3>3. Keeps(ending, played, Inner) /\ played.status = ending.status
          /\ played.candidate = ending.candidate /\ played.job = ending.job
          /\ played.prepared = ending.prepared /\ played.armed = ending.armed
          /\ played.anchor = ending.anchor /\ played.waiting = ending.waiting
          /\ played.stream \in StreamType
      BY <3>2 DEF Keeps, Inner, EngineFields, StreamType
    <3> QED BY <2>3, <3>1, <3>3, InnerStays DEF EngineTyped, Marked
  <2> HIDE DEF played
  <2>5. Stays(played, r) /\ Marked(r)
    BY <1>1, <1>9, <2>4, CommittedStays DEF Stays, Runs
  <2> HIDE DEF r
  <2>6. Stays(loading, r)
    BY <2>1, <2>2, <2>4, <2>5, StaysTwice
  <2> QED
    BY <1>8, <2>5, <2>6, RunsTwice DEF Stays, r
<1>10. CASE ~(adopts \/ opens)
  <2>1. r = SetStatus(loading, "invalid")
    BY <1>1, <1>10
  <2>2. Stays(loading, r) /\ Keeps(loading, r, {"out", "status"})
    BY <1>8, <2>1, SetStatusStays, SetStatusKeeps DEF Runs, EngineTyped
  <2> HIDE DEF r
  <2>3. Marked(r)
    BY <1>7, <2>2 DEF Marked, Keeps, EngineFields
  <2> QED
    BY <1>8, <2>2, <2>3, RunsTwice DEF Stays, r
<1> QED
  BY <1>9, <1>10

\* The prepared stream takes over.
LEMMA CommitGaplessTurns ==
    ASSUME NEW e, NEW target, EngineTyped(e), e.pool # {}, target \in ItemType
    PROVE  LET r == CommitGapless(e, target)
           IN  Runs(e, r) /\ r.gen \in e.pool /\ Marked(r)
<1> DEFINE staged  == Stage(e)
           next    == SetContext(staged, target)
           ending  == ClearEnding(next)
           played  == [ending EXCEPT !.stream = "body", !.status = "ok"]
           told    == Committed(played)
           r       == CommitGapless(e, target)
<1>1. r = [told EXCEPT !.armed = NoGapless]
  BY DEF CommitGapless
<1>2. Stays(e, staged)
  BY StageStays
<1> HIDE DEF staged
<1>3. Runs(staged, next) /\ next.gen \in e.pool /\ ~next.anchor /\ ~next.waiting
  <2>1. EngineTyped(staged) /\ staged.pool = e.pool /\ Plain(target) \in ItemType
    BY <1>2, PlainTyped DEF Stays, Runs
  <2> QED BY <2>1, SetContextTurns
<1> HIDE DEF next
<1>4. Stays(next, ending) /\ ~ending.anchor /\ ~ending.waiting
  <2>1. Keeps(next, ending, {"live", "latched", "ended"})
    BY <1>3, ClearEndingKeeps DEF Runs, EngineTyped
  <2> QED BY <1>3, <2>1, ClearEndingStays DEF Runs, Keeps, EngineFields
<1> HIDE DEF ending
<1>5. Stays(ending, played)
  <2>1. EngineTyped(ending)
    BY <1>4 DEF Stays, Runs
  <2>2. Keeps(ending, played, {"stream", "status"}) /\ played.stream = "body"
        /\ played.status = "ok"
    BY <2>1 DEF EngineTyped, Keeps, Shape, EngineFields
  <2> HIDE DEF played
  <2>3. Keeps(ending, played, Inner) /\ played.status \in StatusType
        /\ played.candidate = ending.candidate /\ played.job = ending.job
        /\ played.prepared = ending.prepared /\ played.armed = ending.armed
        /\ played.anchor = ending.anchor /\ played.waiting = ending.waiting
        /\ played.stream \in StreamType
    BY <2>2 DEF Keeps, Inner, EngineFields, StreamType, StatusType
  <2> QED BY <1>4, <2>1, <2>3, InnerStays DEF EngineTyped, Marked
<1> HIDE DEF played
<1>6. Stays(played, told) /\ Marked(told)
  BY <1>5, CommittedStays DEF Stays, Runs
<1> HIDE DEF told
<1>7. Stays(told, r) /\ Marked(r)
  <2>1. EngineTyped(told)
    BY <1>6 DEF Stays, Runs
  <2>2. Keeps(told, r, {"prepared", "armed", "job"}) /\ r.armed = NoGapless
        /\ r.prepared = told.prepared /\ r.job = told.job
    BY <1>1, <2>1 DEF EngineTyped, Keeps, Shape, EngineFields, NoGapless
  <2> HIDE DEF r
  <2> QED BY <1>6, <2>1, <2>2, NullItems, PreparedStays DEF EngineTyped, Stays, Runs
<1> HIDE DEF r
<1>8. Stays(next, r)
  BY <1>4, <1>5, <1>6, <1>7, StaysTwice
<1>9. Runs(e, r) /\ r.gen \in e.pool /\ Marked(r)
  BY <1>2, <1>3, <1>7, <1>8, RunsTwice DEF Stays
<1> QED
  BY <1>9 DEF r

\* A track is prepared too late.
LEMMA PrepareAtOnceStays ==
    ASSUME NEW e, NEW target, NEW how, EngineTyped(e), target \in ItemType
    PROVE  Stays(e, PrepareAtOnce(e, target, how)) /\ PrepareAtOnce(e, target, how).out = e.out
<1> DEFINE idle == [e EXCEPT !.requested = FALSE, !.job = IF e.requested THEN NoTrack ELSE @]
           new  == [track |-> target.track, item |-> target.item, fits |-> how = "fits"]
           held == [idle EXCEPT !.prepared = new]
           r    == PrepareAtOnce(e, target, how)
<1>1. Stays(e, idle) /\ idle.out = e.out
  <2>1. Keeps(e, idle, {"requested", "job"}) /\ idle.job \in {e.job, NoTrack}
    BY DEF EngineTyped, Keeps, Shape, EngineFields
  <2> HIDE DEF idle
  <2>2. Keeps(e, idle, Inner \ {"status", "stream", "anchor", "waiting"})
        /\ idle.candidate = e.candidate /\ idle.job \in ItemType
        /\ idle.prepared = e.prepared /\ idle.armed = e.armed
    BY <2>1, NullItems DEF Keeps, Inner, EngineFields, EngineTyped
  <2> QED BY <2>2, NextStays DEF EngineTyped
<1>2. r = IF how = "failed" THEN ClearPrepared(idle) ELSE Arm(held, target)
  BY DEF PrepareAtOnce
<1> HIDE DEF idle
<1>3. new \in PreparedType
  BY DEF ItemType, PreparedType
<1> HIDE DEF new
<1>4. Stays(idle, held) /\ held.out = e.out
  <2>1. EngineTyped(idle)
    BY <1>1 DEF Stays, Runs
  <2>2. Keeps(idle, held, {"prepared", "armed", "job"}) /\ held.prepared = new
        /\ held.armed = idle.armed /\ held.job = idle.job
    BY <2>1 DEF EngineTyped, Keeps, Shape, EngineFields
  <2> HIDE DEF held
  <2> QED BY <1>1, <1>3, <2>1, <2>2, PreparedStays DEF EngineTyped
<1> HIDE DEF held
<1>5. CASE how = "failed"
  <2>1. Stays(idle, r) /\ r.out = e.out
    BY <1>1, <1>2, <1>5, ClearPreparedStays DEF Stays, Runs
  <2> HIDE DEF r
  <2> QED BY <1>1, <2>1, StaysTwice DEF r
<1>6. CASE how # "failed"
  <2>1. Stays(held, r) /\ r.out = e.out
    BY <1>2, <1>4, <1>6, ArmStays DEF Stays, Runs
  <2> HIDE DEF r
  <2> QED BY <1>1, <1>4, <2>1, StaysTwice DEF r
<1> QED
  BY <1>5, <1>6

\* The engine goes on to another track.
LEMMA AdvanceToTurns ==
    ASSUME NEW e, NEW target, NEW how, EngineTyped(e), e.pool # {}, target \in ItemType
    PROVE  LET r == AdvanceTo(e, target, how)
           IN  Runs(e, r) /\ r.gen \in e.pool /\ Marked(r)
<1>1. CASE ReadyFor(e, target)
  BY <1>1, CommitGaplessTurns DEF AdvanceTo
<1>2. CASE ~ReadyFor(e, target)
  BY <1>2, LoadTurns DEF AdvanceTo
<1> QED
  BY <1>1, <1>2

\* What comes next is an item.
LEMMA AdvanceTargetTyped ==
    ASSUME NEW e, EngineTyped(e)
    PROVE  AdvanceTarget(e) \in ItemType
<1>1. e.candidate \in ItemType /\ Plain(e.armed) \in ItemType /\ Plain(e.prepared) \in ItemType
      /\ NoTrack \in ItemType
  BY PlainTyped, NullItems DEF EngineTyped
<1>2. AdvanceTarget(e) \in {e.candidate, Plain(e.armed), Plain(e.prepared), NoTrack}
  BY DEF AdvanceTarget
<1> QED
  BY <1>1, <1>2

\* The engine goes on, but only once the boundary has been signalled.
LEMMA TryAutoAdvanceTurns ==
    ASSUME NEW e, NEW how, EngineTyped(e), e.pool # {}
    PROVE  LET r == TryAutoAdvance(e, how)
           IN  Turns(e, r) /\ (~e.anchor => Stays(e, r))
<1> DEFINE target   == AdvanceTarget(e)
           attached == Arm(e, target)
           r        == TryAutoAdvance(e, how)
<1>0. target \in ItemType
  BY AdvanceTargetTyped
<1>1. r = IF target.track = 0 \/ ~Effective(e) THEN e ELSE AdvanceArmed(attached, target, how)
  BY DEF TryAutoAdvance, AutoAdvance
<1> HIDE DEF target
<1>2. CASE target.track = 0 \/ ~Effective(e)
  BY <1>1, <1>2, SelfStays DEF Turns, Stays
<1>3. CASE target.track # 0 /\ Effective(e)
  <2>1. Stays(e, attached)
    BY <1>0, ArmStays
  <2>2. attached.anchor = e.anchor
    BY ArmKeeps DEF EngineTyped, Keeps, EngineFields
  <2> HIDE DEF attached
  <2> DEFINE ready == IF ReadyFor(attached, target) THEN attached
                      ELSE PrepareAtOnce(attached, target, how)
  <2>3. r = IF ~attached.anchor THEN attached ELSE AdvanceTo(ready, target, how)
    BY <1>1, <1>3 DEF AdvanceArmed
  <2>4. Stays(attached, ready)
    BY <1>0, <2>1, PrepareAtOnceStays, SelfStays DEF Stays, Runs
  <2> HIDE DEF ready, r
  <2>5. CASE ~attached.anchor
    BY <2>1, <2>2, <2>3, <2>5 DEF r, Turns, Stays
  <2>6. CASE attached.anchor
    <3>1. EngineTyped(ready) /\ ready.pool = e.pool
      BY <2>1, <2>4 DEF Stays, Runs
    <3>2. Runs(ready, r) /\ r.gen \in e.pool
      BY <1>0, <2>3, <2>6, <3>1, AdvanceToTurns
    <3> QED
      BY <2>1, <2>2, <2>4, <2>6, <3>2, RunsTwice DEF r, Turns, Stays
  <2> QED BY <2>5, <2>6
<1> QED
  BY <1>2, <1>3

\* The boundary of the track of e is signalled.
Bounds(e, out) == \E k \in 1 .. Len(out) : out[k].signal = "boundary" /\ out[k].gen = e.gen

\* The track is left when its stream has drained or its boundary is signalled.
Leaves(e, r) == r.current = e.current \/ e.stream = "drained" \/ Bounds(e, r.out)

\* The next track is prepared for the end of this one.
LEMMA PrepareForDrainStays ==
    ASSUME NEW e, EngineTyped(e)
    PROVE  Stays(e, PrepareForDrain(e)) /\ PrepareForDrain(e).anchor = e.anchor
<1> DEFINE kept    == [e EXCEPT !.mode = TRUE]
           cleared == ClearPrepared(kept)
           new     == [cleared EXCEPT !.requested = TRUE, !.job = e.candidate]
           r       == PrepareForDrain(e)
<1>1. r \in {e, kept, new}
  BY DEF PrepareForDrain
<1>2. Stays(e, kept) /\ kept.anchor = e.anchor
  <2>1. Keeps(e, kept, {"mode"})
    BY DEF EngineTyped, Keeps, Shape, EngineFields
  <2> HIDE DEF kept
  <2>2. Keeps(e, kept, Inner \ {"status", "stream", "anchor", "waiting"})
        /\ kept.candidate = e.candidate /\ kept.job = e.job /\ kept.anchor = e.anchor
        /\ kept.prepared = e.prepared /\ kept.armed = e.armed
    BY <2>1 DEF Keeps, Inner, EngineFields
  <2> QED BY <2>2, NextStays DEF EngineTyped
<1> HIDE DEF kept
<1>3. Stays(kept, cleared) /\ cleared.anchor = kept.anchor
  BY <1>2, ClearPreparedStays, ClearPreparedKeeps DEF Stays, Runs, EngineTyped, Keeps, EngineFields
<1> HIDE DEF cleared
<1>4. Stays(cleared, new) /\ new.anchor = cleared.anchor
  <2>1. EngineTyped(cleared)
    BY <1>3 DEF Stays, Runs
  <2>2. Keeps(cleared, new, {"requested", "job"}) /\ new.job = e.candidate
    BY <2>1 DEF EngineTyped, Keeps, Shape, EngineFields
  <2> HIDE DEF new
  <2>3. Keeps(cleared, new, Inner \ {"status", "stream", "anchor", "waiting"})
        /\ new.candidate = cleared.candidate /\ new.job \in ItemType /\ new.anchor = cleared.anchor
        /\ new.prepared = cleared.prepared /\ new.armed = cleared.armed
    BY <2>2 DEF Keeps, Inner, EngineFields, EngineTyped
  <2> QED BY <2>1, <2>3, NextStays DEF EngineTyped
<1> HIDE DEF new
<1> QED
  BY <1>1, <1>2, <1>3, <1>4, SelfStays, StaysTwice

\* The end of the input or of the stream is noticed.
LEMMA ReachStays ==
    ASSUME NEW e, NEW stream, EngineTyped(e), stream \in StreamType,
           e.stream = "drained" => stream = "drained"
    PROVE  LET r == Reach(e, stream)
           IN  Stays(e, r) /\ r.anchor = e.anchor /\ r.stream = stream
<1> DEFINE live == IF stream = "drained" THEN FALSE
                   ELSE e.live \/ (e.stream = "body" /\ stream = "ended" /\ Configured(e))
           mode == e.mode \/ e.live \/ live
           r    == Reach(e, stream)
<1>1. r = [e EXCEPT !.stream = stream, !.live = live, !.latched = @ \/ stream = "drained",
                    !.mode = mode]
  BY DEF Reach
<1> HIDE DEF live, mode
<1>2. Keeps(e, r, {"stream", "live", "latched", "mode"}) /\ r.stream = stream
  BY <1>1 DEF EngineTyped, Keeps, Shape, EngineFields
<1> HIDE DEF r
<1>3. Keeps(e, r, Inner) /\ r.status = e.status /\ r.candidate = e.candidate /\ r.job = e.job
      /\ r.prepared = e.prepared /\ r.armed = e.armed
      /\ r.anchor = e.anchor /\ r.waiting = e.waiting
  BY <1>2 DEF Keeps, Inner, EngineFields
<1>4. Stays(e, r)
  BY <1>2, <1>3, InnerStays DEF EngineTyped, Marked
<1> QED
  BY <1>2, <1>3, <1>4 DEF r

LEMMA StageDrainedStays ==
    ASSUME NEW e, EngineTyped(e)
    PROVE  Stays(e, StageDrained(e)) /\ StageDrained(e).anchor = e.anchor
<1>1. Stays(e, e) /\ Stays(e, Stage(e)) /\ Stage(e).anchor = e.anchor
  BY SelfStays, StageStays, StageKeeps DEF EngineTyped, Keeps, EngineFields
<1> QED
  BY <1>1 DEF StageDrained

\* The boundary of a stream that has drained.
LEMMA SignalBoundaryTurns ==
    ASSUME NEW e, NEW rendered, NEW rest, NEW how, EngineTyped(e), e.pool # {},
           e.stream = "drained"
    PROVE  LET r == SignalBoundary(e, rendered, rest, how)
           IN  Runs(e, r) /\ Bounds(e, r.out)
<1> DEFINE owned     == IsArmed(e) /\ ~rendered
           signal    == [signal |-> "boundary", track |-> e.current.track, gen |-> e.gen,
                         rest |-> rest /\ ~owned /\ ~rendered, owned |-> owned]
           passed    == [e EXCEPT !.waiting = FALSE, !.anchor = TRUE]
           signalled == Emit(passed, signal)
           r         == SignalBoundary(e, rendered, rest, how)
<1>1. r = IF owned THEN signalled ELSE TryAutoAdvance(signalled, how)
  BY DEF SignalBoundary
<1>2. SignalOk(signal) /\ ~Halts(signal) /\ signal.signal = "boundary" /\ signal.gen = e.gen
  BY DEF SignalOk, Halts
<1>3. Stays(e, passed)
  <2>1. Keeps(e, passed, {"waiting", "anchor"})
    BY DEF EngineTyped, Keeps, Shape, EngineFields
  <2> HIDE DEF passed
  <2>2. Keeps(e, passed, Inner) /\ passed.status = e.status /\ passed.candidate = e.candidate
        /\ passed.job = e.job /\ passed.prepared = e.prepared /\ passed.armed = e.armed
        /\ passed.stream = e.stream
    BY <2>1 DEF Keeps, Inner, EngineFields
  <2> QED BY <2>2, InnerStays DEF EngineTyped, Marked
<1> HIDE DEF owned, signal, passed
<1>4. Stays(passed, signalled) /\ \E k \in 1 .. Len(signalled.out) : signalled.out[k] = signal
  BY <1>2, <1>3, EmitStays DEF Stays, Runs
<1> HIDE DEF signalled
<1>5. Bounds(e, signalled.out)
  BY <1>2, <1>4 DEF Bounds
<1>6. EngineTyped(signalled) /\ signalled.pool # {} /\ Stays(e, signalled)
  BY <1>3, <1>4, StaysTwice DEF Stays, Runs
<1>7. Runs(signalled, r)
  BY <1>1, <1>6, SelfStays, TryAutoAdvanceTurns DEF Turns, Stays
<1> HIDE DEF r
<1>8. Bounds(e, r.out)
  <2>1. Longer(signalled.out, r.out)
    BY <1>7 DEF Runs
  <2>2. PICK k \in 1 .. Len(signalled.out) :
                signalled.out[k].signal = "boundary" /\ signalled.out[k].gen = e.gen
    BY <1>5 DEF Bounds
  <2>3. k \in 1 .. Len(r.out) /\ r.out[k] = signalled.out[k]
    BY <2>1 DEF Longer
  <2> QED BY <2>2, <2>3 DEF Bounds
<1> QED
  BY <1>6, <1>7, <1>8, RunsTwice DEF Stays, r

\* The stream comes to its boundary.
LEMMA PassBoundaryTurns ==
    ASSUME NEW e, NEW e0, NEW heard, NEW rendered, NEW rest, NEW how, EngineTyped(e), Marked(e),
           e.gen = e0.gen => e.pool # {}
    PROVE  LET r == PassBoundary(e, e0, heard, rendered, rest, how)
           IN  Runs(e, r) /\ (r.current = e.current \/ Bounds(e, r.out))
<1> DEFINE r     == PassBoundary(e, e0, heard, rendered, rest, how)
           first == e.stream = "drained" /\ ~e0.latched
<1>1. CASE r = e
  BY <1>1, SelfStays DEF Stays
<1>2. CASE r = [e EXCEPT !.waiting = TRUE] /\ first
  <2>1. Keeps(e, r, {"waiting"})
    BY <1>2 DEF EngineTyped, Keeps, Shape, EngineFields
  <2> HIDE DEF r
  <2>2. Keeps(e, r, Inner) /\ r.status = e.status /\ r.candidate = e.candidate
        /\ r.job = e.job /\ r.prepared = e.prepared /\ r.armed = e.armed
        /\ r.stream = e.stream
    BY <2>1 DEF Keeps, Inner, EngineFields
  <2>3. Stays(e, r)
    BY <1>2, <2>2, InnerStays DEF EngineTyped, Marked
  <2> QED BY <2>3 DEF Stays, r
<1>3. CASE /\ e.gen = e0.gen
           /\ first \/ e.waiting
           /\ r = SignalBoundary(e, rendered, rest, how)
  <2>1. e.stream = "drained"
    BY <1>3 DEF Marked
  <2> HIDE DEF r
  <2> QED BY <1>3, <2>1, SignalBoundaryTurns DEF r
<1> QED
  BY <1>1, <1>2, <1>3 DEF PassBoundary

\* The end of the track.
LEMMA EndStays ==
    ASSUME NEW e, NEW e0, EngineTyped(e)
    PROVE  Stays(e, EndUnlessFollowed(e, e0))
<1> DEFINE c == [e EXCEPT !.ended = TRUE]
<1>1. EndUnlessFollowed(e, e0) \in {e, SetStatus(c, "end")}
  BY DEF EndUnlessFollowed, SignalEnd
<1>2. Stays(e, c)
  <2>1. Keeps(e, c, {"ended"})
    BY DEF EngineTyped, Keeps, Shape, EngineFields
  <2> HIDE DEF c
  <2>2. Keeps(e, c, Inner \ {"status", "stream", "anchor", "waiting"})
        /\ c.candidate = e.candidate /\ c.job = e.job /\ c.prepared = e.prepared
        /\ c.armed = e.armed
    BY <2>1 DEF Keeps, Inner, EngineFields
  <2> QED BY <2>2, NextStays DEF EngineTyped
<1> HIDE DEF c
<1>3. Stays(c, SetStatus(c, "end"))
  BY <1>2, SetStatusStays DEF Stays, Runs
<1> QED
  BY <1>1, <1>2, <1>3, SelfStays, StaysTwice

\* One update of the position.
LEMMA CheckEndingTurns ==
    ASSUME NEW e, NEW stream, NEW heard, NEW rendered, NEW rest, NEW how,
           EngineTyped(e), Marked(e), e.pool # {}, e.gen \notin e.pool,
           stream \in StreamType, e.stream = "drained" => stream = "drained"
    PROVE  LET r == CheckEnding(e, stream, heard, rendered, rest, how)
           IN  Runs(e, r) /\ Leaves(e, r)
<1> DEFINE a == Reach(e, stream)
           b == PrepareForDrain(a)
           c == StageDrained(b)
           d == Release(c, rendered, how)
           p == PassBoundary(d, e, heard, rendered, rest, how)
           r == EndUnlessFollowed(p, e)
           ending == CheckEnding(e, stream, heard, rendered, rest, how)
<1>1. Stays(e, a) /\ a.anchor = e.anchor
  BY ReachStays
<1> HIDE DEF a
<1>2. Stays(a, b) /\ b.anchor = a.anchor
  BY <1>1, PrepareForDrainStays DEF Stays, Runs
<1> HIDE DEF b
<1>3. Stays(b, c) /\ c.anchor = b.anchor
  BY <1>2, StageDrainedStays DEF Stays, Runs
<1> HIDE DEF c
<1>4. Stays(e, c) /\ c.anchor = e.anchor
  BY <1>1, <1>2, <1>3, StaysTwice
<1>5. Turns(c, d) /\ (~e.anchor => Stays(c, d))
  <2>1. d = c \/ (c.anchor /\ d = TryAutoAdvance(c, how))
    BY DEF Release
  <2>2. EngineTyped(c) /\ c.pool # {}
    BY <1>4 DEF Stays, Runs
  <2> HIDE DEF d
  <2> QED
    BY <1>4, <2>1, <2>2, SelfStays, TryAutoAdvanceTurns DEF Turns, Stays
<1> HIDE DEF d
<1>6. /\ EngineTyped(d) /\ Marked(d) /\ Runs(e, d)
      /\ d.gen = e.gen => d.pool # {}
      /\ ~e.anchor => Stays(e, d)
  <2>1. Marked(c) /\ c.pool = e.pool /\ c.gen = e.gen
    BY <1>4 DEF Stays, Runs
  <2>2. Runs(c, d) /\ (Stays(c, d) \/ d.gen \in c.pool)
    BY <1>5 DEF Turns
  <2>3. Runs(e, d)
    BY <1>4, <2>2, RunsTwice DEF Stays
  <2>4. d.gen = e.gen => d.pool # {}
    BY <2>1, <2>2 DEF Stays
  <2> QED BY <1>4, <1>5, <2>1, <2>2, <2>3, <2>4, StaysTwice DEF Runs
<1>7. Runs(d, p) /\ (p.current = d.current \/ Bounds(d, p.out))
  BY <1>6, PassBoundaryTurns
<1> HIDE DEF p
<1>8. Stays(p, r)
  BY <1>7, EndStays DEF Runs
<1> HIDE DEF r
<1>9. Runs(e, r)
  BY <1>6, <1>7, <1>8, RunsTwice DEF Stays
<1>10. Leaves(e, r)
  <2>1. CASE e.anchor
    BY <2>1 DEF Marked, Leaves
  <2>2. CASE ~e.anchor
    <3>1. d.gen = e.gen /\ d.current = e.current /\ r.current = p.current
      BY <1>6, <1>8, <2>2 DEF Stays
    <3>2. CASE p.current = d.current
      BY <3>1, <3>2 DEF Leaves
    <3>3. CASE Bounds(d, p.out)
      <4>1. Longer(p.out, r.out)
        BY <1>8 DEF Stays, Runs
      <4>2. PICK k \in 1 .. Len(p.out) : p.out[k].signal = "boundary" /\ p.out[k].gen = d.gen
        BY <3>3 DEF Bounds
      <4>3. k \in 1 .. Len(r.out) /\ r.out[k] = p.out[k]
        BY <4>1 DEF Longer
      <4> QED BY <3>1, <4>2, <4>3 DEF Leaves, Bounds
    <3> QED BY <1>7, <3>2, <3>3
  <2> QED BY <2>1, <2>2
<1>11. ending \in {e, r}
  BY DEF CheckEnding, a, b, c, d, p, r
<1> HIDE DEF ending
<1>12. Runs(e, e) /\ Leaves(e, e)
  BY SelfStays DEF Stays, Leaves
<1> QED
  BY <1>9, <1>10, <1>11, <1>12 DEF ending

\* The result of a preparation.
LEMMA JobDoneTurns ==
    ASSUME NEW e, NEW how, NEW now, EngineTyped(e), Marked(e), e.pool # {}
    PROVE  LET r == JobDone(e, how, now)
           IN  Runs(e, r) /\ Leaves(e, r)
<1> DEFINE idle    == CancelJobs(e)
           new     == [track |-> e.job.track, item |-> e.job.item, fits |-> how = "fits"]
           set     == [idle EXCEPT !.prepared = new]
           applied == IF how = "failed" THEN ClearPrepared(idle) ELSE set
           told    == IF Eligible(applied) THEN applied ELSE Unready(applied, e.job)
           asked   == [told EXCEPT !.requested = FALSE]
           r       == JobDone(e, how, now)
<1>1. r = IF Same(e.job, e.candidate) THEN TryAutoAdvance(asked, now) ELSE told
  BY DEF JobDone
<1>2. Stays(e, idle) /\ idle.anchor = e.anchor
  BY CancelJobsStays, CancelJobsKeeps DEF EngineTyped, Keeps, EngineFields
<1>3. new \in PreparedType
  BY DEF EngineTyped, ItemType, PreparedType
<1> HIDE DEF idle, new
<1>4. Stays(idle, set) /\ set.anchor = idle.anchor
  <2>1. EngineTyped(idle)
    BY <1>2 DEF Stays, Runs
  <2>2. Keeps(idle, set, {"prepared", "armed", "job"}) /\ set.prepared = new
        /\ set.armed = idle.armed /\ set.job = idle.job /\ set.anchor = idle.anchor
    BY <2>1 DEF EngineTyped, Keeps, Shape, EngineFields
  <2> HIDE DEF set
  <2> QED BY <1>3, <2>1, <2>2, PreparedStays DEF EngineTyped
<1> HIDE DEF set
<1>5. Stays(idle, applied) /\ applied.anchor = idle.anchor
  BY <1>2, <1>4, ClearPreparedStays, ClearPreparedKeeps
     DEF Stays, Runs, EngineTyped, Keeps, EngineFields
<1> HIDE DEF applied
<1>t. Stays(applied, told) /\ told.anchor = applied.anchor
  <2>1. EngineTyped(applied)
    BY <1>5 DEF Stays, Runs
  <2> QED BY <2>1, SelfStays, UnreadyStays
<1> HIDE DEF told
<1>6. Stays(told, asked) /\ asked.anchor = told.anchor
  <2>1. EngineTyped(told)
    BY <1>t DEF Stays, Runs
  <2>2. Keeps(told, asked, {"requested"})
    BY <2>1 DEF EngineTyped, Keeps, Shape, EngineFields
  <2> HIDE DEF asked
  <2>3. Keeps(told, asked, Inner \ {"status", "stream", "anchor", "waiting"})
        /\ asked.candidate = told.candidate /\ asked.job = told.job
        /\ asked.prepared = told.prepared /\ asked.armed = told.armed
        /\ asked.anchor = told.anchor
    BY <2>2 DEF Keeps, Inner, EngineFields
  <2> QED BY <2>1, <2>3, NextStays DEF EngineTyped
<1> HIDE DEF asked
<1>7. Stays(e, told) /\ Stays(e, asked) /\ asked.anchor = e.anchor
  <2>1. Stays(e, applied)
    BY <1>2, <1>5, StaysTwice
  <2>2. Stays(e, told)
    BY <2>1, <1>t, StaysTwice
  <2> QED BY <1>2, <1>5, <1>6, <1>t, <2>2, StaysTwice
<1>8. CASE ~Same(e.job, e.candidate)
  <2>1. Stays(e, r)
    BY <1>1, <1>7, <1>8
  <2> QED BY <2>1 DEF Stays, Leaves
<1>9. CASE Same(e.job, e.candidate)
  <2>1. EngineTyped(asked) /\ asked.pool # {}
    BY <1>7 DEF Stays, Runs
  <2>2. Turns(asked, r) /\ (~e.anchor => Stays(asked, r))
    BY <1>1, <1>7, <1>9, <2>1, TryAutoAdvanceTurns
  <2> HIDE DEF r
  <2>3. Runs(e, r)
    BY <1>7, <2>2, RunsTwice DEF Stays, Turns
  <2>4. ~e.anchor => r.current = e.current
    BY <1>7, <2>2 DEF Stays
  <2> QED BY <2>3, <2>4 DEF Marked, Leaves, r
<1> QED
  BY <1>8, <1>9

-----------------------------------------------------------------------------
(* The calls that start and end the playback.                               *)

PlaysSignal(s) == s.signal = "state" /\ s.play = "playing"

\* A signal that the engine plays is among them.
Playing(out) == \E k \in 1 .. Len(out) : PlaysSignal(out[k])

\* While the engine plays, every signal that it does not is followed by one that
\* it does.
Announces(e) ==
    e.playback = "playing" =>
        \A k \in 1 .. Len(e.out) :
            Halts(e.out[k]) => \E j \in k + 1 .. Len(e.out) : PlaysSignal(e.out[j])

\* A call may start and end the playback, and says so.
Obeys(e, r) ==
    /\ EngineTyped(r)
    /\ Longer(e.out, r.out)
    /\ Marked(e) => Marked(r)
    /\ Announces(e) => Announces(r)
    /\ r.playback = "playing" => e.playback = "playing" \/ Playing(r.out)

\* What is among the signals stays among them.
LEMMA PlayingLonger ==
    ASSUME NEW s, NEW t, Longer(s, t), Playing(s)
    PROVE  Playing(t)
<1>1. PICK k \in 1 .. Len(s) : PlaysSignal(s[k])
  BY DEF Playing
<1>2. k \in 1 .. Len(t) /\ t[k] = s[k]
  BY DEF Longer
<1> QED
  BY <1>1, <1>2 DEF Playing

LEMMA ObeysTwice ==
    ASSUME NEW e, NEW f, NEW r, Obeys(e, f), Obeys(f, r)
    PROVE  Obeys(e, r)
<1>1. Longer(e.out, r.out)
  BY LongerTwice DEF Obeys
<1>2. Playing(f.out) => Playing(r.out)
  BY PlayingLonger DEF Obeys
<1> QED
  BY <1>1, <1>2 DEF Obeys

\* A step that neither starts nor ends the playback.
LEMMA RunsObeys ==
    ASSUME NEW e, NEW r, Runs(e, r)
    PROVE  Obeys(e, r)
<1>1. ASSUME Announces(e), r.playback = "playing",
             NEW k \in 1 .. Len(r.out), Halts(r.out[k])
      PROVE  \E j \in k + 1 .. Len(r.out) : PlaysSignal(r.out[j])
  <2>0. Longer(e.out, r.out)
    BY DEF Runs
  <2>1. k \in 1 .. Len(e.out)
    BY <1>1, <2>0 DEF Runs, Longer
  <2>2. Halts(e.out[k])
    BY <1>1, <2>0, <2>1 DEF Longer
  <2>3. PICK j \in k + 1 .. Len(e.out) : PlaysSignal(e.out[j])
    BY <1>1, <2>1, <2>2 DEF Announces, Runs
  <2>4. j \in 1 .. Len(e.out) /\ j \in k + 1 .. Len(r.out)
    BY <2>0, <2>1 DEF Longer
  <2> QED BY <2>0, <2>3, <2>4 DEF Longer
<1>2. Announces(e) => Announces(r)
  BY <1>1 DEF Announces
<1> QED
  BY <1>2 DEF Runs, Obeys

LEMMA StaysObeys ==
    ASSUME NEW e, NEW r, Stays(e, r)
    PROVE  Obeys(e, r)
BY RunsObeys DEF Stays

\* A signal of any kind.
LEMMA EmitTyped ==
    ASSUME NEW e, NEW s, EngineTyped(e), SignalOk(s)
    PROVE  LET r == Emit(e, s)
           IN  /\ EngineTyped(r) /\ Keeps(e, r, {"out"}) /\ Longer(e.out, r.out)
               /\ Len(r.out) \in Nat \ {0} /\ r.out[Len(r.out)] = s
<1> DEFINE r == Emit(e, s)
           n == Len(e.out)
<1>1. Keeps(e, r, {"out"}) /\ r.out = Append(e.out, s)
  <2>1. Shape(e)
    BY DEF EngineTyped
  <2>2. r.out = Append(e.out, s)
    BY <2>1 DEF Emit, Shape, EngineFields
  <2> QED BY <2>1, <2>2, EmitKeeps
<1>2. /\ Len(r.out) = n + 1 /\ n \in Nat /\ r.out[n + 1] = s
      /\ \A k \in 1 .. n : r.out[k] = e.out[k]
  BY <1>1, AppendSeq DEF EngineTyped, Shape, SignalsOk
<1> HIDE DEF r
<1>3. EngineTyped(r)
  BY <1>1 DEF EngineTyped, Keeps, EngineFields
<1>4. Longer(e.out, r.out) /\ Len(r.out) \in Nat \ {0} /\ r.out[Len(r.out)] = s
  BY <1>2 DEF Longer
<1>5. /\ EngineTyped(r) /\ Keeps(e, r, {"out"}) /\ Longer(e.out, r.out)
      /\ Len(r.out) \in Nat \ {0} /\ r.out[Len(r.out)] = s
  BY <1>1, <1>3, <1>4
<1> QED
  BY <1>5 DEF r

\* The playback state changes, and is signalled.
LEMMA SetPlaybackObeys ==
    ASSUME NEW e, NEW p, EngineTyped(e), p \in PlayType
    PROVE  LET r == SetPlayback(e, p)
           IN  /\ Obeys(e, r) /\ r.playback = p
               /\ Keeps(e, r, {"out", "playback"})
<1> DEFINE c == [e EXCEPT !.playback = p]
           s == [signal |-> "state", play |-> p]
           r == SetPlayback(e, p)
<1>0. Keeps(e, r, {"out", "playback"})
  BY SetPlaybackKeeps DEF EngineTyped, PlayType
<1>1. CASE e.playback = p
  <2>1. r = e
    BY <1>1 DEF SetPlayback
  <2> QED BY <1>0, <1>1, <2>1, SelfStays, StaysObeys
<1>2. CASE e.playback # p
  <2>1. r = Emit(c, s)
    BY <1>2 DEF SetPlayback
  <2>2. SignalOk(s) /\ (p = "playing" => PlaysSignal(s) /\ ~Halts(s))
    BY DEF SignalOk, PlayType, PlaysSignal, Halts
  <2>3. Keeps(e, c, {"playback"}) /\ c.playback = p
    BY DEF EngineTyped, Keeps, Shape, EngineFields
  <2> HIDE DEF c, s
  <2>4. EngineTyped(c) /\ c.out = e.out
    BY <2>3 DEF Keeps, EngineFields, EngineTyped
  <2>5. /\ EngineTyped(r) /\ Keeps(c, r, {"out"}) /\ Longer(c.out, r.out)
        /\ Len(r.out) \in Nat \ {0} /\ r.out[Len(r.out)] = s
    BY <2>1, <2>2, <2>4, EmitTyped
  <2> HIDE DEF r
  <2>6. r.playback = p /\ (Marked(e) => Marked(r))
    BY <2>3, <2>5 DEF Keeps, EngineFields, Marked
  <2>7. ASSUME p = "playing", NEW k \in 1 .. Len(r.out), Halts(r.out[k])
        PROVE  \E j \in k + 1 .. Len(r.out) : PlaysSignal(r.out[j])
    <3>1. k # Len(r.out)
      BY <2>2, <2>5, <2>7
    <3>2. Len(r.out) \in k + 1 .. Len(r.out)
      BY <2>5, <3>1
    <3> QED BY <2>2, <2>5, <2>7, <3>2
  <2>8. Announces(r)
    BY <2>6, <2>7 DEF Announces
  <2>9. p = "playing" => Playing(r.out)
    BY <2>2, <2>5 DEF Playing
  <2> QED
    BY <1>0, <2>4, <2>5, <2>6, <2>8, <2>9 DEF Obeys, r
<1> QED
  BY <1>1, <1>2

\* A change of the status, of the candidate or of the switch.
LEMMA StatusStays ==
    ASSUME NEW e, NEW r, EngineTyped(e),
           Keeps(e, r, {"status", "auto", "candidate", "requested", "ended"}),
           r.status \in StatusType, r.candidate \in ItemType
    PROVE  Stays(e, r)
<1>1. Keeps(e, r, Inner) /\ r.stream = e.stream /\ r.job = e.job /\ r.prepared = e.prepared /\ r.armed = e.armed
      /\ r.anchor = e.anchor /\ r.waiting = e.waiting
  BY DEF Keeps, Inner, EngineFields
<1> QED
  BY <1>1, InnerStays DEF EngineTyped, Marked

\* Playback stops at once.
LEMMA StopImmediateObeys ==
    ASSUME NEW e, EngineTyped(e)
    PROVE  LET r == StopImmediate(e)
           IN  Obeys(e, r) /\ r.playback = "stopped" /\ r.current = e.current
<1> DEFINE a == [e EXCEPT !.candidate = NoTrack, !.stream = "none"]
           b == ClearAdvance(a)
           c == ClearEnding(b)
           d == ClearPrepared(c)
           f == CancelJobs(d)
           g == SetPlayback(f, "stopped")
           h == [g EXCEPT !.status = "none"]
           t == [signal |-> "status", status |-> "none", track |-> h.current.track, gen |-> h.gen]
           r == StopImmediate(e)
<1>1. /\ Keeps(e, a, {"candidate", "stream"}) /\ a.candidate = NoTrack /\ a.stream = "none"
  BY DEF EngineTyped, Keeps, Shape, EngineFields
<1>2. r = IF g.status = "none" THEN g ELSE Emit(h, t)
  BY DEF StopImmediate, SetStatus
<1> HIDE DEF a
<1>3. /\ Shape(a) /\ a.playback = e.playback /\ a.status = e.status /\ a.current = e.current
      /\ a.job = e.job /\ a.prepared = e.prepared /\ a.armed = e.armed
      /\ a.timers = e.timers /\ a.out = e.out /\ a.gen = e.gen /\ a.pool = e.pool
  BY <1>1 DEF Keeps, EngineFields
<1>4. EngineTyped(a)
  BY <1>1, <1>3, NullItems DEF EngineTyped, StreamType
<1>5. Stays(a, b) /\ Marked(b)
  BY <1>4, ClearAdvanceStays
<1> HIDE DEF b
<1>6. Stays(b, c)
  BY <1>5, ClearEndingStays DEF Stays, Runs
<1> HIDE DEF c
<1>7. Stays(c, d)
  BY <1>6, ClearPreparedStays DEF Stays, Runs
<1> HIDE DEF d
<1>8. Stays(d, f)
  BY <1>7, CancelJobsStays DEF Stays, Runs
<1> HIDE DEF f
<1>9. Stays(a, f) /\ Marked(f) /\ f.current = e.current /\ Longer(e.out, f.out)
  <2>1. Stays(a, f) /\ Stays(b, f)
    BY <1>5, <1>6, <1>7, <1>8, StaysTwice
  <2> QED BY <1>3, <1>5, <2>1 DEF Stays, Runs
<1>10. Obeys(f, g) /\ g.playback = "stopped" /\ g.current = f.current
  <2>1. EngineTyped(f)
    BY <1>9 DEF Stays, Runs
  <2>2. Obeys(f, g) /\ g.playback = "stopped" /\ Keeps(f, g, {"out", "playback"})
    BY <2>1, SetPlaybackObeys DEF PlayType
  <2> QED BY <2>2 DEF Keeps, EngineFields
<1> HIDE DEF g
<1>11. EngineTyped(g) /\ Marked(g) /\ Longer(e.out, g.out) /\ g.current = e.current
  BY <1>9, <1>10, LongerTwice DEF Obeys
<1>12. EngineTyped(h) /\ Marked(h) /\ h.out = g.out /\ h.current = g.current
       /\ h.playback = "stopped"
  <2>1. Keeps(g, h, {"status"}) /\ h.status = "none"
    BY <1>11 DEF EngineTyped, Keeps, Shape, EngineFields
  <2> HIDE DEF h
  <2>2. Keeps(g, h, {"status", "auto", "candidate", "requested", "ended"})
        /\ h.stream = g.stream /\ h.candidate = g.candidate /\ h.out = g.out
    BY <2>1 DEF Keeps, EngineFields
  <2>3. Stays(g, h)
    BY <1>11, <2>1, <2>2, StatusStays DEF EngineTyped, StatusType
  <2> QED BY <1>10, <1>11, <2>2, <2>3 DEF Stays, Runs
<1> HIDE DEF h
<1>13. SignalOk(t)
  BY DEF SignalOk
<1> HIDE DEF t
<1>14. /\ EngineTyped(Emit(h, t)) /\ Marked(Emit(h, t)) /\ Longer(h.out, Emit(h, t).out)
       /\ Emit(h, t).current = h.current /\ Emit(h, t).playback = "stopped"
  <2>1. EngineTyped(Emit(h, t)) /\ Keeps(h, Emit(h, t), {"out"}) /\ Longer(h.out, Emit(h, t).out)
    BY <1>12, <1>13, EmitTyped
  <2> QED BY <1>12, <2>1 DEF Keeps, EngineFields, Marked
<1>15. /\ EngineTyped(r) /\ Marked(r) /\ Longer(e.out, r.out) /\ r.playback = "stopped"
       /\ r.current = e.current
  <2>1. r = g \/ r = Emit(h, t)
    BY <1>2
  <2>2. Longer(e.out, Emit(h, t).out)
    BY <1>11, <1>12, <1>14, LongerTwice
  <2>3. Emit(h, t).current = e.current
    BY <1>11, <1>12, <1>14
  <2> HIDE DEF r
  <2> QED BY <1>10, <1>11, <1>14, <2>1, <2>2, <2>3
<1> HIDE DEF r
<1>16. Obeys(e, r) /\ r.playback = "stopped" /\ r.current = e.current
  BY <1>15 DEF Obeys, Announces
<1> QED
  BY <1>16 DEF r

\* The engine stops, or will when its output has drained.
LEMMA StopEngineObeys ==
    ASSUME NEW e, NEW rest, EngineTyped(e)
    PROVE  LET r == StopEngine(e, rest)
           IN  Obeys(e, r) /\ (r.playback = "playing" => r.gen \in r.timers)
<1> DEFINE r == StopEngine(e, rest)
<1>1. CASE r = e /\ e.playback = "stopped"
  BY <1>1, SelfStays, StaysObeys
<1>2. CASE r = StopImmediate(e)
  BY <1>2, StopImmediateObeys
<1>3. CASE r = [e EXCEPT !.timers = @ \cup {e.gen}]
  <2>1. Keeps(e, r, {"timers"}) /\ r.timers = e.timers \cup {e.gen}
    BY <1>3 DEF EngineTyped, Keeps, Shape, EngineFields
  <2> HIDE DEF r
  <2>2. /\ r.playback = e.playback /\ r.gen = e.gen /\ r.out = e.out /\ EngineTyped(r)
        /\ (Marked(e) => Marked(r))
    BY <2>1 DEF Keeps, EngineFields, EngineTyped, Marked
  <2>3. Longer(e.out, r.out)
    BY <2>2 DEF Longer, EngineTyped, Shape, SignalsOk, IsSeq
  <2>4. Obeys(e, r)
    BY <2>2, <2>3 DEF Obeys, Announces
  <2> QED BY <2>1, <2>2, <2>4 DEF r
<1> QED
  BY <1>1, <1>2, <1>3 DEF StopEngine

\* The output has drained: the engine stops, unless it has gone on.
LEMMA StopTimerObeys ==
    ASSUME NEW e, NEW gen, EngineTyped(e)
    PROVE  LET r == StopTimer(e, gen)
           IN  /\ Obeys(e, r) /\ r.current = e.current
               /\ r.playback = "playing" => e.playback = "playing"
               /\ r.playback = "playing" /\ gen # e.gen /\ e.gen \in e.timers
                       => r.gen \in r.timers
<1> DEFINE fired == [e EXCEPT !.timers = @ \ {gen}]
           r     == StopTimer(e, gen)
<1>1. Keeps(e, fired, {"timers"}) /\ fired.timers = e.timers \ {gen}
  BY DEF EngineTyped, Keeps, Shape, EngineFields
<1>2. r \in {fired, StopImmediate(fired)}
  BY DEF StopTimer
<1> HIDE DEF fired
<1>3. /\ fired.playback = e.playback /\ fired.gen = e.gen /\ fired.out = e.out
      /\ EngineTyped(fired) /\ (Marked(e) => Marked(fired)) /\ fired.current = e.current
  BY <1>1 DEF Keeps, EngineFields, EngineTyped, Marked
<1>4. Longer(e.out, fired.out)
  BY <1>3 DEF Longer, EngineTyped, Shape, SignalsOk, IsSeq
<1>5. Obeys(e, fired)
  BY <1>3, <1>4 DEF Obeys, Announces
<1>6. /\ Obeys(e, StopImmediate(fired)) /\ StopImmediate(fired).current = e.current
      /\ StopImmediate(fired).playback = "stopped"
  BY <1>3, <1>5, StopImmediateObeys, ObeysTwice
<1> HIDE DEF r
<1>7. CASE r = fired
  BY <1>1, <1>3, <1>5, <1>7 DEF r
<1>8. CASE r = StopImmediate(fired)
  BY <1>6, <1>8 DEF r
<1> QED
  BY <1>2, <1>7, <1>8

LEMMA PauseEngineObeys ==
    ASSUME NEW e, EngineTyped(e)
    PROVE  Obeys(e, PauseEngine(e)) /\ PauseEngine(e).playback # "playing"
<1>1. CASE e.playback = "playing"
  BY <1>1, SetPlaybackObeys DEF PauseEngine, PlayType
<1>2. CASE e.playback # "playing"
  BY <1>2, SelfStays, StaysObeys DEF PauseEngine
<1> QED
  BY <1>1, <1>2

\* The engine plays, and says so, or remains as it is.
LEMMA PlayEngineObeys ==
    ASSUME NEW e, NEW opens, EngineTyped(e), e.pool # {}
    PROVE  Obeys(e, PlayEngine(e, opens))
<1> DEFINE loaded == IF e.stream = "none" /\ e.playback = "stopped" /\ e.current.track # 0
                     THEN Load(e, e.current, FALSE, opens) ELSE e
           played == SetPlayback(loaded, "playing")
           ok     == [played EXCEPT !.status = "ok"]
           r      == PlayEngine(e, opens)
<1>1. r \in {e, loaded, ok}
  BY DEF PlayEngine
<1>2. Obeys(e, e)
  BY SelfStays, StaysObeys
<1>3. Obeys(e, loaded)
  BY <1>2, LoadTurns, RunsObeys DEF EngineTyped
<1> HIDE DEF loaded
<1>4. Obeys(loaded, played)
  BY <1>3, SetPlaybackObeys DEF Obeys, PlayType
<1> HIDE DEF played
<1>5. Obeys(played, ok)
  <2>1. EngineTyped(played)
    BY <1>4 DEF Obeys
  <2>2. Keeps(played, ok, {"status"}) /\ ok.status = "ok"
    BY <2>1 DEF EngineTyped, Keeps, Shape, EngineFields
  <2> HIDE DEF ok
  <2>3. Keeps(played, ok, {"status", "auto", "candidate", "requested", "ended"})
        /\ ok.stream = played.stream /\ ok.candidate = played.candidate
    BY <2>2 DEF Keeps, EngineFields
  <2> QED BY <2>1, <2>2, <2>3, StatusStays, StaysObeys DEF EngineTyped, StatusType
<1> HIDE DEF ok, r
<1>6. Obeys(e, ok)
  BY <1>3, <1>4, <1>5, ObeysTwice
<1> QED
  BY <1>1, <1>2, <1>3, <1>6 DEF r

\* Automatic changes are switched on or off.
LEMMA SetAutoObeys ==
    ASSUME NEW e, NEW on, NEW opens, EngineTyped(e)
    PROVE  Obeys(e, SetAuto(e, on, opens))
<1> DEFINE cleared == ClearEnding(e)
           begun   == [cleared EXCEPT !.stream = "body", !.status = IF @ = "end" THEN "ok" ELSE @]
           lost    == [cleared EXCEPT !.stream = "none"]
           rebuilt == IF IsArmed(e) /\ e.armed.adopted THEN Rebuild(e, opens) ELSE e
           changed == [rebuilt EXCEPT !.auto = on]
           none    == [changed EXCEPT !.candidate = NoTrack]
           a       == ClearAdvance(none)
           b       == ClearPrepared(a)
           c       == CancelJobs(b)
           r       == SetAuto(e, on, opens)
<1>1. r \in {e, [e EXCEPT !.auto = on], c}
  BY DEF SetAuto
<1>2. CASE r = e
  BY <1>2, SelfStays, StaysObeys
<1>3. CASE r = [e EXCEPT !.auto = on]
  <2>1. Keeps(e, r, {"auto"})
    BY <1>3 DEF EngineTyped, Keeps, Shape, EngineFields
  <2> HIDE DEF r
  <2>2. Keeps(e, r, {"status", "auto", "candidate", "requested", "ended"})
        /\ r.stream = e.stream /\ r.candidate = e.candidate /\ r.status = e.status
    BY <2>1 DEF Keeps, EngineFields
  <2> QED BY <2>2, StatusStays, StaysObeys DEF EngineTyped, r
<1>4. CASE r = c
  <2>1. Stays(e, cleared)
    BY ClearEndingStays
  <2>2. rebuilt \in {e, begun, SetStatus(lost, "invalid")}
    BY DEF Rebuild
  <2> HIDE DEF cleared
  <2> DEFINE Heir(x) == /\ EngineTyped(x) /\ x.playback = e.playback /\ x.timers = e.timers
                        /\ Longer(e.out, x.out)
                        /\ \A k \in Len(e.out) + 1 .. Len(x.out) : ~Halts(x.out[k])
  <2>3. Heir(e) /\ Heir(cleared)
    BY <2>1, SelfStays DEF Stays, Runs
  <2>4. Heir(begun) /\ Heir(lost) /\ EngineTyped(lost)
    <3>1. EngineTyped(cleared)
      BY <2>3
    <3>2. /\ Keeps(cleared, begun, {"stream", "status"}) /\ begun.stream = "body"
          /\ begun.status \in {cleared.status, "ok"}
          /\ Keeps(cleared, lost, {"stream", "status"}) /\ lost.stream = "none"
          /\ lost.status = cleared.status
      BY <3>1 DEF EngineTyped, Keeps, Shape, EngineFields
    <3> HIDE DEF begun, lost
    <3>3. ASSUME NEW x, Keeps(cleared, x, {"stream", "status"}), x.stream \in StreamType,
                 x.status \in StatusType
          PROVE  Heir(x)
      <4>1. x.out = cleared.out /\ x.playback = cleared.playback /\ x.timers = cleared.timers
            /\ EngineTyped(x)
        BY <3>1, <3>3 DEF EngineTyped, Keeps, EngineFields
      <4> QED BY <2>3, <4>1
    <3>4. /\ begun.stream \in StreamType /\ lost.stream \in StreamType
          /\ begun.status \in StatusType /\ lost.status \in StatusType
      BY <3>1, <3>2 DEF EngineTyped, StreamType, StatusType
    <3>5. Heir(begun) /\ Heir(lost)
      BY <3>2, <3>3, <3>4
    <3> QED BY <3>5
  <2> HIDE DEF begun, lost
  <2>5. Stays(lost, SetStatus(lost, "invalid"))
    BY <2>4, SetStatusStays
  <2>6. Heir(SetStatus(lost, "invalid"))
    <3> DEFINE x == SetStatus(lost, "invalid")
    <3> HIDE DEF x
    <3>1. Stays(lost, x)
      BY <2>5 DEF x
    <3>2. EngineTyped(x) /\ x.playback = e.playback /\ x.timers = e.timers
      BY <2>4, <3>1 DEF Stays, Runs
    <3>3. Longer(e.out, lost.out) /\ Longer(lost.out, x.out)
      BY <2>4, <3>1 DEF Stays, Runs
    <3>4. ASSUME NEW k \in Len(e.out) + 1 .. Len(x.out)
          PROVE  ~Halts(x.out[k])
      <4>1. CASE k \in Len(e.out) + 1 .. Len(lost.out)
        <5>1. k \in 1 .. Len(lost.out)
          BY <3>3, <4>1 DEF Longer
        <5>2. x.out[k] = lost.out[k]
          BY <3>3, <5>1 DEF Longer
        <5> QED BY <2>4, <4>1, <5>2
      <4>2. CASE k \in Len(lost.out) + 1 .. Len(x.out)
        BY <3>1, <4>2 DEF Stays, Runs
      <4> QED BY <3>3, <3>4, <4>1, <4>2 DEF Longer
    <3>5. Longer(e.out, x.out)
      BY <3>3, LongerTwice
    <3>6. Heir(x)
      BY <3>2, <3>4, <3>5
    <3> QED BY <3>6 DEF x
  <2>7. Heir(rebuilt)
    BY <2>2, <2>3, <2>4, <2>6
  <2> HIDE DEF rebuilt
  <2>8. Heir(none)
    <3>1. Keeps(rebuilt, none, {"auto", "candidate"}) /\ none.candidate = NoTrack
      BY <2>7 DEF EngineTyped, Keeps, Shape, EngineFields
    <3> HIDE DEF none
    <3>2. none.out = rebuilt.out /\ none.playback = rebuilt.playback
          /\ none.timers = rebuilt.timers /\ EngineTyped(none)
      BY <2>7, <3>1, NullItems DEF Keeps, EngineFields, EngineTyped
    <3> QED BY <2>7, <3>2
  <2> HIDE DEF none
  <2>9. Stays(none, a) /\ a.out = none.out /\ Marked(a)
    BY <2>8, ClearAdvanceStays
  <2> HIDE DEF a
  <2>10. Stays(a, b) /\ b.out = a.out
    BY <2>9, ClearPreparedStays DEF Stays, Runs
  <2> HIDE DEF b
  <2>11. Stays(b, c) /\ c.out = b.out
    BY <2>10, CancelJobsStays DEF Stays, Runs
  <2> HIDE DEF c
  <2>12. Marked(c) /\ Stays(none, c) /\ c.out = none.out
    BY <2>9, <2>10, <2>11, StaysTwice DEF Stays, Runs
  <2>13. Runs(e, c)
    BY <2>8, <2>12 DEF Stays, Runs
  <2> HIDE DEF r
  <2> QED BY <1>4, <2>13, RunsObeys DEF r
<1> QED
  BY <1>1, <1>2, <1>3, <1>4

\* Another track is announced as the next one.
LEMMA SetCandidateObeys ==
    ASSUME NEW e, NEW item, EngineTyped(e), item \in ItemType
    PROVE  Obeys(e, SetCandidate(e, item))
<1> DEFINE armed    == e.armed.track # 0 /\ ~Same(item, e.armed)
           disarmed == IF armed THEN Disarm(e) ELSE e
           new      == [disarmed EXCEPT !.candidate = item, !.requested = FALSE]
           set      == CancelJobs(new)
           r        == SetCandidate(e, item)
<1>1. r \in {e, set, ClearPrepared(set)}
  BY DEF SetCandidate
<1>2. Stays(e, e)
  BY SelfStays
<1>3. Stays(e, disarmed)
  BY <1>2, DisarmStays
<1> HIDE DEF disarmed
<1>4. Stays(disarmed, new)
  <2>1. EngineTyped(disarmed)
    BY <1>3 DEF Stays, Runs
  <2>2. Keeps(disarmed, new, {"candidate", "requested"}) /\ new.candidate = item
    BY <2>1 DEF EngineTyped, Keeps, Shape, EngineFields
  <2> HIDE DEF new
  <2>3. Keeps(disarmed, new, {"status", "auto", "candidate", "requested", "ended"})
        /\ new.stream = disarmed.stream /\ new.status = disarmed.status
    BY <2>2 DEF Keeps, EngineFields
  <2> QED BY <2>1, <2>2, <2>3, StatusStays DEF EngineTyped
<1> HIDE DEF new
<1>5. Stays(new, set)
  BY <1>4, CancelJobsStays DEF Stays, Runs
<1> HIDE DEF set
<1>6. Stays(set, ClearPrepared(set))
  BY <1>5, ClearPreparedStays DEF Stays, Runs
<1> HIDE DEF r
<1>7. Stays(e, set) /\ Stays(e, ClearPrepared(set))
  BY <1>3, <1>4, <1>5, <1>6, StaysTwice
<1> QED
  BY <1>1, <1>2, <1>7, StaysObeys DEF r

\* A call of the handler.
LEMMA RunObeys ==
    ASSUME NEW e, NEW c, NEW opens, NEW rest, EngineTyped(e), e.pool # {}, CallFit(c)
    PROVE  LET r == Run(e, c, opens, rest)
           IN  /\ Obeys(e, r)
               /\ c.call = "pause" => r.playback # "playing"
               /\ c.call = "stop" /\ r.playback = "playing" => r.gen \in r.timers
<1> DEFINE r == Run(e, c, opens, rest)
<1>1. CASE c.call = "load"
  <2>1. r = Load(e, c.item, c.manual, opens) /\ c.item \in ItemType
    BY <1>1 DEF Run, CallFit
  <2> HIDE DEF r
  <2> QED BY <1>1, <2>1, LoadTurns, RunsObeys DEF r
<1>2. CASE c.call = "play"
  BY <1>2, PlayEngineObeys DEF Run
<1>3. CASE c.call = "pause"
  BY <1>3, PauseEngineObeys DEF Run
<1>4. CASE c.call = "stop"
  BY <1>4, StopEngineObeys DEF Run
<1>5. CASE c.call = "auto"
  BY <1>5, SetAutoObeys DEF Run
<1>6. CASE c.call = "candidate"
  BY <1>6, SetCandidateObeys DEF Run, CallFit
<1>7. CASE c.call = "prepare"
  <2>1. r = PrepareNext(e, c.item) /\ c.item \in ItemType
    BY <1>7 DEF Run, CallFit
  <2> HIDE DEF r
  <2> QED BY <1>7, <2>1, PrepareNextStays, StaysObeys DEF r
<1> QED
  BY <1>1, <1>2, <1>3, <1>4, <1>5, <1>6, <1>7 DEF CallFit, CallKnown

-----------------------------------------------------------------------------
(* The two records together.                                                *)

(***************************************************************************)
(* The types of both records; a boundary belongs to a stream that has         *)
(* drained; and the signals on their way end with what the engine does.       *)
(***************************************************************************)
TInv ==
    /\ Fits(main) /\ EngineTyped(engine)
    /\ Marked(engine) /\ Announces(engine)
    /\ scenario.most \in Nat /\ commands \in 0 .. scenario.most

\* What the player and the engine may agree on.
Agreed(m, e) ==
    e.playback = "playing" => Stands(m) \/ Playing(e.out) \/ e.gen \in e.timers

\* TransportAgrees in these terms.
LEMMA AgreedMeans ==
    ASSUME NEW m, NEW e, Fits(m), EngineTyped(e)
    PROVE  DOMAIN m.out = 1 .. Len(m.out) /\ DOMAIN e.out = 1 .. Len(e.out)
BY DEF Fits, Typed, Calls, EngineTyped, Shape, SignalsOk, IsSeq

LEMMA TransportMeans ==
    ASSUME Fits(main), EngineTyped(engine)
    PROVE  TransportAgrees <=> Agreed(main, engine)
<1>1. DOMAIN main.out = 1 .. Len(main.out) /\ DOMAIN engine.out = 1 .. Len(engine.out)
  BY AgreedMeans
<1> QED
  BY <1>1 DEF TransportAgrees, Agreed, PlayingOnItsWay, HaltOnItsWay, Playing, PlaysSignal,
              Stands, Halting

\* The record of a thread before and after a step.
LEMMA RenamedFits ==
    ASSUME NEW m, NEW p, Fits(m), p \subseteq 1 .. MaxItem
    PROVE  LET r == [m EXCEPT !.pool = p]
           IN  Fits(r) /\ (Stands(m) <=> Stands(r)) /\ MKeeps(m, r, {"pool"}) /\ r.pool = p
<1> DEFINE r == [m EXCEPT !.pool = p]
<1>1. MKeeps(m, r, {"pool"}) /\ r.pool = p
  BY DEF MKeeps, Fits, Typed, MainFields
<1> HIDE DEF r
<1>2. /\ r.play = m.play /\ r.manual = m.manual /\ r.armed = m.armed
      /\ r.current = m.current /\ r.upcoming = m.upcoming /\ r.request = m.request
      /\ r.change = m.change /\ r.resume = m.resume /\ r.index = m.index
      /\ r.queue = m.queue /\ r.out = m.out /\ DOMAIN r = MainFields
  BY <1>1 DEF MKeeps, MainFields
<1>3. Fits(r) /\ (Stands(m) <=> Stands(r)) /\ MKeeps(m, r, {"pool"}) /\ r.pool = p
  BY <1>1, <1>2 DEF Fits, Typed, Stands
<1> QED
  BY <1>3 DEF r

LEMMA RenamedEngine ==
    ASSUME NEW e, NEW p, EngineTyped(e), p \subseteq 1 .. MaxItem
    PROVE  LET r == [e EXCEPT !.pool = p]
           IN  /\ EngineTyped(r) /\ Keeps(e, r, {"pool"}) /\ r.pool = p
               /\ (Marked(e) <=> Marked(r)) /\ (Announces(e) <=> Announces(r))
<1> DEFINE r == [e EXCEPT !.pool = p]
<1>1. Keeps(e, r, {"pool"}) /\ r.pool = p
  BY DEF EngineTyped, Keeps, Shape, EngineFields
<1> HIDE DEF r
<1>2. /\ EngineTyped(r) /\ Keeps(e, r, {"pool"}) /\ r.pool = p
      /\ (Marked(e) <=> Marked(r)) /\ (Announces(e) <=> Announces(r))
  BY <1>1 DEF Keeps, EngineFields, EngineTyped, Marked, Announces
<1> QED
  BY <1>2 DEF r

\* What a step starts from.
LEMMA Given ==
    ASSUME TInv, NamesLeft
    PROVE  /\ Fits(Main) /\ (Stands(main) <=> Stands(Main)) /\ MKeeps(main, Main, {"pool"})
           /\ Main.pool # {} /\ \A x : Main.pool \ {x} # {}
           /\ EngineTyped(Engine) /\ Keeps(engine, Engine, {"pool"})
           /\ Marked(Engine) /\ Announces(Engine)
           /\ Engine.pool # {} /\ Engine.gen \notin Engine.pool
<1>1. /\ Fits(Main) /\ (Stands(main) <=> Stands(Main)) /\ MKeeps(main, Main, {"pool"})
  <2>1. (1 .. MaxItem) \ ItemsInUse \subseteq 1 .. MaxItem
    OBVIOUS
  <2> QED BY <2>1, RenamedFits DEF Main, TInv
<1>2. Main.pool # {} /\ \A x : Main.pool \ {x} # {}
  BY NamesFree DEF TInv, Fits, Typed
<1>3. /\ EngineTyped(Engine) /\ Keeps(engine, Engine, {"pool"})
      /\ Marked(Engine) /\ Announces(Engine) /\ Engine.pool = (1 .. MaxItem) \ GensInUse
  <2>1. (1 .. MaxItem) \ GensInUse \subseteq 1 .. MaxItem
    OBVIOUS
  <2> QED BY <2>1, RenamedEngine DEF Engine, TInv
<1>4. Engine.pool # {}
  BY DEF NamesLeft
<1>5. engine.gen \in GensInUse
  BY DEF GensInUse
<1>6. Engine.gen = engine.gen
  BY <1>3 DEF Keeps, EngineFields
<1> QED
  BY <1>1, <1>2, <1>3, <1>4, <1>5, <1>6

LEMMA SettledFits ==
    ASSUME NEW m, Fits(m)
    PROVE  Fits(Settled(m)) /\ (Stands(m) => Stands(Settled(m)))
BY RenamedFits DEF Settled

LEMMA SettledEngine ==
    ASSUME NEW e, EngineTyped(e)
    PROVE  /\ EngineTyped(Settled(e)) /\ Keeps(e, Settled(e), {"pool"})
           /\ (Marked(e) => Marked(Settled(e))) /\ (Announces(e) => Announces(Settled(e)))
BY RenamedEngine DEF Settled

\* At the start neither side plays.
LEMMA InitTyped == Init => TInv /\ TransportAgrees
<1> SUFFICES ASSUME Init PROVE TInv /\ TransportAgrees
  OBVIOUS
<1>1. PICK gapless \in BOOLEAN : main = Fresh(gapless) /\ engine = StartEngine(gapless)
  BY DEF Init
<1>2. /\ DOMAIN main = MainFields /\ main.play = "stopped" /\ main.manual = FALSE
      /\ main.armed = FALSE /\ main.current = NoOccurrence /\ main.upcoming = NoOccurrence
      /\ main.request = NoRequest /\ main.change = NoRequest /\ main.resume = 0
      /\ main.index = 0 /\ main.queue = <<>> /\ main.out = <<>> /\ main.pool = {}
  BY <1>1 DEF Fresh, MainFields
<1>3. IsSeq(<<>>) /\ 1 .. Len(<<>>) = {} /\ Len(<<>>) = 0 /\ <<>> \in Seq(EntryType)
  BY DEF IsSeq
<1>4. Calls(<<>>)
  BY <1>3 DEF Calls
<1>5. NullId(NoOccurrence)
  BY DEF NullId, NoOccurrence
<1>6. Fits(main)
  <2>1. main.play \in PlayType /\ main.queue \in Seq(EntryType) /\ Len(main.queue) <= MaxQueue
    BY <1>2, <1>3, NullTypes DEF PlayType
  <2>2. Calls(main.out) /\ NullId(main.upcoming)
    BY <1>2, <1>4, <1>5
  <2> QED BY <1>2, <2>1, <2>2, NullTypes DEF Fits, Typed
<1>7. /\ DOMAIN engine = EngineFields /\ engine.playback = "stopped" /\ engine.status = "none"
      /\ engine.stream = "none" /\ engine.current = NoTrack /\ engine.candidate = NoTrack
      /\ engine.job = NoTrack /\ engine.prepared = NoPrepared /\ engine.armed = NoGapless
      /\ engine.gen = 0 /\ engine.pool = {} /\ engine.out = <<>>
      /\ engine.anchor = FALSE /\ engine.waiting = FALSE
  BY <1>1 DEF StartEngine, EngineFields
<1>8. Shape(engine)
  BY <1>3, <1>7 DEF Shape, SignalsOk, NoGapless
<1>9. EngineTyped(engine)
  BY <1>7, <1>8, NullItems, NullTypes DEF EngineTyped, PlayType, StatusType, StreamType
<1>10. Marked(engine) /\ Announces(engine) /\ TransportAgrees
  BY <1>7 DEF Marked, Announces, TransportAgrees
<1>11. scenario.most \in Nat /\ commands \in 0 .. scenario.most
  BY HandoffAssumption DEF Init
<1> QED
  BY <1>6, <1>9, <1>10, <1>11 DEF TInv

\* A step of the player.
LEMMA MainTyped ==
    ASSUME TInv, NEW m, Fits(m), main' = Settled(m)
    PROVE  Fits(main') /\ (Stands(m) => Stands(main'))
BY SettledFits

\* The commands of the user.
LEMMA UserTyped ==
    ASSUME TInv, UserSteps, NamesLeft
    PROVE  /\ TInv'
           /\ Agreed(main, engine) => Agreed(main', engine')
<1>1. ASSUME NEW c, NEW m, Fits(m), Stands(Main) => Stands(m), Commanded(c, m)
      PROVE  /\ TInv'
             /\ Agreed(main, engine) => Agreed(main', engine')
  <2>1. /\ main' = Settled(m) /\ commands' = commands + 1 /\ UNCHANGED <<engine, scenario>>
        /\ commands < scenario.most
    BY <1>1 DEF Commanded
  <2>2. Fits(main') /\ (Stands(main) => Stands(main'))
    BY <1>1, <2>1, MainTyped, Given
  <2>3. commands' \in 0 .. scenario.most
    BY <2>1 DEF TInv
  <2> QED
    BY <2>1, <2>2, <2>3 DEF TInv, Agreed
<1>2. /\ Fits(Main) /\ Main.pool # {} /\ \A x : Main.pool \ {x} # {}
      /\ Main.queue = main.queue /\ main.armed \in BOOLEAN
  BY Given DEF MKeeps, MainFields, TInv, Fits, Typed
<1>3. CASE UserPlayPause
  BY <1>1, <1>2, <1>3, PlayOrPasses DEF UserPlayPause, Passes, Slips
<1>4. CASE UserStop
  BY <1>1, <1>2, <1>4, StopPasses DEF UserStop, Passes, Slips
<1>5. CASE UserNext
  BY <1>1, <1>2, <1>5, SkipPasses DEF UserNext, Passes, Slips
<1>6. CASE UserSelect
  BY <1>1, <1>2, <1>6, SelectPasses DEF UserSelect, Passes, Slips
<1>7. CASE UserEnqueue
  <2>1. Len(Main.queue) < MaxQueue
    BY <1>2, <1>7 DEF UserEnqueue
  <2>2. \A i \in Tracks : Moves(Main, Enqueue(Main, i))
    BY <1>2, <2>1, EnqueueMoves
  <2> QED
    BY <1>1, <1>7, <2>2 DEF UserEnqueue, Moves
<1>8. CASE UserClearQueue
  BY <1>1, <1>2, <1>8, ClearMoves DEF UserClearQueue, Moves
<1>9. CASE UserArm
  <2>1. (~main.armed) \in BOOLEAN
    BY <1>2
  <2>2. Moves(Main, SetArmed(Main, ~main.armed))
    BY <1>2, <2>1, SetArmedMoves
  <2> QED
    BY <1>1, <1>9, <2>2 DEF UserArm, Moves
<1> QED
  BY <1>3, <1>4, <1>5, <1>6, <1>7, <1>8, <1>9 DEF UserSteps

\* The queue of calls or signals, without its first.
LEMMA TailFits ==
    ASSUME NEW m, Fits(m), m.out # <<>>
    PROVE  LET r == [m EXCEPT !.out = Tail(@)]
           IN  /\ Fits(r) /\ CallFit(Head(m.out))
               /\ Head(m.out).call \notin {"pause", "stop"} => (Stands(m) => Stands(r))
<1> DEFINE r == [m EXCEPT !.out = Tail(@)]
           n == Len(m.out)
<1>1. MKeeps(m, r, {"out"}) /\ r.out = Tail(m.out)
  BY DEF MKeeps, Fits, Typed, MainFields
<1>2. /\ IsSeq(r.out) /\ Len(r.out) = n - 1 /\ n \in Nat \ {0}
      /\ Head(m.out) = m.out[1] /\ \A k \in 1 .. n - 1 : r.out[k] = m.out[k + 1]
  BY <1>1, TailSeq DEF Fits, Typed, Calls
<1>3. \A k \in 1 .. n : CallFit(m.out[k])
  BY DEF Fits, Typed, Calls
<1> HIDE DEF r
<1>4. Calls(r.out)
  <2>1. ASSUME NEW k \in 1 .. Len(r.out)
        PROVE  CallFit(r.out[k])
    <3>1. k \in 1 .. n - 1 /\ k + 1 \in 1 .. n
      BY <1>2
    <3> QED BY <1>2, <1>3, <3>1
  <2> QED BY <1>2, <2>1 DEF Calls
<1>5. /\ r.play = m.play /\ r.manual = m.manual /\ r.armed = m.armed
      /\ r.current = m.current /\ r.upcoming = m.upcoming /\ r.request = m.request
      /\ r.change = m.change /\ r.resume = m.resume /\ r.index = m.index
      /\ r.queue = m.queue /\ r.pool = m.pool /\ DOMAIN r = MainFields
  BY <1>1 DEF MKeeps, MainFields
<1>6. Fits(r)
  BY <1>4, <1>5 DEF Fits, Typed
<1>7. 1 \in 1 .. n
  BY <1>2
<1>8. ASSUME m.out[1].call \notin {"pause", "stop"}, Halting(m.out)
      PROVE  Halting(r.out)
  <2>1. PICK k \in 1 .. n : /\ m.out[k].call \in {"pause", "stop"}
                            /\ \A j \in 1 .. n : m.out[j].call = "play" => j < k
    BY <1>8 DEF Halting
  <2>2. k # 1 /\ k - 1 \in 1 .. n - 1 /\ r.out[k - 1] = m.out[k]
    <3>1. k # 1 /\ k - 1 \in 1 .. n - 1
      BY <1>2, <1>8, <2>1
    <3>2. r.out[k - 1] = m.out[(k - 1) + 1]
      BY <1>2, <3>1
    <3> QED BY <3>1, <3>2
  <2>3. ASSUME NEW j \in 1 .. n - 1, r.out[j].call = "play"
        PROVE  j < k - 1
    <3>1. j + 1 \in 1 .. n /\ m.out[j + 1].call = "play"
      BY <1>2, <2>3
    <3>2. j + 1 < k
      BY <2>1, <3>1
    <3> QED BY <3>2
  <2> QED BY <1>2, <2>1, <2>2, <2>3 DEF Halting
<1>9. /\ Fits(r) /\ CallFit(Head(m.out))
      /\ Head(m.out).call \notin {"pause", "stop"} => (Stands(m) => Stands(r))
  BY <1>2, <1>3, <1>5, <1>6, <1>7, <1>8 DEF Stands
<1> QED
  BY <1>9 DEF r

LEMMA TailEngine ==
    ASSUME NEW e, EngineTyped(e), e.out # <<>>, Marked(e), Announces(e)
    PROVE  LET r == [e EXCEPT !.out = Tail(@)]
               s == Head(e.out)
           IN  /\ EngineTyped(r) /\ Marked(r) /\ Announces(r)
               /\ Keeps(e, r, {"out"}) /\ SignalOk(s)
               /\ Playing(e.out) => PlaysSignal(s) \/ Playing(r.out)
               /\ e.playback = "playing" /\ Halts(s) => Playing(r.out)
<1> DEFINE r == [e EXCEPT !.out = Tail(@)]
           n == Len(e.out)
<1>0. Shape(e) /\ IsSeq(e.out) /\ \A k \in 1 .. n : SignalOk(e.out[k])
  BY DEF EngineTyped, Shape, SignalsOk
<1>1. r.out = Tail(e.out) /\ DOMAIN r = EngineFields
      /\ \A f \in EngineFields \ {"out"} : r[f] = e[f]
  BY <1>0 DEF Shape, EngineFields
<1>2. /\ IsSeq(r.out) /\ Len(r.out) = n - 1 /\ n \in Nat \ {0}
      /\ Head(e.out) = e.out[1] /\ \A k \in 1 .. n - 1 : r.out[k] = e.out[k + 1]
  BY <1>0, <1>1, TailSeq
<1> HIDE DEF r
<1>3. \A k \in 1 .. n - 1 : k + 1 \in 1 .. n
  BY <1>2
<1>4. SignalsOk(r.out)
  BY <1>0, <1>2, <1>3 DEF SignalsOk
<1>5. Keeps(e, r, {"out"})
  BY <1>0, <1>1, <1>4 DEF Keeps, Shape, EngineFields
<1>6. EngineTyped(r) /\ Marked(r)
  BY <1>5 DEF EngineTyped, Keeps, EngineFields, Marked
<1>7. ASSUME NEW k \in 2 .. n
      PROVE  k - 1 \in 1 .. n - 1 /\ r.out[k - 1] = e.out[k]
  <2>1. k - 1 \in 1 .. n - 1
    BY <1>2
  <2>2. r.out[k - 1] = e.out[(k - 1) + 1]
    BY <1>2, <2>1
  <2> QED BY <2>1, <2>2
<1>8. Playing(e.out) => PlaysSignal(e.out[1]) \/ Playing(r.out)
  <2> SUFFICES ASSUME Playing(e.out), ~PlaysSignal(e.out[1]) PROVE Playing(r.out)
    OBVIOUS
  <2>1. PICK k \in 1 .. n : PlaysSignal(e.out[k])
    BY DEF Playing
  <2>2. k \in 2 .. n
    BY <1>2, <2>1
  <2> QED BY <1>2, <1>7, <2>1, <2>2 DEF Playing
<1>9. ASSUME e.playback = "playing", Halts(e.out[1])
      PROVE  Playing(r.out)
  <2>1. 1 \in 1 .. n
    BY <1>2
  <2>2. PICK j \in 1 + 1 .. n : PlaysSignal(e.out[j])
    BY <1>9, <2>1 DEF Announces
  <2>3. j \in 2 .. n
    OBVIOUS
  <2> QED BY <1>2, <1>7, <2>2, <2>3 DEF Playing
<1>10. Announces(r)
  <2> SUFFICES ASSUME e.playback = "playing", NEW k \in 1 .. n - 1, Halts(r.out[k])
               PROVE  \E j \in k + 1 .. n - 1 : PlaysSignal(r.out[j])
    BY <1>2, <1>5 DEF Announces, Keeps, EngineFields
  <2>1. k + 1 \in 1 .. n /\ Halts(e.out[k + 1])
    BY <1>2, <1>3
  <2>2. PICK j \in (k + 1) + 1 .. n : PlaysSignal(e.out[j])
    BY <2>1 DEF Announces
  <2>3. j \in 2 .. n /\ j - 1 \in k + 1 .. n - 1
    BY <1>2
  <2> QED BY <1>7, <2>2, <2>3
<1>11. SignalOk(e.out[1])
  BY <1>0, <1>2
<1>12. /\ EngineTyped(r) /\ Marked(r) /\ Announces(r)
       /\ Keeps(e, r, {"out"}) /\ SignalOk(Head(e.out))
       /\ Playing(e.out) => PlaysSignal(Head(e.out)) \/ Playing(r.out)
       /\ e.playback = "playing" /\ Halts(Head(e.out)) => Playing(r.out)
  BY <1>2, <1>5, <1>6, <1>8, <1>9, <1>10, <1>11
<1> QED
  BY <1>12 DEF r

\* One call of the handler on the engine's thread.
LEMMA EngineReceivesTyped ==
    ASSUME TInv, EngineReceives, NamesLeft
    PROVE  /\ TInv'
           /\ Agreed(main, engine)
                => Agreed(main', engine') \/ engine.gen \in engine.timers
<1> DEFINE c == Head(main.out)
<1>1. PICK opens \in Opens, rest \in BOOLEAN :
              engine' = Settled(Run(Engine, c, opens, rest))
  BY DEF EngineReceives
<1>2. /\ main.out # <<>> /\ main' = [main EXCEPT !.out = Tail(@)]
      /\ UNCHANGED <<scenario, commands>>
  BY DEF EngineReceives
<1> DEFINE e == Run(Engine, c, opens, rest)
<1>3. /\ Fits(main') /\ CallFit(c)
      /\ c.call \notin {"pause", "stop"} => (Stands(main) => Stands(main'))
  BY <1>2, TailFits DEF TInv
<1>4. /\ Obeys(Engine, e)
      /\ c.call = "pause" => e.playback # "playing"
      /\ c.call = "stop" /\ e.playback = "playing" => e.gen \in e.timers
  BY <1>3, Given, RunObeys
<1>5. engine' = Settled(e)
  BY <1>1
<1> HIDE DEF c, e
<1>6. /\ EngineTyped(engine') /\ Marked(engine') /\ Announces(engine')
      /\ engine'.playback = e.playback /\ engine'.gen = e.gen
      /\ engine'.timers = e.timers /\ engine'.out = e.out
  BY <1>4, <1>5, Given, SettledEngine DEF Obeys, Keeps, EngineFields
<1>7. Engine.playback = engine.playback /\ Engine.out = engine.out
  BY Given DEF Keeps, EngineFields
<1>8. TInv'
  BY <1>2, <1>3, <1>6 DEF TInv
<1>9. ASSUME Agreed(main, engine), engine.gen \notin engine.timers, engine'.playback = "playing"
      PROVE  Stands(main') \/ Playing(engine'.out) \/ engine'.gen \in engine'.timers
  <2>1. CASE c.call = "pause"
    BY <1>4, <1>6, <1>9, <2>1
  <2>2. CASE c.call = "stop"
    BY <1>4, <1>6, <1>9, <2>2
  <2>3. CASE c.call \notin {"pause", "stop"}
    <3>1. engine.playback = "playing" \/ Playing(e.out)
      BY <1>4, <1>6, <1>7, <1>9 DEF Obeys
    <3>2. Playing(engine.out) => Playing(e.out)
      BY <1>4, <1>7, PlayingLonger DEF Obeys
    <3> QED BY <1>3, <1>6, <1>9, <2>3, <3>1, <3>2 DEF Agreed
  <2> QED BY <2>1, <2>2, <2>3
<1> QED
  BY <1>8, <1>9 DEF Agreed

\* One signal of the engine on the main thread.
LEMMA HandlerReceivesTyped ==
    ASSUME TInv, HandlerReceives, NamesLeft
    PROVE  /\ TInv'
           /\ Agreed(main, engine) => Agreed(main', engine')
<1> DEFINE s == Head(engine.out)
           m == Handle(Main, s)
<1>1. /\ engine.out # <<>> /\ main' = Settled(m) /\ engine' = [engine EXCEPT !.out = Tail(@)]
      /\ UNCHANGED <<scenario, commands>>
  BY DEF HandlerReceives
<1>2. /\ EngineTyped(engine') /\ Marked(engine') /\ Announces(engine')
      /\ Keeps(engine, engine', {"out"}) /\ SignalOk(s)
      /\ Playing(engine.out) => PlaysSignal(s) \/ Playing(engine'.out)
      /\ engine.playback = "playing" /\ Halts(s) => Playing(engine'.out)
  BY <1>1, TailEngine DEF TInv
<1>3. /\ Fits(m)
      /\ ~Halts(s) => (Stands(Main) => Stands(m))
      /\ s.signal = "state" /\ s.play = "playing" => Stands(m)
  BY <1>2, Given, HandleGoes
<1> HIDE DEF m
<1>4. Fits(main') /\ (Stands(m) => Stands(main'))
  BY <1>1, <1>3, MainTyped
<1> HIDE DEF s
<1>5. TInv'
  BY <1>1, <1>2, <1>4 DEF TInv
<1>6. /\ engine'.playback = engine.playback /\ engine'.gen = engine.gen
      /\ engine'.timers = engine.timers
  BY <1>2 DEF Keeps, EngineFields
<1>7. ASSUME Agreed(main, engine), engine'.playback = "playing"
      PROVE  Stands(main') \/ Playing(engine'.out) \/ engine'.gen \in engine'.timers
  <2>1. CASE Halts(s)
    BY <1>2, <1>6, <1>7, <2>1
  <2>2. CASE ~Halts(s)
    <3>1. Stands(main) => Stands(main')
      BY <1>3, <1>4, <2>2, Given
    <3>2. PlaysSignal(s) => Stands(main')
      BY <1>3, <1>4 DEF PlaysSignal
    <3> QED BY <1>2, <1>6, <1>7, <3>1, <3>2 DEF Agreed
  <2> QED BY <2>1, <2>2
<1> QED
  BY <1>5, <1>7 DEF Agreed

\* A step of the engine on its own.
LEMMA EngineStepsTyped ==
    ASSUME TInv, NEW e, Obeys(Engine, e), Runs(Engine, e), EngineSteps(e)
    PROVE  /\ TInv'
           /\ Agreed(main, engine)
                => Agreed(main', engine') \/ engine.gen \in engine.timers
<1>1. engine' = Settled(e) /\ UNCHANGED <<main, scenario, commands>>
  BY DEF EngineSteps
<1>2. Keeps(engine, Engine, {"pool"}) /\ Marked(Engine) /\ Announces(Engine)
  <2>1. (1 .. MaxItem) \ GensInUse \subseteq 1 .. MaxItem
    OBVIOUS
  <2> QED BY <2>1, RenamedEngine DEF Engine, TInv
<1>3. /\ EngineTyped(engine') /\ Marked(engine') /\ Announces(engine')
      /\ engine'.playback = e.playback /\ engine'.out = e.out
  BY <1>1, <1>2, SettledEngine DEF Obeys, Keeps, EngineFields
<1>4. TInv'
  BY <1>1, <1>3 DEF TInv
<1>5. e.playback = engine.playback /\ (Playing(engine.out) => Playing(e.out))
  BY <1>2, PlayingLonger DEF Runs, Keeps, EngineFields
<1> QED
  BY <1>1, <1>3, <1>4, <1>5 DEF Agreed

\* What an update of the position finds.
LEMMA UpdateTyped ==
    ASSUME TInv, NamesLeft, NEW e \in Updates
    PROVE  Runs(Engine, e) /\ Leaves(Engine, e)
<1> DEFINE renders == IF IsArmed(engine) THEN BOOLEAN ELSE {FALSE}
           idle == engine.playback # "playing" \/ engine.stream = "none"
           all  == {CheckEnding(Engine, stream, heard, rendered, rest, how) :
                       stream \in Later(engine.stream),
                       heard \in BOOLEAN,
                       rendered \in renders, rest \in BOOLEAN, how \in Hows}
<1>4. Updates = IF idle THEN {} ELSE all
  BY DEF Updates
<1> HIDE DEF all, renders
<1>5. e \in all
  BY <1>4
<1>1. PICK stream \in Later(engine.stream), heard \in BOOLEAN,
           rendered \in renders, rest \in BOOLEAN, how \in Hows :
              e = CheckEnding(Engine, stream, heard, rendered, rest, how)
  BY <1>5 DEF all
<1>2. stream \in StreamType /\ (engine.stream = "drained" => stream = "drained")
  BY DEF Later, StreamType, TInv, EngineTyped
<1>3. Engine.stream = engine.stream
  BY Given DEF Keeps, EngineFields
<1> QED
  BY <1>1, <1>2, <1>3, Given, CheckEndingTurns

\* The engine's steps on its own.
LEMMA EngineMovesTyped ==
    ASSUME TInv, NamesLeft, PositionUpdate \/ PrepareDone \/ StopTimerFires
    PROVE  /\ TInv'
           /\ Agreed(main, engine)
                => Agreed(main', engine') \/ engine.gen \in engine.timers
<1>1. CASE PositionUpdate
  <2>1. PICK e \in Updates : EngineSteps(e)
    BY <1>1 DEF PositionUpdate
  <2> QED BY <2>1, UpdateTyped, RunsObeys, EngineStepsTyped
<1>2. CASE PrepareDone
  <2>1. PICK how \in Hows, now \in Hows : EngineSteps(JobDone(Engine, how, now))
    BY <1>2 DEF PrepareDone, JobMayEnd
  <2>2. Runs(Engine, JobDone(Engine, how, now))
    BY Given, JobDoneTurns
  <2> QED BY <2>1, <2>2, RunsObeys, EngineStepsTyped
<1>3. CASE StopTimerFires
  <2>1. PICK gen \in engine.timers : EngineSteps(StopTimer(Engine, gen))
    BY <1>3 DEF StopTimerFires
  <2> DEFINE e == StopTimer(Engine, gen)
  <2>2. /\ Obeys(Engine, e)
        /\ e.playback = "playing" => Engine.playback = "playing"
    BY Given, StopTimerObeys
  <2>3. engine' = Settled(e) /\ UNCHANGED <<main, scenario, commands>>
    BY <2>1 DEF EngineSteps
  <2> HIDE DEF e
  <2>4. /\ EngineTyped(engine') /\ Marked(engine') /\ Announces(engine')
        /\ engine'.playback = e.playback /\ engine'.out = e.out
    BY <2>2, <2>3, Given, SettledEngine DEF Obeys, Keeps, EngineFields
  <2>5. Engine.playback = engine.playback /\ Engine.out = engine.out
    BY Given DEF Keeps, EngineFields
  <2>6. Playing(engine.out) => Playing(e.out)
    BY <2>2, <2>5, PlayingLonger DEF Obeys
  <2>7. TInv'
    BY <2>3, <2>4 DEF TInv
  <2> QED BY <2>2, <2>3, <2>4, <2>5, <2>6, <2>7 DEF Agreed
<1> QED
  BY <1>1, <1>2, <1>3

\* Every step keeps the types, and what the player and the engine agree on.
LEMMA NextTypes ==
    ASSUME TInv, [Next]_vars
    PROVE  /\ TInv'
           /\ Agreed(main, engine)
                => Agreed(main', engine') \/ engine.gen \in engine.timers
<1>1. CASE UserSteps /\ NamesLeft
  BY <1>1, UserTyped
<1>2. CASE EngineReceives /\ NamesLeft
  BY <1>2, EngineReceivesTyped
<1>3. CASE HandlerReceives /\ NamesLeft
  BY <1>3, HandlerReceivesTyped
<1>4. CASE NamesLeft /\ (PositionUpdate \/ PrepareDone \/ StopTimerFires)
  BY <1>4, EngineMovesTyped
<1>5. CASE NamesLeft /\ (RestTimerFires \/ WatchdogFires)
  <2>1. PICK m : main' = Settled(m) /\ Passes(Main, m) /\ UNCHANGED <<engine, scenario, commands>>
    <3>1. Passes(Main, WatchdogExpires(Main)) /\ \A t : Passes(Main, RestPlayed(Main, t))
      BY <1>5, Given, TimerPasses
    <3> QED BY <1>5, <3>1 DEF RestTimerFires, WatchdogFires, MainSteps
  <2>2. Fits(main') /\ (Stands(main) => Stands(main'))
    BY <1>5, <2>1, Given, MainTyped DEF Passes, Slips
  <2> QED BY <2>1, <2>2 DEF TInv, Agreed
<1>6. CASE UNCHANGED vars
  BY <1>6 DEF vars, TInv, Agreed
<1> QED
  BY <1>1, <1>2, <1>3, <1>4, <1>5, <1>6 DEF Next

\* The parts of the two records have their types, after any sequence of commands.
THEOREM HandoffTypes == Spec => []HandoffTypeOK
<1>1. Init => TInv
  BY InitTyped
<1>2. TInv /\ [Next]_vars => TInv'
  BY NextTypes
<1>3. TInv => HandoffTypeOK
  BY DEF TInv, HandoffTypeOK, Fits, Typed, EngineTyped, PlayType, StatusType, StreamType,
         ItemType, PreparedType, ArmedType, NullId
<1> QED
  BY <1>1, <1>2, <1>3, PTL DEF Spec

\* Nothing is heard while the player shows that it is stopped or paused: every
\* command, call, signal and timer that parts the two is followed by one that
\* brings them together, but for a stop that waits until the output has drained.
THEOREM NeverUnasked == Spec => NeverPlaysUnasked
<1> DEFINE A == Agreed(main, engine)
           W == engine.gen \in engine.timers
<1>1. Init => TInv /\ TransportAgrees
  BY InitTyped
<1>2. TInv /\ [Next]_vars => TInv'
  BY NextTypes
<1>3. TInv => (TransportAgrees <=> A)
  BY TransportMeans DEF TInv
<1>4. TInv /\ [Next]_vars => (A => A' \/ W)
  BY NextTypes
<1> HIDE DEF A, W
<1>5. Spec => TransportAgrees /\ [][TransportAgrees => TransportAgrees' \/ W]_vars
  BY <1>1, <1>2, <1>3, <1>4, PTL DEF Spec
<1> QED
  BY <1>5 DEF NeverPlaysUnasked, W

\* The engine leaves a track on its own only when its stream has drained or its
\* boundary has been signalled: an update of the position, the result of a
\* preparation and a timer go on to another track in no other case.
THEOREM EndsFirst == Spec => LeavesAtItsEnd
<1> DEFINE Ends == engine'.current # engine.current /\ UNCHANGED main
                     => \/ engine.stream = "drained"
                        \/ \E k \in DOMAIN engine'.out :
                              engine'.out[k].signal = "boundary" /\ engine'.out[k].gen = engine.gen
<1>1. Init => TInv
  BY InitTyped
<1>2. TInv /\ [Next]_vars => TInv'
  BY NextTypes
<1>3. ASSUME TInv, [Next]_vars
      PROVE  Ends
  <2> SUFFICES ASSUME engine'.current # engine.current, UNCHANGED main
               PROVE  \/ engine.stream = "drained"
                      \/ \E k \in DOMAIN engine'.out :
                              engine'.out[k].signal = "boundary" /\ engine'.out[k].gen = engine.gen
    OBVIOUS
  <2>1. NamesLeft
    BY <1>3 DEF Next, vars
  <2>2. ~EngineReceives
    <3> SUFFICES ASSUME EngineReceives PROVE FALSE
      OBVIOUS
    <3>1. main.out # <<>> /\ main' = [main EXCEPT !.out = Tail(@)] /\ IsSeq(main.out)
      BY <1>3 DEF EngineReceives, TInv, Fits, Typed, Calls
    <3>2. Len(Tail(main.out)) = Len(main.out) - 1 /\ Len(main.out) \in Nat
      BY <3>1, TailSeq
    <3>3. main'.out = Tail(main.out)
      BY <1>3, <3>1 DEF TInv, Fits, Typed, MainFields
    <3>4. Tail(main.out) = main.out
      BY <3>3
    <3>5. Len(main.out) = Len(main.out) - 1
      BY <3>2, <3>4
    <3> QED BY <3>2, <3>5
  <2>3. PICK e : engine' = Settled(e) /\ EngineTyped(e)
                 /\ (e.current = Engine.current \/ Leaves(Engine, e))
    <3>1. CASE PositionUpdate
      <4>1. PICK e \in Updates : EngineSteps(e)
        BY <3>1 DEF PositionUpdate
      <4>2. Runs(Engine, e) /\ Leaves(Engine, e)
        BY <1>3, <2>1, UpdateTyped
      <4> QED BY <4>1, <4>2 DEF EngineSteps, Runs
    <3>2. CASE PrepareDone
      <4>1. PICK how \in Hows, now \in Hows : EngineSteps(JobDone(Engine, how, now))
        BY <3>2 DEF PrepareDone, JobMayEnd
      <4>2. Runs(Engine, JobDone(Engine, how, now)) /\ Leaves(Engine, JobDone(Engine, how, now))
        BY <1>3, <2>1, Given, JobDoneTurns
      <4> QED BY <4>1, <4>2 DEF EngineSteps, Runs
    <3>3. CASE StopTimerFires
      <4>1. PICK gen \in engine.timers : EngineSteps(StopTimer(Engine, gen))
        BY <3>3 DEF StopTimerFires
      <4>2. Obeys(Engine, StopTimer(Engine, gen))
            /\ StopTimer(Engine, gen).current = Engine.current
        BY <1>3, <2>1, Given, StopTimerObeys
      <4> QED BY <4>1, <4>2 DEF EngineSteps, Obeys
    <3>4. CASE HandlerReceives
      <4>1. engine'.current = engine.current
        BY <1>3, <3>4 DEF HandlerReceives, TInv, EngineTyped, Shape, EngineFields
      <4> QED BY <4>1
    <3>5. CASE UserSteps \/ RestTimerFires \/ WatchdogFires \/ UNCHANGED vars
      <4>1. UNCHANGED engine
        BY <3>5 DEF UserSteps, UserPlayPause, UserStop, UserNext, UserSelect, UserEnqueue,
                    UserClearQueue, UserArm, Commanded, RestTimerFires, WatchdogFires,
                    MainSteps, vars
      <4> QED BY <4>1
    <3> QED BY <1>3, <2>2, <3>1, <3>2, <3>3, <3>4, <3>5 DEF Next
  <2>4. /\ engine'.current = e.current /\ engine'.out = e.out
        /\ DOMAIN e.out = 1 .. Len(e.out)
    <3>1. Keeps(e, engine', {"pool"})
      BY <2>3, SettledEngine
    <3>2. DOMAIN e.out = 1 .. Len(e.out)
      BY <2>3 DEF EngineTyped, Shape, SignalsOk, IsSeq
    <3> QED BY <3>1, <3>2 DEF Keeps, EngineFields
  <2>5. Engine.current = engine.current /\ Engine.stream = engine.stream
        /\ Engine.gen = engine.gen
    BY <1>3, <2>1, Given DEF Keeps, EngineFields
  <2> QED BY <2>3, <2>4, <2>5 DEF Leaves, Bounds
<1>4. TInv /\ [Next]_vars => [Ends]_vars
  BY <1>3
<1> HIDE DEF Ends
<1>5. Spec => [][Ends]_vars
  BY <1>1, <1>2, <1>4, PTL DEF Spec
<1> QED
  BY <1>5 DEF LeavesAtItsEnd, Ends
-----------------------------------------------------------------------------
(* What comes next, on both sides: the engine's part.                       *)

\* The end of the input has been noticed.
Late(e) == e.stream \in {"ended", "drained"}

\* A decoder takes over when the stream has drained, and nothing is prepared then.
Taken(e) ==
    e.armed.track # 0 /\ e.armed.adopted => e.stream = "drained" /\ e.prepared = NoPrepared

\* No signal is on its way that makes the player take another track over.
Settles(s) == s.signal = "committed" \/ (s.signal = "status" /\ s.status = "invalid")
Clear(out) == \A k \in 1 .. Len(out) : ~Settles(out[k])

\* A track that starts, or cannot be played.
Starts(r) == r.stream \in {"none", "body"} /\ (r.armed.track # 0 => ~r.armed.adopted)

\* A step that starts a track, or goes on with one and announces no other.
Rests(e, r) ==
    /\ Shape(r) /\ r.candidate \in {e.candidate, NoTrack}
    /\ \/ Starts(r)
       \/ /\ r.stream = e.stream
          /\ Taken(e) => Taken(r)
          /\ Clear(e.out) => Clear(r.out)

\* One step after another.
LEMMA RestsTwice ==
    ASSUME NEW e, NEW f, NEW r, Rests(e, f), Rests(f, r)
    PROVE  Rests(e, r)
<1>1. Shape(r) /\ r.candidate \in {e.candidate, NoTrack}
  BY DEF Rests
<1>2. CASE Starts(r)
  BY <1>1, <1>2 DEF Rests
<1>3. CASE ~Starts(r) /\ Starts(f)
  BY <1>3 DEF Rests, Starts, Taken
<1>4. CASE ~Starts(r) /\ ~Starts(f)
  BY <1>1, <1>4 DEF Rests
<1> QED
  BY <1>2, <1>3, <1>4

\* A step that touches neither the stream nor what follows it.
LEMMA SilentRests ==
    ASSUME NEW e, NEW r,
           Keeps(e, r, EngineFields \ {"stream", "candidate", "prepared", "armed", "out"})
    PROVE  Rests(e, r)
<1>1. /\ r.stream = e.stream /\ r.candidate = e.candidate /\ r.prepared = e.prepared
      /\ r.armed = e.armed /\ r.out = e.out /\ Shape(r)
  BY DEF Keeps, EngineFields
<1> QED
  BY <1>1 DEF Rests, Taken

\* A signal, with fields that do not matter here.
LEMMA EmitRests ==
    ASSUME NEW e, NEW s, Shape(e), SignalOk(s), ~Settles(s)
    PROVE  Rests(e, Emit(e, s))
<1> DEFINE r == Emit(e, s)
<1>1. Keeps(e, r, {"out"}) /\ r.out = Append(e.out, s)
  BY EmitKeeps DEF Emit, Shape, EngineFields
<1>2. /\ Len(r.out) = Len(e.out) + 1 /\ Len(e.out) \in Nat /\ r.out[Len(e.out) + 1] = s
      /\ \A k \in 1 .. Len(e.out) : r.out[k] = e.out[k]
  BY <1>1, AppendSeq DEF Shape, SignalsOk
<1> HIDE DEF r
<1>3. ASSUME Clear(e.out), NEW k \in 1 .. Len(r.out)
      PROVE  ~Settles(r.out[k])
  <2>1. k = Len(e.out) + 1 \/ k \in 1 .. Len(e.out)
    BY <1>2
  <2> QED BY <1>2, <1>3, <2>1 DEF Clear
<1>4. /\ r.stream = e.stream /\ r.candidate = e.candidate /\ r.prepared = e.prepared
      /\ r.armed = e.armed /\ Shape(r)
  BY <1>1 DEF Keeps, EngineFields
<1>5. Rests(e, r)
  BY <1>3, <1>4 DEF Rests, Taken, Clear
<1> QED
  BY <1>5 DEF r

\* The status and the state of playback are signalled.
LEMMA StatusRests ==
    ASSUME NEW e, NEW status, Shape(e), status \in {"none", "end"}
    PROVE  Rests(e, SetStatus(e, status))
<1> DEFINE c      == [e EXCEPT !.status = status]
           signal == [signal |-> "status", status |-> status, track |-> e.current.track,
                      gen |-> e.gen]
<1>1. Keeps(e, e, {})
  BY DEF Keeps
<1>2. Keeps(e, c, {"status"})
  BY DEF Keeps, Shape, EngineFields
<1>3. SignalOk(signal) /\ ~Settles(signal)
  BY DEF SignalOk, Settles
<1>4. SetStatus(e, status) \in {e, Emit(c, signal)}
  BY DEF SetStatus
<1> HIDE DEF c, signal
<1>5. Rests(e, e) /\ Rests(e, c)
  <2>1. \A r : Keeps(e, r, {}) \/ Keeps(e, r, {"status"}) =>
               Keeps(e, r, EngineFields \ {"stream", "candidate", "prepared", "armed", "out"})
    BY DEF Keeps, EngineFields
  <2> QED BY <1>1, <1>2, <2>1, SilentRests
<1>6. Rests(c, Emit(c, signal))
  BY <1>2, <1>3, EmitRests DEF Keeps
<1> QED
  BY <1>4, <1>5, <1>6, RestsTwice

LEMMA PlaybackRests ==
    ASSUME NEW e, NEW p, Shape(e), p \in PlayType
    PROVE  Rests(e, SetPlayback(e, p))
<1> DEFINE c      == [e EXCEPT !.playback = p]
           signal == [signal |-> "state", play |-> p]
<1>1. Keeps(e, e, {})
  BY DEF Keeps
<1>2. Keeps(e, c, {"playback"})
  BY DEF Keeps, Shape, EngineFields
<1>3. SignalOk(signal) /\ ~Settles(signal)
  BY DEF SignalOk, Settles, PlayType
<1>4. SetPlayback(e, p) \in {e, Emit(c, signal)}
  BY DEF SetPlayback
<1> HIDE DEF c, signal
<1>5. Rests(e, e) /\ Rests(e, c)
  <2>1. \A r : Keeps(e, r, {}) \/ Keeps(e, r, {"playback"}) =>
               Keeps(e, r, EngineFields \ {"stream", "candidate", "prepared", "armed", "out"})
    BY DEF Keeps, EngineFields
  <2> QED BY <1>1, <1>2, <2>1, SilentRests
<1>6. Rests(c, Emit(c, signal))
  BY <1>2, <1>3, EmitRests DEF Keeps
<1> QED
  BY <1>4, <1>5, <1>6, RestsTwice

\* A step that may give up what is prepared and attached, or attach it anew, but
\* hands nothing over.
LEMMA PreparedRests ==
    ASSUME NEW e, NEW r, Keeps(e, r, EngineFields \ {"stream", "candidate", "out"}),
           \/ r.armed.track # 0 => ~r.armed.adopted
           \/ r.armed = e.armed /\ r.prepared = e.prepared
    PROVE  Rests(e, r)
<1>1. r.stream = e.stream /\ r.candidate = e.candidate /\ r.out = e.out /\ Shape(r)
  BY DEF Keeps, EngineFields
<1> QED
  BY <1>1 DEF Rests, Taken

\* What is prepared for another track is given up; nothing that has taken over
\* stays attached.
LEMMA EnsurePreparedTaken ==
    ASSUME NEW e, NEW item, Shape(e), Taken(e)
    PROVE  LET r == EnsurePrepared(e, item)
           IN  r.armed.track # 0 => ~r.armed.adopted
BY EnsurePreparedKeeps DEF Taken, NoGapless

\* A load starts a track.
LEMMA LoadStarts ==
    ASSUME NEW e, NEW item, NEW manual, NEW opens, Shape(e), Taken(e) \/ (~manual /\ opens)
    PROVE  Rests(e, Load(e, item, manual, opens)) /\ Starts(Load(e, item, manual, opens))
<1> DEFINE disarmed == IF manual THEN Disarm(e) ELSE EnsurePrepared(DisarmStale(e, item.track), item)
           set      == SetContext(disarmed, item)
           context  == [set EXCEPT !.ended = FALSE]
           begun    == [context EXCEPT !.status = "ok", !.stream = "none"]
           signal   == [signal |-> "status", status |-> "loading", track |-> item.track,
                        gen |-> context.gen]
           loading  == Emit(begun, signal)
           adopts   == Same(loading.prepared, item) /\ (loading.prepared.fits \/ manual)
           adopted  == IF Same(loading.prepared, item) THEN ClearPrepared(loading) ELSE loading
           ending   == ClearEnding(adopted)
           played   == [ending EXCEPT !.stream = "body"]
           r        == Load(e, item, manual, opens)
<1>1. r = IF adopts \/ opens THEN Committed(played) ELSE SetStatus(loading, "invalid")
  BY DEF Load
<1>l. Loaded(e, r, manual, opens)
  BY LoadKeeps
<1>2. /\ Keeps(e, disarmed, {"prepared", "armed", "job"})
      /\ Taken(e) => (disarmed.armed.track # 0 => ~disarmed.armed.adopted)
  <2>1. CASE manual
    BY <2>1, DisarmKeeps DEF Keeps
  <2>2. CASE ~manual
    <3> DEFINE stale == DisarmStale(e, item.track)
    <3>1. Keeps(e, stale, {"prepared", "armed"}) /\ (stale = e \/ stale.armed.track = 0)
      BY DisarmStaleKeeps
    <3>2. disarmed = EnsurePrepared(stale, item)
      BY <2>2
    <3> HIDE DEF stale, disarmed
    <3>3. Taken(e) => Taken(stale)
      BY <3>1 DEF Taken
    <3>4. Keeps(stale, disarmed, {"prepared", "armed", "job"})
      BY <3>1, <3>2, EnsurePreparedKeeps DEF Keeps
    <3> QED
      BY <3>1, <3>2, <3>3, <3>4, EnsurePreparedTaken DEF Keeps, EngineFields
  <2> QED
    BY <2>1, <2>2
<1> HIDE DEF disarmed
<1>3. Keeps(disarmed, set, {"current", "gen", "pool"} \cup Advance)
  BY <1>2, SetContextKeeps DEF Keeps
<1> HIDE DEF set
<1>4. /\ Keeps(set, begun, {"ended", "status", "stream"})
      /\ begun.stream = "none"
  BY <1>3 DEF Keeps, Shape, EngineFields
<1>5. SignalOk(signal)
  BY DEF SignalOk
<1> HIDE DEF begun, signal
<1>6. Keeps(begun, loading, {"out"})
  BY <1>4, <1>5, EmitKeeps DEF Keeps
<1> HIDE DEF loading
<1>7. Shape(loading) /\ loading.armed = disarmed.armed /\ loading.stream = "none"
  BY <1>2, <1>3, <1>4, <1>6 DEF Keeps, EngineFields, Advance
<1>8. CASE adopts \/ opens
  <2>1. Keeps(loading, adopted, {"prepared", "armed"}) /\ adopted.armed \in {loading.armed, NoGapless}
    BY <1>7, ClearPreparedKeeps DEF Keeps
  <2> HIDE DEF adopted
  <2>2. Keeps(adopted, ending, {"live", "latched", "ended"})
    BY <2>1, ClearEndingKeeps DEF Keeps
  <2> HIDE DEF ending
  <2>3. Keeps(ending, played, {"stream"}) /\ played.stream = "body"
    BY <2>2 DEF Keeps, Shape, EngineFields
  <2> HIDE DEF played
  <2>4. Keeps(played, r, {"candidate", "out"} \cup Advance)
    BY <1>1, <1>8, <2>3, CommittedKeeps, ZenonT(30) DEF Keeps
  <2> HIDE DEF r
  <2>5. r.stream = "body" /\ r.armed \in {disarmed.armed, NoGapless}
    BY <1>7, <2>1, <2>2, <2>3, <2>4 DEF Keeps, EngineFields, Advance
  <2>6. Starts(r)
    BY <1>2, <1>l, <2>5 DEF Starts, Loaded, NoGapless
  <2> QED
    BY <1>l, <2>6 DEF r, Rests, Loaded
<1>9. CASE ~(adopts \/ opens)
  <2>1. Keeps(loading, r, {"out", "status"})
    BY <1>1, <1>7, <1>9, SetStatusKeeps DEF Keeps
  <2> HIDE DEF r
  <2>2. r.stream = "none" /\ r.armed = disarmed.armed
    BY <1>7, <2>1 DEF Keeps, EngineFields
  <2>3. Starts(r)
    BY <1>2, <1>9, <2>2 DEF Starts
  <2> QED
    BY <1>l, <2>3 DEF r, Rests, Loaded
<1> QED
  BY <1>8, <1>9

\* So does a hand-over.
LEMMA CommitGaplessStarts ==
    ASSUME NEW e, NEW target, Shape(e)
    PROVE  Rests(e, CommitGapless(e, target)) /\ Starts(CommitGapless(e, target))
<1> DEFINE staged  == Stage(e)
           next    == SetContext(staged, target)
           ending  == ClearEnding(next)
           played  == [ending EXCEPT !.stream = "body", !.status = "ok"]
           told    == Committed(played)
           r       == CommitGapless(e, target)
<1>1. r = [told EXCEPT !.armed = NoGapless]
  BY DEF CommitGapless
<1>2. Keeps(e, staged, {"prepared", "armed"})
  BY StageKeeps
<1> HIDE DEF staged
<1>3. Keeps(staged, next, {"current", "gen", "pool"} \cup Advance)
  BY <1>2, SetContextKeeps DEF Keeps
<1> HIDE DEF next
<1>4. Keeps(next, ending, {"live", "latched", "ended"})
  BY <1>3, ClearEndingKeeps DEF Keeps
<1> HIDE DEF ending
<1>5. Keeps(ending, played, {"stream", "status"}) /\ played.stream = "body"
  BY <1>4 DEF Keeps, Shape, EngineFields
<1> HIDE DEF played
<1>6. /\ Keeps(played, told, {"candidate", "out"} \cup Advance)
      /\ told.candidate \in {played.candidate, NoTrack}
  BY <1>5, CommittedKeeps DEF Keeps
<1> HIDE DEF told
<1>7. Keeps(told, r, {"armed"}) /\ r.armed = NoGapless
  BY <1>1, <1>6 DEF Keeps, Shape, EngineFields, NoGapless
<1> HIDE DEF r
<1>8. /\ Shape(r) /\ r.candidate \in {e.candidate, NoTrack} /\ r.stream = "body"
  BY <1>2, <1>3, <1>4, <1>5, <1>6, <1>7 DEF Keeps, EngineFields, Advance
<1>9. Rests(e, r) /\ Starts(r)
  BY <1>7, <1>8 DEF Rests, Starts, NoGapless
<1> QED
  BY <1>9 DEF r

LEMMA ArmRests ==
    ASSUME NEW e, NEW target, Shape(e)
    PROVE  Rests(e, Arm(e, target))
<1> DEFINE stale == DisarmStale(e, target.track)
           r     == Arm(e, target)
<1>1. /\ Keeps(e, stale, {"prepared", "armed"})
      /\ stale = e \/ stale.armed.track = 0
  BY DisarmStaleKeeps
<1>2. r \in {stale, [stale EXCEPT !.armed = [track |-> target.track, item |-> target.item,
                                             gen |-> stale.gen, adopted |-> FALSE]]}
  BY DEF Arm
<1> HIDE DEF stale
<1>3. CASE r = stale
  <2>1. Keeps(e, r, EngineFields \ {"stream", "candidate", "out"})
    BY <1>1, <1>3 DEF Keeps, EngineFields
  <2> QED BY <1>1, <1>3, <2>1, PreparedRests
<1>4. CASE r # stale
  <2>1. Keeps(stale, r, {"armed"}) /\ r.armed.adopted = FALSE
    BY <1>1, <1>2, <1>4 DEF Keeps, Shape, EngineFields
  <2> HIDE DEF r
  <2>2. Keeps(e, r, EngineFields \ {"stream", "candidate", "out"})
    BY <1>1, <2>1 DEF Keeps, EngineFields
  <2> QED BY <2>1, <2>2, PreparedRests DEF r
<1> QED
  BY <1>3, <1>4

\* The engine goes on to the next track.
LEMMA AdvanceToStarts ==
    ASSUME NEW e, NEW target, NEW how, Shape(e), Taken(e) \/ how # "failed"
    PROVE  Rests(e, AdvanceTo(e, target, how)) /\ Starts(AdvanceTo(e, target, how))
<1> DEFINE opens == how # "failed"
<1>1. AdvanceTo(e, target, how) \in {CommitGapless(e, target), Load(e, target, FALSE, opens)}
  BY DEF AdvanceTo
<1>2. Taken(e) \/ opens
  OBVIOUS
<1> HIDE DEF opens
<1> QED
  BY <1>1, <1>2, CommitGaplessStarts, LoadStarts

\* A track that is prepared at once is loaded then, if it is not handed over to.
LEMMA PrepareAtOnceRests ==
    ASSUME NEW e, NEW target, NEW how, Shape(e)
    PROVE  LET r == PrepareAtOnce(e, target, how)
           IN  Shape(r) /\ r.candidate = e.candidate /\ r.stream = e.stream /\ r.out = e.out
               /\ (how = "failed" => Taken(r))
<1> DEFINE idle == [e EXCEPT !.requested = FALSE, !.job = IF e.requested THEN NoTrack ELSE @]
           held == [idle EXCEPT !.prepared = [track |-> target.track, item |-> target.item,
                                              fits |-> how = "fits"]]
           r    == PrepareAtOnce(e, target, how)
<1>1. Keeps(e, idle, {"requested", "job"})
  BY DEF Keeps, Shape, EngineFields
<1>2. r = IF how = "failed" THEN ClearPrepared(idle) ELSE Arm(held, target)
  BY DEF PrepareAtOnce
<1> HIDE DEF idle
<1>3. CASE how = "failed"
  <2>1. Keeps(idle, r, {"prepared", "armed"}) /\ r.armed = NoGapless
    BY <1>1, <1>2, <1>3, ClearPreparedKeeps DEF Keeps
  <2> HIDE DEF r
  <2>2. Shape(r) /\ r.candidate = e.candidate /\ r.stream = e.stream /\ r.out = e.out
    BY <1>1, <2>1 DEF Keeps, EngineFields
  <2> QED BY <2>1, <2>2 DEF r, Taken, NoGapless
<1>4. CASE how # "failed"
  <2>1. Keeps(idle, held, {"prepared"})
    BY <1>1 DEF Keeps, Shape, EngineFields
  <2> HIDE DEF held
  <2>2. Keeps(held, r, {"prepared", "armed"})
    BY <1>2, <1>4, <2>1, ArmKeeps DEF Keeps
  <2> HIDE DEF r
  <2>3. Shape(r) /\ r.candidate = e.candidate /\ r.stream = e.stream /\ r.out = e.out
    BY <1>1, <2>1, <2>2 DEF Keeps, EngineFields
  <2> QED BY <1>4, <2>3 DEF r
<1> QED
  BY <1>3, <1>4

\* An automatic change of track starts one or does nothing.
LEMMA TryAutoAdvanceRests ==
    ASSUME NEW e, NEW how, Shape(e), Taken(e)
    PROVE  Rests(e, TryAutoAdvance(e, how))
<1> DEFINE target   == AdvanceTarget(e)
           attached == Arm(e, target)
           r        == TryAutoAdvance(e, how)
<1>1. r = IF target.track = 0 \/ ~Effective(e) THEN e ELSE AdvanceArmed(attached, target, how)
  BY DEF TryAutoAdvance, AutoAdvance
<1> HIDE DEF target
<1>2. CASE r = e
  BY <1>2 DEF Rests
<1>3. CASE r = AdvanceArmed(attached, target, how)
  <2>1. Rests(e, attached) /\ Shape(attached)
    BY ArmRests DEF Rests
  <2>2. Taken(attached)
    BY <2>1 DEF Rests, Starts, Taken
  <2> HIDE DEF attached
  <2> DEFINE once == PrepareAtOnce(attached, target, how)
  <2>3. \/ r = attached
        \/ r = AdvanceTo(attached, target, how)
        \/ r = AdvanceTo(once, target, how)
    BY <1>3 DEF AdvanceArmed
  <2>4. /\ Shape(once) /\ once.candidate = attached.candidate /\ once.stream = attached.stream
        /\ once.out = attached.out
        /\ Taken(once) \/ how # "failed"
    BY <2>1, PrepareAtOnceRests
  <2> HIDE DEF once, r
  <2>5. CASE r = attached
    BY <2>1, <2>5 DEF r
  <2>6. CASE r = AdvanceTo(attached, target, how)
    BY <2>1, <2>2, <2>6, AdvanceToStarts, RestsTwice DEF r
  <2>7. CASE r = AdvanceTo(once, target, how)
    <3>1. Rests(once, r) /\ Starts(r)
      BY <2>4, <2>7, AdvanceToStarts
    <3> QED BY <2>1, <2>4, <3>1 DEF Rests, r
  <2> QED BY <2>3, <2>5, <2>6, <2>7
<1> QED
  BY <1>1, <1>2, <1>3

\* The handler is told that a track is not ready.
LEMMA UnreadyRests ==
    ASSUME NEW e, NEW item, Shape(e)
    PROVE  Rests(e, Unready(e, item)) /\ Unready(e, item).armed = e.armed
<1> DEFINE s == [signal |-> "unready", track |-> item.track, item |-> item.item]
<1>1. SignalOk(s) /\ ~Settles(s)
  BY DEF SignalOk, Settles
<1>2. Unready(e, item) = Emit(e, s)
  BY DEF Unready
<1> HIDE DEF s
<1>3. Keeps(e, Unready(e, item), {"out"})
  BY UnreadyKeeps
<1> QED
  BY <1>1, <1>2, <1>3, EmitRests DEF Keeps, EngineFields

\* The result of a preparation: nothing is attached while one runs.
LEMMA JobDoneRests ==
    ASSUME NEW e, NEW how, NEW now, Sound(e), e.job.track # 0
    PROVE  Rests(e, JobDone(e, how, now))
<1> DEFINE idle    == CancelJobs(e)
           applied == IF how = "failed" THEN ClearPrepared(idle)
                      ELSE [idle EXCEPT !.prepared = [track |-> e.job.track, item |-> e.job.item,
                                                      fits |-> how = "fits"]]
           told    == IF Eligible(applied) THEN applied ELSE Unready(applied, e.job)
           asked   == [told EXCEPT !.requested = FALSE]
           r       == JobDone(e, how, now)
<1>1. r = IF Same(e.job, e.candidate) THEN TryAutoAdvance(asked, now) ELSE told
  BY DEF JobDone
<1>2. Keeps(e, idle, {"job"})
  BY CancelJobsKeeps DEF Sound
<1> HIDE DEF idle
<1>3. /\ Keeps(idle, applied, {"prepared", "armed"})
      /\ applied.armed \in {idle.armed, NoGapless}
  <2>1. CASE how = "failed"
    BY <1>2, <2>1, ClearPreparedKeeps DEF Keeps
  <2>2. CASE how # "failed"
    BY <1>2, <2>2 DEF Keeps, Shape, EngineFields
  <2> QED
    BY <2>1, <2>2
<1> HIDE DEF applied
<1>4. applied.armed.track = 0
  BY <1>2, <1>3 DEF Sound, Held, NoGapless, Keeps, EngineFields
<1>5. Keeps(e, applied, EngineFields \ {"stream", "candidate", "out"})
  BY <1>2, <1>3 DEF Keeps, EngineFields
<1>6. Rests(e, applied)
  BY <1>4, <1>5, PreparedRests
<1>t. Rests(e, told) /\ told.armed = applied.armed
  <2>1. Rests(applied, applied)
    BY <1>6 DEF Rests
  <2>2. Rests(applied, told) /\ told.armed = applied.armed
    BY <1>6, <2>1, UnreadyRests DEF Rests
  <2> HIDE DEF told
  <2> QED BY <1>6, <2>2, RestsTwice
<1> HIDE DEF told
<1>7. Keeps(told, asked, {"requested"})
  BY <1>t DEF Rests, Keeps, Shape, EngineFields
<1> HIDE DEF asked
<1>8. Rests(told, asked) /\ Taken(asked) /\ Shape(asked)
  <2>1. Keeps(told, asked, EngineFields \ {"stream", "candidate", "prepared", "armed", "out"})
    BY <1>7 DEF Keeps, EngineFields
  <2> QED BY <1>4, <1>7, <1>t, <2>1, SilentRests DEF Taken, Keeps, EngineFields
<1>9. Rests(e, TryAutoAdvance(asked, now))
  BY <1>t, <1>8, TryAutoAdvanceRests, RestsTwice
<1> QED
  BY <1>1, <1>t, <1>9

-----------------------------------------------------------------------------
(* The end of a track.                                                      *)

LEMMA PrepareForDrainRests ==
    ASSUME NEW e, Shape(e)
    PROVE  Rests(e, PrepareForDrain(e))
<1> DEFINE kept    == [e EXCEPT !.mode = TRUE]
           cleared == ClearPrepared(kept)
           new     == [cleared EXCEPT !.requested = TRUE, !.job = e.candidate]
<1>1. PrepareForDrain(e) \in {e, kept, new}
  BY DEF PrepareForDrain
<1>2. Keeps(e, kept, {"mode"})
  BY DEF Keeps, Shape, EngineFields
<1> HIDE DEF kept
<1>3. Keeps(kept, cleared, {"prepared", "armed"}) /\ cleared.armed = NoGapless
  BY <1>2, ClearPreparedKeeps DEF Keeps
<1> HIDE DEF cleared
<1>4. Keeps(cleared, new, {"requested", "job"})
  BY <1>3 DEF Keeps, Shape, EngineFields
<1> HIDE DEF new
<1>5. Rests(e, e)
  BY DEF Rests
<1>6. Rests(e, kept)
  <2>1. Keeps(e, kept, EngineFields \ {"stream", "candidate", "prepared", "armed", "out"})
    BY <1>2 DEF Keeps, EngineFields
  <2> QED BY <2>1, SilentRests
<1>7. Rests(e, new)
  <2>1. Keeps(e, new, EngineFields \ {"stream", "candidate", "out"}) /\ new.armed = NoGapless
    BY <1>2, <1>3, <1>4 DEF Keeps, EngineFields
  <2> QED BY <2>1, PreparedRests DEF NoGapless
<1> QED
  BY <1>1, <1>5, <1>6, <1>7

\* The end of the input, or of what was to be played, is noticed.
LEMMA ReachRests ==
    ASSUME NEW e, NEW stream, Shape(e), Taken(e), e.stream = "drained" => stream = "drained"
    PROVE  LET r == Reach(e, stream)
           IN  /\ Shape(r) /\ Taken(r) /\ r.stream = stream /\ r.candidate = e.candidate
               /\ r.out = e.out
<1> DEFINE live == IF stream = "drained" THEN FALSE
                   ELSE e.live \/ (e.stream = "body" /\ stream = "ended" /\ Configured(e))
           mode == e.mode \/ e.live \/ live
           r    == Reach(e, stream)
<1>1. r = [e EXCEPT !.stream = stream, !.live = live, !.latched = @ \/ stream = "drained",
                    !.mode = mode]
  BY DEF Reach
<1> HIDE DEF live, mode
<1>2. Keeps(e, r, {"stream", "live", "latched", "mode"}) /\ r.stream = stream
  BY <1>1 DEF Keeps, Shape, EngineFields
<1> HIDE DEF r
<1>3. /\ Shape(r) /\ Taken(r) /\ r.stream = stream /\ r.candidate = e.candidate
      /\ r.out = e.out
  BY <1>2 DEF Keeps, EngineFields, Taken
<1> QED
  BY <1>3 DEF r

\* The next decoder takes over.
LEMMA StageDrainedRests ==
    ASSUME NEW e, Shape(e)
    PROVE  Rests(e, StageDrained(e))
<1>1. CASE StageDrained(e) = e
  BY <1>1 DEF Rests
<1>2. CASE StageDrained(e) = Stage(e) /\ e.stream = "drained"
  <2>1. /\ Keeps(e, Stage(e), {"prepared", "armed"})
        /\ ~e.armed.adopted => Stage(e).prepared = NoPrepared
        /\ e.armed.adopted => Stage(e) = e
        /\ Stage(e).armed.track = e.armed.track
    BY StageKeeps
  <2>2. /\ Shape(Stage(e)) /\ Stage(e).stream = e.stream /\ Stage(e).candidate = e.candidate
        /\ Stage(e).out = e.out
    BY <2>1 DEF Keeps, EngineFields
  <2>3. Taken(e) => Taken(Stage(e))
    BY <1>2, <2>1, <2>2 DEF Taken
  <2> QED BY <1>2, <2>2, <2>3 DEF Rests
<1> QED
  BY <1>1, <1>2 DEF StageDrained

LEMMA SignalBoundaryRests ==
    ASSUME NEW e, NEW rendered, NEW rest, NEW how, Shape(e), Taken(e)
    PROVE  Rests(e, SignalBoundary(e, rendered, rest, how))
<1> DEFINE owned     == IsArmed(e) /\ ~rendered
           signal    == [signal |-> "boundary", track |-> e.current.track, gen |-> e.gen,
                         rest |-> rest /\ ~owned /\ ~rendered, owned |-> owned]
           passed    == [e EXCEPT !.waiting = FALSE, !.anchor = TRUE]
           signalled == Emit(passed, signal)
<1>1. SignalBoundary(e, rendered, rest, how)
        = IF owned THEN signalled ELSE TryAutoAdvance(signalled, how)
  BY DEF SignalBoundary
<1>2. Keeps(e, passed, {"waiting", "anchor"})
  BY DEF Keeps, Shape, EngineFields
<1>3. SignalOk(signal) /\ ~Settles(signal)
  BY DEF SignalOk, Settles
<1> HIDE DEF passed, signal, owned
<1>4. Rests(e, passed) /\ Taken(passed) /\ Shape(passed)
  <2>1. Keeps(e, passed, EngineFields \ {"stream", "candidate", "prepared", "armed", "out"})
    BY <1>2 DEF Keeps, EngineFields
  <2>2. Rests(e, passed)
    BY <2>1, SilentRests
  <2>3. Taken(passed)
    BY <1>2 DEF Taken, Keeps, EngineFields
  <2> QED BY <2>2, <2>3 DEF Rests
<1>5. Rests(passed, signalled) /\ Shape(signalled)
  BY <1>3, <1>4, EmitRests DEF Rests
<1> HIDE DEF signalled
<1>6. Taken(signalled)
  BY <1>4, <1>5 DEF Rests, Starts, Taken
<1>7. Rests(signalled, TryAutoAdvance(signalled, how))
  BY <1>5, <1>6, TryAutoAdvanceRests
<1>8. Rests(e, signalled) /\ Rests(e, TryAutoAdvance(signalled, how))
  BY <1>4, <1>5, <1>7, RestsTwice
<1> QED
  BY <1>1, <1>8

\* One update of the position.
LEMMA CheckEndingRests ==
    ASSUME NEW e, NEW stream, NEW heard, NEW rendered, NEW rest, NEW how, Shape(e), Taken(e),
           e.stream = "drained" => stream = "drained"
    PROVE  LET r == CheckEnding(e, stream, heard, rendered, rest, how)
               s == Reach(e, stream)
           IN  \/ r = e
               \/ /\ Shape(s) /\ Taken(s) /\ s.candidate = e.candidate /\ s.stream = stream
                  /\ s.out = e.out
                  /\ Rests(s, r)
<1> DEFINE a == Reach(e, stream)
           b == PrepareForDrain(a)
           c == StageDrained(b)
           d == Release(c, rendered, how)
           p == PassBoundary(d, e, heard, rendered, rest, how)
           q == EndUnlessFollowed(p, e)
           r == CheckEnding(e, stream, heard, rendered, rest, how)
<1>1. r = IF stream = "body" THEN e ELSE q
  BY DEF CheckEnding
<1>2. /\ Shape(a) /\ Taken(a) /\ a.stream = stream /\ a.candidate = e.candidate
      /\ a.out = e.out
  BY ReachRests
<1>k. ASSUME NEW f, NEW g, Taken(f), Rests(f, g)
      PROVE  Taken(g) /\ Shape(g)
  BY <1>k DEF Rests, Starts, Taken
<1>3. Rests(a, b)
  BY <1>2, PrepareForDrainRests
<1> HIDE DEF a, b
<1>4. Rests(b, c)
  BY <1>2, <1>3, <1>k, StageDrainedRests
<1>5. Rests(a, c) /\ Taken(c) /\ Shape(c)
  BY <1>2, <1>3, <1>4, <1>k, RestsTwice
<1> HIDE DEF c
<1>6. Rests(c, d)
  <2>1. d \in {c, TryAutoAdvance(c, how)}
    BY DEF Release
  <2>2. Rests(c, c)
    BY <1>5 DEF Rests
  <2> QED BY <1>5, <2>1, <2>2, TryAutoAdvanceRests
<1>7. Rests(a, d) /\ Taken(d) /\ Shape(d)
  BY <1>5, <1>6, <1>k, RestsTwice
<1> HIDE DEF d
<1>8. Rests(d, p)
  <2> DEFINE w == [d EXCEPT !.waiting = TRUE]
  <2>1. p \in {d, w, SignalBoundary(d, rendered, rest, how)}
    BY DEF PassBoundary
  <2>2. Rests(d, d)
    BY <1>7 DEF Rests
  <2>3. Keeps(d, w, EngineFields \ {"stream", "candidate", "prepared", "armed", "out"})
    BY <1>7 DEF Keeps, Shape, EngineFields
  <2> HIDE DEF w
  <2> QED BY <1>7, <2>1, <2>2, <2>3, SilentRests, SignalBoundaryRests
<1>9. Rests(a, p) /\ Shape(p)
  BY <1>7, <1>8, <1>k, RestsTwice
<1> HIDE DEF p
<1>10. Rests(p, q)
  <2> DEFINE w == [p EXCEPT !.ended = TRUE]
  <2>1. q \in {p, SetStatus(w, "end")}
    BY DEF EndUnlessFollowed, SignalEnd
  <2>2. Rests(p, p)
    BY <1>9 DEF Rests
  <2>3. Keeps(p, w, EngineFields \ {"stream", "candidate", "prepared", "armed", "out"})
    BY <1>9 DEF Keeps, Shape, EngineFields
  <2> HIDE DEF w
  <2>4. Rests(p, w) /\ Rests(w, SetStatus(w, "end"))
    BY <2>3, SilentRests, StatusRests DEF Keeps
  <2> QED BY <2>1, <2>2, <2>4, RestsTwice
<1>11. Rests(a, q)
  BY <1>9, <1>10, RestsTwice
<1> HIDE DEF q, r
<1> QED
  BY <1>1, <1>2, <1>11 DEF r, a

-----------------------------------------------------------------------------
(* What comes next, on both sides: the calls on their way.                  *)

SwitchesOff(c) == c.call = "auto" /\ ~c.on

\* Some call of those from i to k switches automatic changes off.
Break(out, i, k) == \E n \in i .. k : SwitchesOff(out[n])

(***************************************************************************)
(* Once the end of the input has been noticed, the engine may ignore a        *)
(* candidate, and keep the one it has. None of those on their way names        *)
(* another track then than the ones before it, unless automatic changes were  *)
(* switched off between them, which the engine never ignores.                  *)
(***************************************************************************)
Follows(out, c) ==
    /\ \A j, k \in Candidates(out) :
           j < k => out[j].item.item \in {0, out[k].item.item} \/ Break(out, j, k)
    /\ \A k \in Candidates(out) : c.item \in {0, out[k].item.item} \/ Break(out, 1, k)

\* The same, of a track that would be announced now.
Ready(out, c, id) ==
    /\ \A k \in Candidates(out) : out[k].item.item \in {0, id} \/ Break(out, k, Len(out))
    /\ c.item \in {0, id} \/ Break(out, 1, Len(out))

-----------------------------------------------------------------------------
(* The calls of the handler, as far as the next track is concerned.         *)

\* The engine stops: nothing is left of the track and of what follows it.
LEMMA StopImmediateRests ==
    ASSUME NEW e, Shape(e)
    PROVE  Rests(e, StopImmediate(e))
<1> DEFINE bare == [e EXCEPT !.candidate = NoTrack, !.stream = "none"]
           e1   == ClearAdvance(bare)
           e2   == ClearEnding(e1)
           e3   == ClearPrepared(e2)
           e4   == CancelJobs(e3)
           e5   == SetPlayback(e4, "stopped")
           r    == SetStatus(e5, "none")
<1>1. StopImmediate(e) = r
  BY DEF StopImmediate
<1>2. /\ Keeps(e, bare, {"candidate", "stream"})
      /\ bare.candidate = NoTrack /\ bare.stream = "none"
  BY DEF Keeps, Shape, EngineFields
<1> HIDE DEF bare
<1>3. Keeps(bare, e1, Advance)
  BY <1>2, ClearAdvanceKeeps DEF Keeps
<1> HIDE DEF e1
<1>4. Keeps(e1, e2, {"live", "latched", "ended"})
  BY <1>3, ClearEndingKeeps DEF Keeps
<1> HIDE DEF e2
<1>5. Keeps(e2, e3, {"prepared", "armed"}) /\ e3.armed = NoGapless
  BY <1>4, ClearPreparedKeeps DEF Keeps
<1> HIDE DEF e3
<1>6. Keeps(e3, e4, {"job"})
  BY <1>5, CancelJobsKeeps DEF Keeps
<1> HIDE DEF e4
<1>7. Keeps(e4, e5, {"out", "playback"})
  BY <1>6, SetPlaybackKeeps DEF Keeps
<1> HIDE DEF e5
<1>8. Keeps(e5, r, {"out", "status"})
  BY <1>7, SetStatusKeeps DEF Keeps
<1> HIDE DEF r
<1>9. Shape(r) /\ r.candidate = NoTrack /\ r.stream = "none" /\ r.armed = NoGapless
  BY <1>2, <1>3, <1>4, <1>5, <1>6, <1>7, <1>8 DEF Keeps, EngineFields, Advance
<1> QED
  BY <1>1, <1>9 DEF Rests, Starts, NoGapless

\* A call to stop, and its timer.
LEMMA StopRests ==
    ASSUME NEW e, Shape(e)
    PROVE  /\ \A rest : Rests(e, StopEngine(e, rest))
           /\ \A gen : Rests(e, StopTimer(e, gen))
<1>1. ASSUME NEW r, Keeps(e, r, {"timers"})
      PROVE  Rests(e, r) /\ Shape(r)
  <2>1. Keeps(e, r, EngineFields \ {"stream", "candidate", "prepared", "armed", "out"})
    BY <1>1 DEF Keeps, EngineFields
  <2> QED BY <2>1, SilentRests DEF Keeps
<1>2. ASSUME NEW rest
      PROVE  Rests(e, StopEngine(e, rest))
  <2> DEFINE waits == [e EXCEPT !.timers = @ \cup {e.gen}]
  <2>1. Keeps(e, waits, {"timers"}) /\ Keeps(e, e, {"timers"})
    BY DEF Keeps, Shape, EngineFields
  <2>2. StopEngine(e, rest) \in {waits, e, StopImmediate(e)}
    BY DEF StopEngine
  <2> HIDE DEF waits
  <2> QED BY <1>1, <2>1, <2>2, StopImmediateRests
<1>3. ASSUME NEW gen
      PROVE  Rests(e, StopTimer(e, gen))
  <2> DEFINE fired == [e EXCEPT !.timers = @ \ {gen}]
  <2>1. Keeps(e, fired, {"timers"})
    BY DEF Keeps, Shape, EngineFields
  <2>2. StopTimer(e, gen) \in {fired, StopImmediate(fired)}
    BY DEF StopTimer
  <2> HIDE DEF fired
  <2>3. Rests(e, fired) /\ Rests(fired, StopImmediate(fired))
    BY <1>1, <2>1, StopImmediateRests
  <2> QED BY <2>2, <2>3, RestsTwice
<1> QED
  BY <1>2, <1>3

\* A call to play, and one to pause.
LEMMA PlayEngineRests ==
    ASSUME NEW e, NEW opens, Shape(e), Taken(e)
    PROVE  Rests(e, PlayEngine(e, opens)) /\ Rests(e, PauseEngine(e))
<1> DEFINE loaded == IF e.stream = "none" /\ e.playback = "stopped" /\ e.current.track # 0
                     THEN Load(e, e.current, FALSE, opens) ELSE e
           played == SetPlayback(loaded, "playing")
           begun  == [played EXCEPT !.status = "ok"]
<1>0. Rests(e, e)
  BY DEF Rests
<1>1. PlayEngine(e, opens) \in {e, loaded, begun}
  BY DEF PlayEngine
<1>2. Rests(e, loaded) /\ Shape(loaded)
  <2>1. Rests(e, Load(e, e.current, FALSE, opens))
    BY LoadStarts
  <2> QED BY <1>0, <2>1 DEF Rests
<1> HIDE DEF loaded
<1>3. Rests(loaded, played) /\ Shape(played)
  BY <1>2, PlaybackRests DEF Rests, PlayType
<1> HIDE DEF played
<1>4. Rests(played, begun)
  <2>1. Keeps(played, begun, {"status"})
    BY <1>3 DEF Keeps, Shape, EngineFields
  <2> HIDE DEF begun
  <2>2. Keeps(played, begun, EngineFields \ {"stream", "candidate", "prepared", "armed", "out"})
    BY <2>1 DEF Keeps, EngineFields
  <2> QED BY <2>2, SilentRests
<1> HIDE DEF begun
<1>5. Rests(e, begun)
  BY <1>2, <1>3, <1>4, RestsTwice
<1>6. Rests(e, SetPlayback(e, "paused"))
  BY PlaybackRests DEF PlayType
<1> QED
  BY <1>0, <1>1, <1>2, <1>5, <1>6 DEF PauseEngine

\* Automatic changes are switched on or off: off, no track is to follow.
LEMMA SetAutoRests ==
    ASSUME NEW e, NEW on, NEW opens, Sound(e)
    PROVE  /\ Rests(e, SetAuto(e, on, opens))
           /\ ~on => SetAuto(e, on, opens).candidate = NoTrack
<1> DEFINE rebuilt == IF IsArmed(e) /\ e.armed.adopted THEN Rebuild(e, opens) ELSE e
           changed == [rebuilt EXCEPT !.auto = on]
           bare    == [changed EXCEPT !.candidate = NoTrack]
           e1      == ClearAdvance(bare)
           e2      == ClearPrepared(e1)
           e3      == CancelJobs(e2)
           r       == SetAuto(e, on, opens)
<1>0. Shape(e) /\ Rests(e, e)
  BY DEF Rests, Sound
<1>1. CASE e.auto = on
  <2>1. r = e /\ (~on => e.candidate = NoTrack)
    BY <1>1 DEF SetAuto, Sound, Off
  <2> QED BY <1>0, <2>1
<1>2. CASE e.auto # on /\ on
  <2>1. r = [e EXCEPT !.auto = on]
    BY <1>2 DEF SetAuto
  <2>2. Keeps(e, r, {"auto"})
    BY <1>0, <2>1 DEF Keeps, Shape, EngineFields
  <2> HIDE DEF r
  <2>3. Keeps(e, r, EngineFields \ {"stream", "candidate", "prepared", "armed", "out"})
    BY <2>2 DEF Keeps, EngineFields
  <2> QED BY <1>2, <2>3, SilentRests DEF r
<1>3. CASE e.auto # on /\ ~on
  <2>1. r = e3
    BY <1>3 DEF SetAuto
  <2>2. /\ Shape(rebuilt)
        /\ \/ rebuilt.stream \in {"none", "body"}
           \/ rebuilt.stream = e.stream /\ rebuilt.out = e.out
    <3> DEFINE cleared == ClearEnding(e)
               body    == [cleared EXCEPT !.stream = "body",
                                          !.status = IF @ = "end" THEN "ok" ELSE @]
               none    == [cleared EXCEPT !.stream = "none"]
    <3>1. Rebuild(e, opens) \in {body, SetStatus(none, "invalid")}
      BY DEF Rebuild
    <3>2. Keeps(e, cleared, {"live", "latched", "ended"})
      BY <1>0, ClearEndingKeeps
    <3> HIDE DEF cleared
    <3>3. /\ Shape(body) /\ Shape(none) /\ body.stream = "body" /\ none.stream = "none"
      BY <3>2 DEF Keeps, Shape, EngineFields
    <3> HIDE DEF body, none
    <3>4. Keeps(none, SetStatus(none, "invalid"), {"out", "status"})
      BY <3>3, SetStatusKeeps
    <3>5. Shape(Rebuild(e, opens)) /\ Rebuild(e, opens).stream \in {"none", "body"}
      BY <3>1, <3>3, <3>4 DEF Keeps, EngineFields
    <3> QED BY <1>0, <3>5
  <2> HIDE DEF rebuilt
  <2>3. /\ Shape(bare) /\ bare.candidate = NoTrack /\ bare.stream = rebuilt.stream
        /\ bare.out = rebuilt.out
    BY <2>2 DEF Shape, EngineFields
  <2> HIDE DEF bare
  <2>4. Keeps(bare, e1, Advance)
    BY <2>3, ClearAdvanceKeeps
  <2> HIDE DEF e1
  <2>5. Keeps(e1, e2, {"prepared", "armed"}) /\ e2.armed = NoGapless
    BY <2>4, ClearPreparedKeeps DEF Keeps
  <2> HIDE DEF e2
  <2>6. Keeps(e2, e3, {"job"})
    BY <2>5, CancelJobsKeeps DEF Keeps
  <2> HIDE DEF e3
  <2>7. /\ Shape(e3) /\ e3.candidate = NoTrack /\ e3.armed = NoGapless
        /\ e3.stream = rebuilt.stream /\ e3.out = rebuilt.out
    BY <2>3, <2>4, <2>5, <2>6 DEF Keeps, EngineFields, Advance
  <2>8. Rests(e, e3)
    BY <2>2, <2>7 DEF Rests, Starts, Taken, NoGapless
  <2> QED BY <2>1, <2>7, <2>8
<1> QED
  BY <1>1, <1>2, <1>3

\* The preparation of a track is asked for.
LEMMA PrepareNextRests ==
    ASSUME NEW e, NEW item, Shape(e)
    PROVE  Rests(e, PrepareNext(e, item))
<1> DEFINE idle == CancelJobs(e)
           gone == ClearPrepared(idle)
           new  == EnsurePrepared(e, item)
<1>1. PrepareNext(e, item) \in {Unready(gone, item), Unready(e, item), new}
  BY PrepareNextCases
<1>2. Rests(e, gone)
  <2>1. Keeps(e, idle, {"job"})
    BY CancelJobsKeeps
  <2> HIDE DEF idle
  <2>2. Keeps(idle, gone, {"prepared", "armed"}) /\ gone.armed = NoGapless
    BY <2>1, ClearPreparedKeeps DEF Keeps
  <2> HIDE DEF gone
  <2>3. Keeps(e, gone, EngineFields \ {"stream", "candidate", "out"})
    BY <2>1, <2>2 DEF Keeps, EngineFields
  <2> QED BY <2>2, <2>3, PreparedRests DEF NoGapless
<1>3. Rests(e, new)
  <2>1. /\ Keeps(e, new, {"prepared", "armed", "job"})
        /\ new = e \/ new.armed = NoGapless
    BY EnsurePreparedKeeps
  <2> HIDE DEF new
  <2>2. Keeps(e, new, EngineFields \ {"stream", "candidate", "out"})
    BY <2>1 DEF Keeps, EngineFields
  <2>3. CASE new = e
    BY <2>3 DEF Rests
  <2>4. CASE new.armed = NoGapless
    BY <2>2, <2>4, PreparedRests DEF NoGapless
  <2> QED BY <2>1, <2>3, <2>4
<1> HIDE DEF gone, new
<1>4. Rests(e, Unready(gone, item))
  <2>1. Rests(gone, Unready(gone, item))
    BY <1>2, UnreadyRests DEF Rests
  <2> QED BY <1>2, <2>1, RestsTwice
<1> QED
  BY <1>1, <1>3, <1>4, UnreadyRests

\* Every call but one leaves what is announced as it is, or gives it up.
LEMMA RunRests ==
    ASSUME NEW e, NEW c, NEW opens, NEW rest, Sound(e), Taken(e), CallFit(c),
           c.call # "candidate"
    PROVE  LET r == Run(e, c, opens, rest)
           IN  Rests(e, r) /\ (SwitchesOff(c) => r.candidate = NoTrack)
<1>0. Shape(e)
  BY DEF Sound
<1>1. CASE c.call = "load"
  BY <1>0, <1>1, LoadStarts DEF Run, SwitchesOff
<1>2. CASE c.call = "play"
  BY <1>0, <1>2, PlayEngineRests DEF Run, SwitchesOff
<1>3. CASE c.call = "pause"
  BY <1>0, <1>3, PlayEngineRests DEF Run, SwitchesOff
<1>4. CASE c.call = "stop"
  BY <1>0, <1>4, StopRests DEF Run, SwitchesOff
<1>5. CASE c.call = "auto"
  BY <1>5, SetAutoRests DEF Run, SwitchesOff
<1>7. CASE c.call = "prepare"
  BY <1>0, <1>7, PrepareNextRests DEF Run, SwitchesOff
<1> QED
  BY <1>1, <1>2, <1>3, <1>4, <1>5, <1>7 DEF CallFit, CallKnown

\* The player announces a track: it is the next one, unless a decoder has taken
\* over before.
LEMMA SetCandidateRests ==
    ASSUME NEW e, NEW item, Shape(e), NullId(e.candidate), NullId(item)
    PROVE  LET r == SetCandidate(e, item)
           IN  /\ Shape(r) /\ r.stream = e.stream /\ r.out = e.out
               /\ Taken(e) => Taken(r)
               /\ r.candidate \in {e.candidate, item}
               /\ \/ r.candidate.item = item.item
                  \/ r = e /\ e.armed.track # 0 /\ e.armed.adopted
<1> DEFINE armed    == e.armed.track # 0 /\ ~Same(item, e.armed)
           disarmed == IF armed THEN Disarm(e) ELSE e
           named    == [disarmed EXCEPT !.candidate = item, !.requested = FALSE]
           set      == CancelJobs(named)
           r        == SetCandidate(e, item)
<1>1. CASE Same(item, e.candidate) \/ (armed /\ e.armed.adopted)
  <2>1. r = e
    BY <1>1 DEF SetCandidate
  <2>2. Same(item, e.candidate) => e.candidate.item = item.item
    BY DEF Same, NullId
  <2> QED BY <1>1, <2>1, <2>2
<1>2. CASE ~(Same(item, e.candidate) \/ (armed /\ e.armed.adopted))
  <2>1. r \in {set, ClearPrepared(set)}
    BY <1>2 DEF SetCandidate
  <2>2. /\ Keeps(e, disarmed, {"prepared", "armed"})
        /\ disarmed = e \/ disarmed.armed.track = 0
    BY DisarmKeeps DEF Keeps
  <2> HIDE DEF disarmed
  <2>3. Keeps(disarmed, named, {"candidate", "requested"}) /\ named.candidate = item
    BY <2>2 DEF Keeps, Shape, EngineFields
  <2> HIDE DEF named
  <2>4. Keeps(named, set, {"job"})
    BY <2>3, CancelJobsKeeps DEF Keeps
  <2> HIDE DEF set
  <2>5. /\ Keeps(set, ClearPrepared(set), {"prepared", "armed"})
        /\ ClearPrepared(set).armed = NoGapless
    BY <2>4, ClearPreparedKeeps DEF Keeps
  <2>6. /\ Shape(set) /\ set.stream = e.stream /\ set.out = e.out /\ set.candidate = item
        /\ set.armed = disarmed.armed /\ set.prepared = disarmed.prepared
        /\ Taken(e) => Taken(set)
    BY <2>2, <2>3, <2>4 DEF Keeps, EngineFields, Taken
  <2>7. /\ Shape(ClearPrepared(set)) /\ ClearPrepared(set).stream = e.stream
        /\ ClearPrepared(set).out = e.out /\ ClearPrepared(set).candidate = item
        /\ Taken(ClearPrepared(set))
    BY <2>5, <2>6 DEF Keeps, EngineFields, Taken, NoGapless
  <2> QED BY <2>1, <2>6, <2>7
<1> QED
  BY <1>1, <1>2

\* What says nothing of the next track changes nothing of what follows.
LEMMA MuteFollows ==
    ASSUME NEW m, NEW r, NEW c, Mute(m, r), Follows(m.out, c)
    PROVE  Follows(r.out, c)
<1>0. Longer(m.out, r.out)
  BY DEF Mute
<1>1. Candidates(r.out) = Candidates(m.out)
  <2>1. ASSUME NEW k \in 1 .. Len(r.out)
        PROVE  r.out[k].call = "candidate" <=> k \in 1 .. Len(m.out) /\ m.out[k].call = "candidate"
    <3>1. CASE k \in 1 .. Len(m.out)
      BY <1>0, <3>1 DEF Longer
    <3>2. CASE k \notin 1 .. Len(m.out)
      <4>1. k \in Len(m.out) + 1 .. Len(r.out)
        BY <1>0, <3>2 DEF Longer
      <4> QED BY <3>2, <4>1 DEF Mute, QuietCalls
    <3> QED BY <3>1, <3>2
  <2>2. 1 .. Len(m.out) \subseteq 1 .. Len(r.out)
    BY <1>0 DEF Longer
  <2> QED
    BY <2>1, <2>2 DEF Candidates
<1>2. \A k \in Candidates(m.out) : r.out[k] = m.out[k] /\ k \in 1 .. Len(m.out)
  BY <1>0 DEF Candidates, Longer
<1>3. ASSUME NEW i \in 1 .. Len(m.out), NEW k \in 1 .. Len(m.out), Break(m.out, i, k)
      PROVE  Break(r.out, i, k)
  <2>1. PICK n \in i .. k : SwitchesOff(m.out[n])
    BY <1>3 DEF Break
  <2>2. n \in 1 .. Len(m.out)
    BY <1>0 DEF Longer
  <2> QED BY <1>0, <2>1, <2>2 DEF Break, Longer
<1>4. ASSUME NEW k \in 1 .. Len(m.out)
      PROVE  1 \in 1 .. Len(m.out)
  BY <1>0 DEF Longer
<1> HIDE DEF Candidates, Break
<1> QED
  BY <1>1, <1>2, <1>3, <1>4 DEF Follows

\* What is announced now goes with all that was announced.
LEMMA HearsReady ==
    ASSUME NEW m, NEW c, Calls(m.out), NullId(c), Hears(m, c), Follows(m.out, c)
    PROVE  Ready(m.out, c, m.upcoming.item)
<1> DEFINE out == m.out
           id  == m.upcoming.item
<1>n. Len(out) \in Nat
  BY DEF Calls, IsSeq
<1>b. ASSUME NEW i \in Nat, NEW k \in 1 .. Len(out), Break(out, i, k)
      PROVE  Break(out, i, Len(out))
  BY <1>b, <1>n DEF Break
<1>1. CASE Candidates(out) = {} /\ (c.track = 0 \/ c.item = id)
  BY <1>1 DEF Ready, NullId
<1>2. ASSUME NEW k \in Candidates(out), out[k].item.item = id,
             \A j \in Candidates(out) : j <= k
      PROVE  Ready(out, c, id)
  <2>0. \A j \in Candidates(out) : j \in 1 .. Len(out) /\ j \in Nat
    BY DEF Candidates
  <2>1. ASSUME NEW j \in Candidates(out)
        PROVE  out[j].item.item \in {0, id} \/ Break(out, j, Len(out))
    <3>1. CASE j = k
      BY <1>2, <3>1
    <3>2. CASE j # k
      <4>1. j < k
        BY <1>2, <2>0, <3>2
      <4>2. out[j].item.item \in {0, id} \/ Break(out, j, k)
        BY <1>2, <4>1 DEF Follows
      <4> QED BY <1>b, <2>0, <4>2
    <3> QED BY <3>1, <3>2
  <2>2. c.item \in {0, id} \/ Break(out, 1, Len(out))
    BY <1>2, <1>b, <2>0 DEF Follows
  <2> QED BY <2>1, <2>2 DEF Ready
<1> QED
  BY <1>1, <1>2 DEF Hears

\* A call is added: one that announces what is ready goes with the others, and
\* one that switches automatic changes off makes anything ready.
LEMMA AddsReady ==
    ASSUME NEW out, NEW x, NEW r, NEW c, NEW id, Adds(out, x, r)
    PROVE  /\ x.call # "candidate" /\ Follows(out, c) => Follows(r, c)
           /\ x.call # "candidate" /\ Ready(out, c, id) => Ready(r, c, id)
           /\ SwitchesOff(x) => Ready(r, c, id)
           /\ /\ x.call = "candidate" /\ x.item.item = id
              /\ Follows(out, c) /\ Ready(out, c, id)
              => Follows(r, c) /\ Ready(r, c, id)
<1> DEFINE n == Len(out)
<1>1. /\ Len(r) = n + 1 /\ n \in Nat /\ r[n + 1] = x
      /\ \A k \in 1 .. n : r[k] = out[k]
  BY DEF Adds
<1>2. ASSUME NEW k
      PROVE  /\ k \in Candidates(out) => k \in Candidates(r) /\ k \in 1 .. n
             /\ k \in Candidates(r) => k \in Candidates(out) \/ (k = n + 1 /\ x.call = "candidate")
  BY <1>1 DEF Candidates
<1>3. ASSUME NEW i \in 1 .. n + 1, NEW k \in 1 .. n, Break(out, i, k)
      PROVE  Break(r, i, k) /\ Break(r, i, n + 1)
  <2>1. PICK j \in i .. k : SwitchesOff(out[j])
    BY <1>3 DEF Break
  <2>2. j \in 1 .. n /\ j \in i .. n + 1
    BY <1>1
  <2> QED BY <1>1, <2>1, <2>2 DEF Break
<1>4. ASSUME NEW i \in 1 .. n + 1, Break(out, i, n)
      PROVE  Break(r, i, n + 1)
  <2>1. PICK j \in i .. n : SwitchesOff(out[j])
    BY <1>4 DEF Break
  <2>2. j \in 1 .. n /\ j \in i .. n + 1
    BY <1>1
  <2> QED BY <1>1, <2>1, <2>2 DEF Break
<1>5. 1 \in 1 .. n + 1 /\ \A k \in 1 .. n : k \in 1 .. n + 1 /\ r[k] = out[k] /\ k < n + 1
  BY <1>1
<1>6. ASSUME SwitchesOff(x), NEW i \in 1 .. n + 1
      PROVE  Break(r, i, n + 1)
  BY <1>1, <1>6 DEF Break
<1>7. \A i, k \in 1 .. n : i < k => i \in 1 .. n + 1
  BY <1>1
<1>l. Len(r) = n + 1 /\ Len(out) = n /\ r[n + 1] = x
  BY <1>1
<1> HIDE DEF n, Candidates, Break
<1>8. ASSUME x.call # "candidate"
      PROVE  \A k : k \in Candidates(r) <=> k \in Candidates(out)
  BY <1>2, <1>8
<1>9. ASSUME x.call # "candidate", Follows(out, c)
      PROVE  Follows(r, c)
  <2>1. ASSUME NEW j \in Candidates(r), NEW k \in Candidates(r), j < k
        PROVE  r[j].item.item \in {0, r[k].item.item} \/ Break(r, j, k)
    <3>1. j \in Candidates(out) /\ k \in Candidates(out) /\ j \in 1 .. n /\ k \in 1 .. n
      BY <1>2, <1>8, <1>9
    <3>2. out[j].item.item \in {0, out[k].item.item} \/ Break(out, j, k)
      BY <1>9, <2>1, <3>1 DEF Follows
    <3> QED BY <1>3, <1>5, <3>1, <3>2
  <2>2. ASSUME NEW k \in Candidates(r)
        PROVE  c.item \in {0, r[k].item.item} \/ Break(r, 1, k)
    <3>1. k \in Candidates(out) /\ k \in 1 .. n
      BY <1>2, <1>8, <1>9
    <3>2. c.item \in {0, out[k].item.item} \/ Break(out, 1, k)
      BY <1>9, <3>1 DEF Follows
    <3> QED BY <1>3, <1>5, <3>1, <3>2
  <2> QED BY <2>1, <2>2 DEF Follows
<1>10. ASSUME Ready(out, c, id)
       PROVE  /\ \A k \in Candidates(out) : r[k].item.item \in {0, id} \/ Break(r, k, n + 1)
              /\ c.item \in {0, id} \/ Break(r, 1, n + 1)
  <2>1. ASSUME NEW k \in Candidates(out)
        PROVE  r[k].item.item \in {0, id} \/ Break(r, k, n + 1)
    <3>1. k \in 1 .. n /\ k \in 1 .. n + 1 /\ r[k] = out[k]
      BY <1>2, <1>5
    <3>2. out[k].item.item \in {0, id} \/ Break(out, k, n)
      BY <1>10, <1>l DEF Ready
    <3> QED BY <1>4, <3>1, <3>2
  <2>2. c.item \in {0, id} \/ Break(out, 1, n)
    BY <1>10, <1>l DEF Ready
  <2> QED BY <1>4, <1>5, <2>1, <2>2
<1>11. ASSUME x.call # "candidate", Ready(out, c, id)
       PROVE  Ready(r, c, id)
  BY <1>8, <1>10, <1>11, <1>l DEF Ready
<1>12. ASSUME SwitchesOff(x)
       PROVE  Ready(r, c, id)
  <2>1. \A k \in Candidates(r) : k \in 1 .. n + 1
    BY <1>2, <1>5, <1>8, <1>12 DEF SwitchesOff
  <2> QED BY <1>5, <1>6, <1>12, <1>l, <2>1 DEF Ready
<1>13. ASSUME x.call = "candidate", x.item.item = id, Follows(out, c), Ready(out, c, id)
       PROVE  Follows(r, c) /\ Ready(r, c, id)
  <2>1. ASSUME NEW k \in Candidates(r)
        PROVE  r[k].item.item \in {0, id} \/ Break(r, k, n + 1)
    BY <1>2, <1>10, <1>13, <1>l
  <2>2. ASSUME NEW j \in Candidates(r), NEW k \in Candidates(r), j < k
        PROVE  r[j].item.item \in {0, r[k].item.item} \/ Break(r, j, k)
    <3>1. CASE k = n + 1
      BY <1>13, <1>l, <2>1, <3>1
    <3>2. CASE k # n + 1
      <4>1. k \in Candidates(out) /\ k \in 1 .. n
        BY <1>2, <3>2
      <4>2. j \in Candidates(out) /\ j \in 1 .. n
        <5>1. j # n + 1
          BY <1>1, <2>2, <4>1 DEF n
        <5> QED BY <1>2, <5>1
      <4>3. out[j].item.item \in {0, out[k].item.item} \/ Break(out, j, k)
        BY <1>13, <2>2, <4>1, <4>2 DEF Follows
      <4> QED BY <1>3, <1>5, <4>1, <4>2, <4>3
    <3> QED BY <3>1, <3>2
  <2>3. ASSUME NEW k \in Candidates(r)
        PROVE  c.item \in {0, r[k].item.item} \/ Break(r, 1, k)
    <3>1. CASE k = n + 1
      BY <1>10, <1>13, <1>l, <3>1
    <3>2. CASE k # n + 1
      <4>1. k \in Candidates(out) /\ k \in 1 .. n
        BY <1>2, <3>2
      <4>2. c.item \in {0, out[k].item.item} \/ Break(out, 1, k)
        BY <1>13, <4>1 DEF Follows
      <4> QED BY <1>3, <1>5, <4>1, <4>2
    <3> QED BY <3>1, <3>2
  <2> QED BY <1>10, <1>13, <1>l, <2>1, <2>2, <2>3 DEF Follows, Ready
<1> QED
  BY <1>9, <1>11, <1>12, <1>13

\* After none was announced any may be.
LEMMA NoneReady ==
    ASSUME NEW out, NEW c, NEW id, Ready(out, c, 0)
    PROVE  Ready(out, c, id)
BY DEF Ready

LEMMA SendAdds ==
    ASSUME NEW m, NEW x, Typed(m)
    PROVE  Adds(m.out, x, Send(m, x).out)
<1>1. Send(m, x).out = Append(m.out, x)
  BY DEF Send, Typed, MainFields
<1>2. IsSeq(m.out)
  BY DEF Typed, Calls
<1> QED
  BY <1>1, <1>2, AppendSeq DEF Adds

\* The announced track is found anew: the engine is told at most of that.
LEMMA EmitUpcomingAdds ==
    ASSUME NEW m, Typed(m)
    PROVE  LET r == EmitUpcoming(m)
           IN  r.out = m.out \/ \E x : x.call = "candidate" /\ Adds(m.out, x, r.out)
<1> DEFINE next  == ResolveUpcoming(m)
           reuse == /\ m.upcoming.track = next.track
                    /\ <<m.upcoming.queued, m.upcoming.qid>> = <<next.queued, next.qid>>
                    /\ m.upcoming.item \notin {0, m.current.item}
           item  == IF next.track = 0 THEN 0
                    ELSE IF reuse THEN m.upcoming.item ELSE Min(m.pool)
           up    == [next EXCEPT !.item = item]
           c     == [m EXCEPT !.upcoming = up, !.pool = @ \ {item}]
           call  == [call |-> "candidate", item |-> Item(up)]
           sent  == Send(c, call)
<1>1. EmitUpcoming(m) \in {m, sent}
  BY DEF EmitUpcoming
<1>2. sent.out = Append(m.out, call)
  BY DEF Send, Typed, MainFields
<1>3. IsSeq(m.out) /\ call.call = "candidate"
  BY DEF Typed, Calls
<1> HIDE DEF call, sent
<1>4. Adds(m.out, call, sent.out)
  BY <1>2, <1>3, AppendSeq DEF Adds
<1> QED
  BY <1>1, <1>3, <1>4

\* Whatever is announced after a switch, or where none was announced, goes with
\* the rest.
LEMMA EmitUpcomingFollows ==
    ASSUME NEW m, NEW c, Typed(m), Follows(m.out, c), \A id : Ready(m.out, c, id)
    PROVE  Follows(EmitUpcoming(m).out, c)
<1>1. CASE EmitUpcoming(m).out = m.out
  BY <1>1
<1>2. CASE \E x : x.call = "candidate" /\ Adds(m.out, x, EmitUpcoming(m).out)
  <2> DEFINE out == EmitUpcoming(m).out
  <2>1. PICK x : x.call = "candidate" /\ Adds(m.out, x, out)
    BY <1>2
  <2> DEFINE id == x.item.item
  <2>2. Ready(m.out, c, id)
    OBVIOUS
  <2> HIDE DEF out
  <2> QED BY <2>1, <2>2, AddsReady DEF out
<1> QED
  BY <1>1, <1>2, EmitUpcomingAdds

\* The stop after the current track is armed, or no longer.
LEMMA SetArmedFollows ==
    ASSUME NEW m, NEW armed \in BOOLEAN, NEW c, Fits(m), m.armed # armed,
           NullId(c), Hears(m, c), Follows(m.out, c)
    PROVE  Follows(SetArmed(m, armed).out, c)
<1> DEFINE f     == ForgetTransitions(m)
           n     == [f EXCEPT !.armed = armed]
           auto  == [call |-> "auto", on |-> ~armed]
           told  == Send(n, auto)
           again == [call |-> "candidate", item |-> Item(m.upcoming)]
           r     == Send(told, again)
<1>1. SetArmed(m, armed) = EmitUpcoming(IF armed THEN told ELSE r)
  BY DEF SetArmed
<1>2. Passes(m, f)
  BY ForgetPasses
<1>3. /\ DOMAIN n = MainFields /\ n.armed = armed
      /\ \A x \in MainFields \ {"armed"} : n[x] = f[x]
  <2> HIDE DEF f
  <2> QED BY <1>2 DEF Passes, Slips, Fits, Typed, MainFields
<1>4. f.out = m.out
  BY DEF ForgetTransitions, ForgetEnding, ForgetOwned, Fits, Typed, MainFields
<1> HIDE DEF f, n
<1>5. /\ n.play = f.play /\ n.manual = f.manual /\ n.queue = f.queue /\ n.current = f.current
      /\ n.request = f.request /\ n.change = f.change /\ n.out = f.out /\ n.pool = f.pool
      /\ n.resume = f.resume /\ n.index = f.index /\ n.upcoming = f.upcoming
  BY <1>3 DEF MainFields
<1>6. Typed(n)
  BY <1>2, <1>3, <1>5 DEF Passes, Slips, Fits, Typed
<1>7. CallFit(auto) /\ auto.call = "auto" /\ (armed => SwitchesOff(auto))
  BY DEF CallFit, CallKnown, SwitchesOff
<1>8. /\ CallFit(again) /\ again.call = "candidate" /\ again.item.item = m.upcoming.item
      /\ ~armed => again.item.item = 0
  <2>1. CallFit(again) /\ again.call = "candidate" /\ again.item.item = m.upcoming.item
    BY DEF CallFit, CallKnown, Item, ItemType, Fits, Typed, OccurrenceType, NullId
  <2>2. ~armed => m.upcoming.item = 0
    BY DEF Fits, Typed, NoOccurrence
  <2> HIDE DEF again
  <2> QED BY <2>1, <2>2
<1> HIDE DEF auto, again
<1>9. Typed(told) /\ Adds(m.out, auto, told.out)
  BY <1>4, <1>5, <1>6, <1>7, SendMoves, SendAdds
<1> HIDE DEF told
<1>10. Typed(r) /\ Adds(told.out, again, r.out)
  BY <1>8, <1>9, SendMoves, SendAdds
<1> HIDE DEF r
<1>11. Follows(told.out, c)
  BY <1>7, <1>9, AddsReady
<1>12. CASE armed
  <2>1. \A id : Ready(told.out, c, id)
    BY <1>7, <1>9, <1>12, AddsReady
  <2> QED BY <1>1, <1>9, <1>11, <1>12, <2>1, EmitUpcomingFollows
<1>13. CASE ~armed
  <2>1. Ready(m.out, c, 0)
    BY <1>13, HearsReady DEF Fits, Typed, NoOccurrence
  <2>2. Ready(told.out, c, 0)
    BY <1>7, <1>9, <2>1, AddsReady
  <2>3. Follows(r.out, c) /\ Ready(r.out, c, 0)
    BY <1>8, <1>10, <1>11, <1>13, <2>2, AddsReady
  <2>4. \A id : Ready(r.out, c, id)
    BY <2>3, NoneReady
  <2> QED BY <1>1, <1>10, <1>13, <2>3, <2>4, EmitUpcomingFollows
<1> QED
  BY <1>12, <1>13

\* A signal that settles nothing announces no other track.
LEMMA HandleFollows ==
    ASSUME NEW m, NEW s, NEW c, Fits(m), m.pool # {}, SignalOk(s), ~Settles(s),
           NullId(c), Hears(m, c), Follows(m.out, c)
    PROVE  Follows(Handle(m, s).out, c)
<1> DEFINE r == Handle(m, s)
<1>1. CASE Slips(m, r)
  <2>1. Mute(m, r)
    BY <1>1 DEF Slips
  <2> HIDE DEF r
  <2> QED BY <2>1, MuteFollows DEF r
<1>2. CASE s.signal = "boundary"
  <2>1. r = HandleBoundary(m, s)
    BY <1>2 DEF Handle
  <2>2. Passes(m, r) \/ r.out = Again(m).out
    BY <2>1, HandleBoundaryGoes
  <2>3. CASE r.out = Again(m).out
    <3> DEFINE cand == [call |-> "candidate", item |-> Item(m.upcoming)]
               prep == [call |-> "prepare", item |-> Item(m.upcoming)]
               told == Send(m, cand)
    <3>1. CallFit(cand)
      BY DEF CallFit, CallKnown, Item, ItemType, Fits, Typed, OccurrenceType, NullId
    <3>2. /\ cand.call = "candidate" /\ cand.item.item = m.upcoming.item
          /\ prep.call = "prepare" /\ Again(m) = Send(told, prep)
      BY DEF Item, Again
    <3> HIDE DEF cand, prep
    <3>3. Typed(told) /\ Adds(m.out, cand, told.out)
      BY <3>1, <3>2, SendMoves, SendAdds DEF Fits
    <3> HIDE DEF told
    <3>4. Adds(told.out, prep, Again(m).out)
      BY <3>2, <3>3, SendAdds
    <3>5. Ready(m.out, c, m.upcoming.item)
      BY HearsReady DEF Fits, Typed
    <3>6. Follows(told.out, c)
      BY <3>2, <3>3, <3>5, AddsReady
    <3>7. Follows(Again(m).out, c)
      BY <3>2, <3>4, <3>6, AddsReady
    <3> QED BY <2>3, <3>7
  <2> QED BY <1>1, <2>2, <2>3 DEF Passes
<1>3. \/ Slips(m, r)
      \/ s.signal = "boundary"
  BY HandleGoes DEF Settles
<1> QED
  BY <1>1, <1>2, <1>3

-----------------------------------------------------------------------------
(* The first of the calls arrives, and what is taken for the next track is    *)
(* d instead of c.                                                          *)

Arrives(x, c, d) ==
    IF x.call = "candidate" THEN d.item \in {0, x.item.item}
    ELSE d.item = 0 \/ (d = c /\ ~SwitchesOff(x))

LEMMA HeadGone ==
    ASSUME NEW out, IsSeq(out), out # <<>>
    PROVE  /\ Len(out) \in Nat \ {0} /\ Head(out) = out[1] /\ 1 \in 1 .. Len(out)
           /\ \A k \in Candidates(Tail(out)) : /\ k + 1 \in Candidates(out) /\ 1 < k + 1
                                               /\ k \in Nat /\ Tail(out)[k] = out[k + 1]
           /\ \A k \in Candidates(out) : k = 1 \/ (k - 1 \in Candidates(Tail(out)) /\ k \in Nat)
<1>1. /\ Len(Tail(out)) = Len(out) - 1 /\ Len(out) \in Nat \ {0} /\ Head(out) = out[1]
      /\ \A k \in 1 .. Len(out) - 1 : Tail(out)[k] = out[k + 1]
  BY TailSeq
<1>2. ASSUME NEW k \in Candidates(Tail(out))
      PROVE  /\ k + 1 \in Candidates(out) /\ 1 < k + 1
             /\ k \in Nat /\ Tail(out)[k] = out[k + 1]
  <2>1. k \in 1 .. Len(out) - 1 /\ k \in Nat /\ k + 1 \in 1 .. Len(out) /\ 1 < k + 1
    BY <1>1 DEF Candidates
  <2> QED BY <1>1, <2>1 DEF Candidates
<1>3. ASSUME NEW k \in Candidates(out), k # 1
      PROVE  k - 1 \in Candidates(Tail(out)) /\ k \in Nat
  <2>1. k - 1 \in 1 .. Len(out) - 1 /\ k \in Nat /\ (k - 1) + 1 = k
    BY <1>1, <1>3 DEF Candidates
  <2>2. Tail(out)[k - 1] = out[(k - 1) + 1]
    BY <1>1, <2>1
  <2>3. out[k].call = "candidate"
    BY DEF Candidates
  <2> QED BY <1>1, <2>1, <2>2, <2>3 DEF Candidates
<1>4. 1 \in 1 .. Len(out)
  BY <1>1
<1>5. /\ Len(out) \in Nat \ {0} /\ Head(out) = out[1]
  BY <1>1
<1> QED
  BY <1>2, <1>3, <1>4, <1>5, Zenon

LEMMA TailHears ==
    ASSUME NEW m, NEW c, NEW d, Fits(m), m.out # <<>>, Hears(m, c), NullId(d),
           Arrives(Head(m.out), c, d)
    PROVE  Hears([m EXCEPT !.out = Tail(@)], d)
<1> DEFINE r   == [m EXCEPT !.out = Tail(@)]
           out == m.out
           t   == Tail(out)
<1>1. r.out = t /\ r.upcoming = m.upcoming
  BY DEF Fits, Typed, MainFields
<1>2. IsSeq(out)
  BY DEF Fits, Typed, Calls
<1> HIDE DEF r
<1>3. /\ Len(out) \in Nat \ {0} /\ Head(out) = out[1] /\ 1 \in 1 .. Len(out)
      /\ \A k \in Candidates(t) : /\ k + 1 \in Candidates(out) /\ 1 < k + 1
                                  /\ k \in Nat /\ t[k] = out[k + 1]
      /\ \A k \in Candidates(out) : k = 1 \/ (k - 1 \in Candidates(t) /\ k \in Nat)
  BY <1>2, HeadGone
<1> HIDE DEF t
<1>4. CASE /\ Candidates(out) = {} /\ (c.track = 0 \/ c.item = m.upcoming.item)
  <2>1. Candidates(t) = {}
    BY <1>3, <1>4
  <2>2. out[1].call # "candidate"
    BY <1>3, <1>4 DEF Candidates
  <2>3. d.track = 0 \/ d.item = m.upcoming.item
    BY <1>3, <1>4, <2>2 DEF Arrives, NullId
  <2> QED BY <1>1, <2>1, <2>3 DEF Hears, r
<1>5. ASSUME NEW k \in Candidates(out), out[k].item.item = m.upcoming.item,
             \A j \in Candidates(out) : j <= k
      PROVE  Hears(r, d)
  <2>1. CASE k = 1
    <3>1. Candidates(t) = {}
      <4> SUFFICES ASSUME NEW j \in Candidates(t) PROVE FALSE
        OBVIOUS
      <4>1. j + 1 <= 1 /\ 1 < j + 1 /\ j \in Nat
        BY <1>3, <1>5, <2>1
      <4> QED BY <4>1
    <3>2. out[1].call = "candidate"
      BY <1>5, <2>1 DEF Candidates
    <3>3. d.track = 0 \/ d.item = m.upcoming.item
      BY <1>3, <1>5, <2>1, <3>2 DEF Arrives, NullId
    <3> QED BY <1>1, <3>1, <3>3 DEF Hears
  <2>2. CASE k # 1
    <3>1. k - 1 \in Candidates(t) /\ k \in Nat
      BY <1>3, <2>2
    <3>2. t[k - 1] = out[(k - 1) + 1] /\ (k - 1) + 1 = k
      BY <1>3, <3>1
    <3>3. ASSUME NEW j \in Candidates(t)
          PROVE  j <= k - 1
      <4>1. j + 1 <= k /\ j \in Nat
        BY <1>3, <1>5
      <4> QED BY <3>1, <4>1
    <3> QED BY <1>1, <1>5, <3>1, <3>2, <3>3 DEF Hears
  <2> QED BY <2>1, <2>2
<1> QED
  BY <1>4, <1>5 DEF Hears, r

LEMMA TailFollows ==
    ASSUME NEW out, NEW c, NEW d, IsSeq(out), out # <<>>, Follows(out, c),
           Arrives(Head(out), c, d)
    PROVE  Follows(Tail(out), d)
<1> DEFINE t == Tail(out)
<1>1. /\ Len(out) \in Nat \ {0} /\ Head(out) = out[1]
      /\ \A k \in Candidates(t) : /\ k + 1 \in Candidates(out) /\ 1 < k + 1
                                  /\ k \in Nat /\ t[k] = out[k + 1]
  BY HeadGone
<1>2. \A k \in 1 .. Len(out) - 1 : t[k] = out[k + 1]
  BY TailSeq
<1> HIDE DEF t
<1>k. \A k \in Candidates(t) : k + 1 \in 1 .. Len(out)
  BY <1>1 DEF Candidates
<1>3. ASSUME NEW i \in Nat \ {0}, NEW k \in Candidates(t), Break(out, i + 1, k + 1)
      PROVE  Break(t, i, k)
  <2>1. PICK n \in i + 1 .. k + 1 : SwitchesOff(out[n])
    BY <1>3 DEF Break
  <2>2. n - 1 \in i .. k /\ n - 1 \in 1 .. Len(out) - 1 /\ (n - 1) + 1 = n
    BY <1>1, <1>k, <2>1
  <2>3. t[n - 1] = out[n]
    BY <1>2, <2>2
  <2> QED BY <2>1, <2>2, <2>3 DEF Break
<1>4. ASSUME NEW j \in Candidates(t), NEW k \in Candidates(t), j < k
      PROVE  t[j].item.item \in {0, t[k].item.item} \/ Break(t, j, k)
  <2>1. /\ j + 1 \in Candidates(out) /\ k + 1 \in Candidates(out) /\ j + 1 < k + 1
        /\ j \in Nat \ {0}
    BY <1>1, <1>4
  <2>2. out[j + 1].item.item \in {0, out[k + 1].item.item} \/ Break(out, j + 1, k + 1)
    BY <2>1 DEF Follows
  <2> QED BY <1>1, <1>3, <2>1, <2>2
<1>5. ASSUME NEW k \in Candidates(t)
      PROVE  d.item \in {0, t[k].item.item} \/ Break(t, 1, k)
  <2>0. k + 1 \in Candidates(out) /\ 1 < k + 1 /\ t[k] = out[k + 1] /\ 1 \in Nat \ {0}
    BY <1>1
  <2>1. ASSUME Break(out, 1, k + 1), ~SwitchesOff(out[1])
        PROVE  Break(t, 1, k)
    <3>1. PICK n \in 1 .. k + 1 : SwitchesOff(out[n])
      BY <2>1 DEF Break
    <3>2. n \in 1 + 1 .. k + 1
      BY <1>1, <2>1, <3>1
    <3>3. Break(out, 1 + 1, k + 1)
      BY <3>1, <3>2 DEF Break
    <3> QED BY <1>3, <2>0, <3>3
  <2>2. CASE out[1].call = "candidate"
    <3>1. d.item \in {0, out[1].item.item} /\ ~SwitchesOff(out[1])
      BY <1>1, <2>2 DEF Arrives, SwitchesOff
    <3>2. 1 \in Candidates(out)
      BY <1>1, <2>2 DEF Candidates
    <3>3. out[1].item.item \in {0, out[k + 1].item.item} \/ Break(out, 1, k + 1)
      BY <2>0, <3>2 DEF Follows
    <3> QED BY <2>0, <2>1, <3>1, <3>3
  <2>3. CASE out[1].call # "candidate"
    <3>1. d.item = 0 \/ (d = c /\ ~SwitchesOff(out[1]))
      BY <1>1, <2>3 DEF Arrives
    <3>2. c.item \in {0, out[k + 1].item.item} \/ Break(out, 1, k + 1)
      BY <2>0 DEF Follows
    <3> QED BY <2>0, <2>1, <3>1, <3>2
  <2> QED BY <2>2, <2>3
<1> QED
  BY <1>4, <1>5 DEF Follows, t

-----------------------------------------------------------------------------
(* The two sides agree on the next track, where no track is queued.         *)

(***************************************************************************)
(* The engine has for its next track what the player announces, or will when  *)
(* the calls on their way have arrived. Once the end of the input has been     *)
(* noticed this must hold of an engine that ignores them, too: they name no    *)
(* other track, and no signal is on its way that would make the player         *)
(* announce one.                                                            *)
(***************************************************************************)
Announced(m, e) ==
    /\ m.queue = <<>> /\ NullId(e.candidate) /\ Taken(e)
    /\ Hears(m, e.candidate)
    /\ Late(e) => Follows(m.out, e.candidate) /\ Clear(e.out)

HInv == Without({"enqueue"}) => Announced(main, engine)

\* Of the two records it matters only what they say of the next track.
LEMMA AnnouncedAlike ==
    ASSUME NEW m, NEW e, NEW n, NEW r, Announced(m, e),
           n.queue = m.queue, n.upcoming = m.upcoming, n.out = m.out,
           r.candidate = e.candidate, r.stream = e.stream, r.armed = e.armed,
           r.prepared = e.prepared, r.out = e.out
    PROVE  Announced(n, r)
<1>1. Hears(n, r.candidate)
  BY DEF Announced, Hears
<1>2. Taken(r) /\ (Late(r) <=> Late(e))
  BY DEF Announced, Taken, Late
<1> QED
  BY <1>1, <1>2 DEF Announced

\* A step of the engine that announces nothing.
LEMMA EngineRests ==
    ASSUME NEW m, NEW e, NEW r, Announced(m, e), Rests(e, r)
    PROVE  Announced(m, r)
<1>1. NullId(NoTrack) /\ NoTrack.item = 0 /\ NoTrack.track = 0
  BY DEF NullId, NoTrack
<1>2. NullId(r.candidate) /\ Hears(m, r.candidate)
  <2>1. Hears(m, NoTrack)
    BY <1>1 DEF Announced, Hears
  <2> QED BY <1>1, <2>1 DEF Announced, Rests
<1>3. Taken(r)
  BY DEF Announced, Rests, Starts, Taken
<1>4. ASSUME Late(r)
      PROVE  Follows(m.out, r.candidate) /\ Clear(r.out)
  <2>1. ~Starts(r)
    BY <1>4 DEF Late, Starts
  <2>2. Late(e) /\ Clear(e.out) /\ Clear(r.out) /\ Follows(m.out, e.candidate)
    BY <1>4, <2>1 DEF Announced, Rests, Late
  <2>3. Follows(m.out, NoTrack)
    BY <1>1, <2>2 DEF Follows
  <2> QED BY <2>2, <2>3 DEF Rests
<1> QED
  BY <1>2, <1>3, <1>4 DEF Announced

\* One update of the position: the end of the input is noticed only when nothing
\* is on its way.
LEMMA EngineEnds ==
    ASSUME NEW m, NEW e, NEW r, NEW stream, NEW heard, NEW rendered, NEW rest, NEW how,
           Announced(m, e), Shape(e), e.stream = "drained" => stream = "drained",
           Late(e) \/ (m.out = <<>> /\ e.out = <<>>),
           r = CheckEnding(e, stream, heard, rendered, rest, how)
    PROVE  Announced(m, r)
<1> DEFINE s == Reach(e, stream)
<1>1. \/ r = e
      \/ /\ Shape(s) /\ Taken(s) /\ s.candidate = e.candidate /\ s.stream = stream
         /\ s.out = e.out
         /\ Rests(s, r)
  BY CheckEndingRests DEF Announced
<1> HIDE DEF s
<1>2. ASSUME m.out = <<>>, e.out = <<>>
      PROVE  Follows(m.out, e.candidate) /\ Clear(e.out)
  <2>1. 1 .. Len(<<>>) = {}
    OBVIOUS
  <2> QED BY <1>2, <2>1 DEF Follows, Candidates, Clear
<1>3. Follows(m.out, e.candidate) /\ Clear(e.out)
  BY <1>2 DEF Announced
<1>4. CASE s.candidate = e.candidate /\ s.out = e.out /\ Taken(s) /\ Rests(s, r)
  <2>1. Announced(m, s)
    BY <1>3, <1>4 DEF Announced
  <2> QED BY <1>4, <2>1, EngineRests
<1> QED
  BY <1>1, <1>4

\* One call on the engine's thread.
LEMMA EngineHears ==
    ASSUME NEW m, NEW e, NEW opens, NEW rest, Announced(m, e), Fits(m), Sound(e), m.out # <<>>
    PROVE  Announced([m EXCEPT !.out = Tail(@)], Run(e, Head(m.out), opens, rest))
<1> DEFINE x == Head(m.out)
           n == [m EXCEPT !.out = Tail(@)]
           r == Run(e, x, opens, rest)
<1>0. n.out = Tail(m.out) /\ n.queue = m.queue /\ n.upcoming = m.upcoming
  BY DEF Fits, Typed, MainFields
<1>1. CallFit(x) /\ IsSeq(m.out) /\ Shape(e)
  BY TailFits DEF Fits, Typed, Calls, Sound
<1>a. ASSUME NEW d, NullId(d), Arrives(x, e.candidate, d)
      PROVE  Hears(n, d) /\ (Follows(m.out, e.candidate) => Follows(n.out, d))
  BY <1>0, <1>1, <1>a, TailHears, TailFollows DEF Announced
<1> HIDE DEF n
<1>2. CASE x.call # "candidate"
  <2>1. Rests(e, r) /\ (SwitchesOff(x) => r.candidate = NoTrack)
    BY <1>1, <1>2, RunRests DEF Announced
  <2> HIDE DEF r, x
  <2>2. Announced(m, r)
    BY <2>1, EngineRests
  <2>3. Arrives(x, e.candidate, r.candidate)
    BY <1>2, <2>1 DEF Arrives, Rests, NoTrack
  <2>4. Hears(n, r.candidate) /\ (Follows(m.out, e.candidate) => Follows(n.out, r.candidate))
    BY <1>a, <2>2, <2>3 DEF Announced
  <2>5. Late(r) => Follows(m.out, e.candidate)
    BY <2>1 DEF Rests, Starts, Late, Announced
  <2>6. Announced(n, r)
    BY <1>0, <2>2, <2>4, <2>5 DEF Announced
  <2> QED BY <2>6 DEF r, x, n
<1>3. CASE x.call = "candidate"
  <2>1. NullId(x.item) /\ r = SetCandidate(e, x.item)
    BY <1>1, <1>3 DEF CallFit, Run
  <2>2. /\ r.stream = e.stream /\ r.out = e.out /\ Taken(r)
        /\ r.candidate \in {e.candidate, x.item}
        /\ \/ r.candidate.item = x.item.item
           \/ r = e /\ e.armed.track # 0 /\ e.armed.adopted
    BY <1>1, <2>1, SetCandidateRests DEF Announced
  <2> HIDE DEF r
  <2>3. r.candidate.item \in {0, x.item.item}
    <3>1. ASSUME r = e, e.armed.track # 0, e.armed.adopted
          PROVE  e.candidate.item \in {0, x.item.item}
      <4>1. Late(e)
        BY <3>1 DEF Announced, Taken, Late
      <4>2. x = m.out[1] /\ 1 \in 1 .. Len(m.out)
        BY <1>1, HeadGone
      <4>3. 1 \in Candidates(m.out)
        BY <1>3, <4>2 DEF Candidates
      <4>4. e.candidate.item \in {0, x.item.item} \/ Break(m.out, 1, 1)
        BY <4>1, <4>2, <4>3 DEF Announced, Follows
      <4>5. ~Break(m.out, 1, 1)
        BY <1>3, <4>2 DEF Break, SwitchesOff
      <4> QED BY <4>4, <4>5
    <3> QED BY <2>2, <3>1
  <2>4. NullId(r.candidate) /\ Arrives(x, e.candidate, r.candidate)
    BY <1>3, <2>1, <2>2, <2>3 DEF Announced, Arrives
  <2>5. Hears(n, r.candidate) /\ (Follows(m.out, e.candidate) => Follows(n.out, r.candidate))
    BY <1>a, <2>4
  <2>6. Late(r) => Late(e)
    BY <2>2 DEF Late
  <2>7. Announced(n, r)
    BY <1>0, <2>2, <2>4, <2>5, <2>6 DEF Announced
  <2> QED BY <2>7 DEF r, n
<1> QED
  BY <1>2, <1>3

\* A step of the player that says nothing of the next track.
LEMMA MainPasses ==
    ASSUME NEW m, NEW e, NEW r, Announced(m, e), Passes(m, r)
    PROVE  Announced(r, e)
BY MuteHears, MuteFollows DEF Announced, Passes, Slips, Mute

\* One signal on the main thread.
LEMMA MainHandles ==
    ASSUME NEW m, NEW e, Announced(m, e), Fits(m), m.pool # {}, Shape(e), e.out # <<>>
    PROVE  Announced(Handle(m, Head(e.out)), [e EXCEPT !.out = Tail(@)])
<1> DEFINE s == Head(e.out)
           r == Handle(m, s)
           t == [e EXCEPT !.out = Tail(@)]
<1>0. /\ t.out = Tail(e.out) /\ t.candidate = e.candidate /\ t.stream = e.stream
      /\ t.armed = e.armed /\ t.prepared = e.prepared
  BY DEF Shape, EngineFields
<1> HIDE DEF t
<1>1. /\ Len(Tail(e.out)) = Len(e.out) - 1 /\ Len(e.out) \in Nat \ {0}
      /\ Head(e.out) = e.out[1] /\ \A k \in 1 .. Len(e.out) - 1 : Tail(e.out)[k] = e.out[k + 1]
  BY TailSeq DEF Shape, SignalsOk
<1>2. 1 \in 1 .. Len(e.out) /\ \A k \in 1 .. Len(e.out) - 1 : k + 1 \in 1 .. Len(e.out)
  BY <1>1
<1>3. SignalOk(s)
  BY <1>1, <1>2 DEF Shape, SignalsOk
<1>4. Clear(e.out) => ~Settles(s) /\ Clear(t.out)
  BY <1>0, <1>1, <1>2 DEF Clear
<1>5. r.queue = <<>> /\ Hears(r, e.candidate)
  BY <1>3, HandleGoes DEF Announced
<1>6. ASSUME Late(e)
      PROVE  Follows(r.out, e.candidate) /\ Clear(t.out)
  <2>1. ~Settles(s) /\ Clear(t.out) /\ Follows(m.out, e.candidate)
    BY <1>4, <1>6 DEF Announced
  <2> QED BY <1>3, <2>1, HandleFollows DEF Announced
<1> HIDE DEF r
<1>7. Announced(r, t)
  BY <1>0, <1>5, <1>6 DEF Announced, Taken, Late
<1> QED
  BY <1>7 DEF r, s, t

\* Every step keeps it.
LEMMA NextAnnounces ==
    ASSUME TInv, IInv, Announced(main, engine), Without({"enqueue"}), [Next]_vars
    PROVE  Announced(main', engine')
<1>u. CASE UNCHANGED vars
  BY <1>u DEF vars
<1> SUFFICES ASSUME Next PROVE Announced(main', engine')
  BY <1>u
<1>1. NamesLeft
  BY DEF Next
<1>2. /\ Fits(Main) /\ MKeeps(main, Main, {"pool"}) /\ Main.pool # {}
      /\ EngineTyped(Engine) /\ Keeps(engine, Engine, {"pool"})
  BY <1>1, Given
<1>3. Sound(Engine) /\ Shape(Engine) /\ Shape(engine)
  BY Renamed DEF Engine, IInv, Sound
<1>4. /\ Main.queue = main.queue /\ Main.upcoming = main.upcoming /\ Main.out = main.out
      /\ Main.armed = main.armed
      /\ Engine.candidate = engine.candidate /\ Engine.stream = engine.stream
      /\ Engine.armed = engine.armed /\ Engine.prepared = engine.prepared
      /\ Engine.out = engine.out
  BY <1>2 DEF MKeeps, MainFields, Keeps, EngineFields
<1>5. Announced(Main, engine) /\ Announced(main, Engine)
  BY <1>4, AnnouncedAlike
<1>m. ASSUME NEW m, Fits(m), Announced(m, engine), main' = Settled(m), UNCHANGED engine
      PROVE  Announced(main', engine')
  <2>1. MKeeps(m, Settled(m), {"pool"})
    BY <1>m, RenamedFits DEF Settled
  <2>2. /\ main'.queue = m.queue /\ main'.upcoming = m.upcoming /\ main'.out = m.out
    BY <1>m, <2>1 DEF MKeeps, MainFields
  <2> QED BY <1>m, <2>2, AnnouncedAlike
<1>e. ASSUME NEW e, NEW n, EngineTyped(e), Announced(n, e), engine' = Settled(e), main' = n
      PROVE  Announced(main', engine')
  <2>1. Keeps(e, engine', {"pool"})
    BY <1>e, SettledEngine
  <2>2. /\ engine'.candidate = e.candidate /\ engine'.stream = e.stream
        /\ engine'.armed = e.armed /\ engine'.prepared = e.prepared /\ engine'.out = e.out
    BY <2>1 DEF Keeps, EngineFields
  <2> QED BY <1>e, <2>2, AnnouncedAlike
<1>6. CASE UserSteps
  <2>1. \A m, c : Commanded(c, m) => main' = Settled(m) /\ UNCHANGED engine
    BY DEF Commanded
  <2>2. ASSUME NEW m, NEW c, Passes(Main, m), Commanded(c, m)
        PROVE  Announced(main', engine')
    BY <1>5, <1>m, <2>1, <2>2, MainPasses DEF Passes, Slips
  <2>3. CASE UserPlayPause
    BY <1>2, <2>2, <2>3, PlayOrPasses DEF UserPlayPause
  <2>4. CASE UserStop
    BY <1>2, <2>2, <2>4, StopPasses DEF UserStop
  <2>5. CASE UserNext
    BY <1>2, <2>2, <2>5, SkipPasses DEF UserNext
  <2>6. CASE UserSelect
    BY <1>2, <2>2, <2>6, SelectPasses DEF UserSelect
  <2>7. ~UserEnqueue
    <3>1. \A m : Commanded("enqueue", m) => "enqueue" \in scenario.does
      BY DEF Commanded
    <3> QED BY <3>1 DEF UserEnqueue, Without
  <2>8. ~UserClearQueue
    BY DEF UserClearQueue, Announced
  <2>9. CASE UserArm
    <3> DEFINE on == ~main.armed
               m  == SetArmed(Main, on)
    <3>1. Commanded("arm", m)
      BY <2>9 DEF UserArm
    <3>2. on \in BOOLEAN /\ Main.armed # on
      BY <1>2, <1>4 DEF Fits, Typed
    <3> HIDE DEF on
    <3>3. /\ Moves(Main, m) /\ m.queue = Main.queue
      BY <1>2, <3>2, SetArmedMoves
    <3>4. Follows(Main.out, engine.candidate) => Follows(m.out, engine.candidate)
      BY <1>2, <1>5, <3>2, SetArmedFollows DEF Announced
    <3> HIDE DEF m
    <3>5. Announced(m, engine)
      BY <1>5, <3>3, <3>4 DEF Announced, Moves
    <3> QED BY <1>m, <2>1, <3>1, <3>3, <3>5 DEF Moves
  <2> QED BY <1>6, <2>3, <2>4, <2>5, <2>6, <2>7, <2>8, <2>9 DEF UserSteps
<1>7. CASE EngineReceives
  <2> DEFINE x == Head(main.out)
             n == [main EXCEPT !.out = Tail(@)]
  <2>1. PICK opens \in Opens, rest \in BOOLEAN :
                engine' = Settled(Run(Engine, x, opens, rest))
    BY <1>7 DEF EngineReceives
  <2>2. main.out # <<>> /\ main' = n
    BY <1>7 DEF EngineReceives
  <2> DEFINE e == Run(Engine, x, opens, rest)
  <2>3. CallFit(x) /\ Fits(main)
    BY <2>2, TailFits DEF TInv
  <2>4. EngineTyped(e)
    BY <1>1, <2>3, Given, RunObeys DEF Obeys
  <2>5. Announced(n, e)
    BY <1>3, <1>5, <2>2, <2>3, EngineHears
  <2> HIDE DEF e, n
  <2> QED BY <1>e, <2>1, <2>2, <2>4, <2>5 DEF e
<1>8. CASE HandlerReceives
  <2> DEFINE m == Handle(Main, Head(engine.out))
             t == [engine EXCEPT !.out = Tail(@)]
  <2>1. engine.out # <<>> /\ main' = Settled(m) /\ engine' = t
    BY <1>8 DEF HandlerReceives
  <2>2. Announced(m, t)
    BY <1>2, <1>3, <1>5, <2>1, MainHandles
  <2>3. Fits(m)
    BY <1>2, <2>1, TailEngine, HandleGoes DEF TInv
  <2> HIDE DEF m, t
  <2>4. MKeeps(m, Settled(m), {"pool"})
    BY <2>3, RenamedFits DEF Settled
  <2>5. /\ main'.queue = m.queue /\ main'.upcoming = m.upcoming /\ main'.out = m.out
    BY <2>1, <2>4 DEF MKeeps, MainFields
  <2> QED BY <2>1, <2>2, <2>5, AnnouncedAlike
<1>9. CASE PositionUpdate
  <2>1. PICK e \in Updates : EngineSteps(e)
    BY <1>9 DEF PositionUpdate
  <2>2. EngineTyped(e)
    BY <1>1, UpdateTyped DEF Runs
  <2>3. Announced(main, e)
    <3> DEFINE renders == IF IsArmed(engine) THEN BOOLEAN ELSE {FALSE}
               idle == engine.playback # "playing" \/ engine.stream = "none"
               all  == {CheckEnding(Engine, stream, heard, rendered, rest, how) :
                           stream \in Later(engine.stream),
                           heard \in BOOLEAN,
                           rendered \in renders, rest \in BOOLEAN, how \in Hows}
    <3>1. Updates = IF idle THEN {} ELSE all
      BY DEF Updates
    <3> HIDE DEF all, renders
    <3>2. e \in all /\ engine.stream # "none"
      BY <3>1
    <3>3. PICK stream \in Later(engine.stream), heard \in BOOLEAN,
               rendered \in renders, rest \in BOOLEAN, how \in Hows :
                  e = CheckEnding(Engine, stream, heard, rendered, rest, how)
      BY <3>2 DEF all
    <3>4. engine.stream \in StreamType
      BY DEF TInv, EngineTyped
    <3>5. engine.stream = "drained" => stream = "drained"
      BY DEF Later
    <3>6. Late(engine) \/ NothingOnItsWay
      BY <3>2, <3>4 DEF Later, Late, StreamType
    <3> QED BY <1>3, <1>4, <1>5, <3>3, <3>5, <3>6, EngineEnds DEF NothingOnItsWay, Late
  <2> QED BY <1>e, <2>1, <2>2, <2>3 DEF EngineSteps
<1>10. CASE PrepareDone
  <2>1. PICK how \in Hows, now \in Hows : EngineSteps(JobDone(Engine, how, now))
    BY <1>10 DEF PrepareDone, JobMayEnd
  <2> DEFINE e == JobDone(Engine, how, now)
  <2>2. Engine.job.track # 0
    BY <1>2, <1>10 DEF PrepareDone, JobMayEnd, Keeps, EngineFields
  <2>3. Rests(Engine, e) /\ EngineTyped(e)
    BY <1>1, <1>3, <2>2, Given, JobDoneTurns, JobDoneRests DEF Runs
  <2> HIDE DEF e
  <2> QED BY <1>5, <1>e, <2>1, <2>3, EngineRests DEF EngineSteps, e
<1>11. CASE StopTimerFires
  <2>1. PICK gen \in engine.timers : EngineSteps(StopTimer(Engine, gen))
    BY <1>11 DEF StopTimerFires
  <2> DEFINE e == StopTimer(Engine, gen)
  <2>2. Rests(Engine, e) /\ EngineTyped(e)
    BY <1>1, <1>3, Given, StopTimerObeys, StopRests DEF Obeys
  <2> HIDE DEF e
  <2> QED BY <1>5, <1>e, <2>1, <2>2, EngineRests DEF EngineSteps, e
<1>12. CASE RestTimerFires \/ WatchdogFires
  <2>1. PICK m : main' = Settled(m) /\ Passes(Main, m) /\ UNCHANGED engine
    <3>1. Passes(Main, WatchdogExpires(Main)) /\ \A t : Passes(Main, RestPlayed(Main, t))
      BY <1>2, TimerPasses
    <3> QED BY <1>12, <3>1 DEF RestTimerFires, WatchdogFires, MainSteps
  <2> QED BY <1>5, <1>m, <2>1, MainPasses DEF Passes, Slips
<1> QED
  BY <1>6, <1>7, <1>8, <1>9, <1>10, <1>11, <1>12 DEF Next

LEMMA InitAnnounced == Init => Announced(main, engine)
<1> SUFFICES ASSUME Init PROVE Announced(main, engine)
  OBVIOUS
<1>1. PICK gapless \in BOOLEAN : main = Fresh(gapless) /\ engine = StartEngine(gapless)
  BY DEF Init
<1>2. /\ main.queue = <<>> /\ main.out = <<>>
      /\ engine.stream = "none" /\ engine.candidate = NoTrack /\ engine.armed = NoGapless
  BY <1>1 DEF Fresh, StartEngine
<1>3. 1 .. Len(<<>>) = {}
  OBVIOUS
<1>4. Hears(main, engine.candidate)
  BY <1>2, <1>3 DEF Hears, Candidates, NoTrack
<1>5. NullId(NoTrack) /\ Taken(engine) /\ ~Late(engine)
  BY <1>2 DEF NullId, NoTrack, Taken, NoGapless, Late
<1> QED
  BY <1>2, <1>4, <1>5 DEF Announced

\* Where nothing is queued, the track that the engine will go on to is the one
\* that the player announces, once every call and signal has arrived: although the
\* engine ignores what is announced once the next decoder has taken over, gives
\* up what follows on its own, and the player announces anew at every signal.
THEOREM SameNext == Spec => []UpcomingAgrees
<1>1. Init => TInv /\ IInv /\ HInv
  BY InitTyped, InitSound, InitAnnounced DEF HInv
<1>2. TInv /\ IInv /\ [Next]_vars => TInv' /\ IInv'
  BY NextTypes, NextSound
<1>3. TInv /\ IInv /\ HInv /\ [Next]_vars => HInv'
  <2> SUFFICES ASSUME TInv, IInv, HInv, [Next]_vars, Without({"enqueue"})'
               PROVE  Announced(main', engine')
    BY DEF HInv
  <2>1. scenario' = scenario
    BY DEF Next, vars, UserSteps, UserPlayPause, UserStop, UserNext, UserSelect, UserEnqueue,
           UserClearQueue, UserArm, Commanded, EngineReceives, HandlerReceives,
           PositionUpdate, PrepareDone, StopTimerFires, EngineSteps, RestTimerFires,
           WatchdogFires, MainSteps
  <2>2. Without({"enqueue"})
    BY <2>1 DEF Without
  <2> QED BY <2>2, NextAnnounces DEF HInv
<1>4. TInv /\ HInv => UpcomingAgrees
  <2> SUFFICES ASSUME TInv, Announced(main, engine), NothingOnItsWay, engine.candidate.track # 0
               PROVE  Same(main.upcoming, engine.candidate)
    BY DEF HInv, UpcomingAgrees, Quiet
  <2>1. Candidates(main.out) = {}
    BY DEF NothingOnItsWay, Candidates
  <2>2. engine.candidate.item = main.upcoming.item
    BY <2>1 DEF Announced, Hears
  <2>3. engine.candidate.item # 0
    BY DEF Announced, NullId
  <2> QED BY <2>2, <2>3 DEF Same
<1> QED
  BY <1>1, <1>2, <1>3, <1>4, PTL DEF Spec
=============================================================================
