-------------------------- MODULE NextTrackPrepare --------------------------
(***************************************************************************)
(* How the engine uses the preparation worker: for the track that follows,    *)
(* and for a remote track the user chose while another plays, which starts    *)
(* only once enough of it is buffered (src/core/engine/audioengine.cpp).      *)
(*                                                                         *)
(* A call of the engine that cancels and then requests anew keeps the request *)
(* in todo while the abort is under way.  Crossfades are configured; seeks    *)
(* and transitions already handed to the pipeline are left out.             *)
(***************************************************************************)
EXTENDS NextTrackPrepareWorker

CONSTANTS
    Items,            \* playback items
    Remote,           \* those that are remote streams
    Calls,            \* what happens besides manual changes that can wait
    MaxTracks         \* bound: tracks that become current, the first included

NoItem    == "none"
NoSubject == [item |-> NoItem, id |-> 0]

ASSUME ItemsAssumption ==
    /\ Remote \subseteq Items /\ NoItem \notin Items
    /\ Subjects = [item : Items, id : 0 .. MaxJobs]
    /\ Calls \subseteq {"load", "upcoming", "prepare", "drain", "advance", "clear"}
    /\ MaxTracks \in Nat \ {0}

VARIABLES
    current,          \* m_currentTrack
    generation,       \* m_trackGeneration
    candidate,        \* m_upcomingTrackCandidate
    prepared,         \* m_preparedNext, by its item
    manual,           \* m_pendingManualRemoteCrossfade
    nextManualId,     \* m_nextManualRemoteCrossfadeRequestId
    drainAsked,       \* m_autoAdvanceState.drainPrepareRequested
    todo,             \* the request the engine makes when its cancel returns
    wanted,           \* history: what the user chose last, until playback moves on
    late              \* history: a track was started that the user had given up

trackVars  == <<current, generation>>
engineVars == <<trackVars, candidate, prepared, manual, nextManualId, drainAsked, todo,
                wanted, late>>
vars == <<workerVars, engineVars>>

NoManual == [item |-> NoItem, id |-> 0, generation |-> 0]

Init ==
    /\ WorkerInit
    /\ current \in Items /\ generation = 1
    /\ candidate = NoItem /\ prepared = NoItem
    /\ manual = NoManual /\ nextManualId = 1
    /\ drainAsked = FALSE
    /\ todo = NoSubject /\ wanted = NoItem /\ late = FALSE

\* A preparation of the track that follows has id 0.
FollowUp(i)       == [item |-> i, id |-> 0]
InvolvesRemote(i) == current \in Remote \/ i \in Remote
EngineFree        == caller = "free" /\ todo = NoSubject

\* Track i becomes current.  What is prepared is used up when it is i; another
\* may be replaced by a preparation of i in the engine thread, and used up too.
Commit(i) ==
    /\ generation < MaxTracks
    /\ current' = i /\ generation' = generation + 1
    /\ prepared' \in {NoItem, prepared} \ {i}
    /\ candidate' = IF candidate = i THEN NoItem ELSE candidate
    /\ drainAsked' = FALSE

\* Clear what is prepared or pending, and cancel its jobs.
ClearPrepared ==
    /\ CancelPendingJobs
    /\ manual' = NoManual /\ prepared' = NoItem

-----------------------------------------------------------------------------
(* A manual change: loadTrack(item, true).  The cancels it makes on its way    *)
(* are one here.                                                            *)

\* loadTrack keeps what is pending for the very item that is asked for.
Keeps(i) == manual # NoManual /\ manual.item = i

\* The target is remote, or current is: its preparation is queued, also when i
\* is prepared but has no stream that is buffered enough, which prepared does
\* not tell.
DeferManual(i) ==
    /\ EngineFree /\ nextToken <= MaxJobs
    /\ InvolvesRemote(i) /\ ~Keeps(i)
    /\ CancelPendingJobs
    /\ manual' = [item |-> i, id |-> nextManualId, generation |-> generation]
    /\ nextManualId' = nextManualId + 1
    /\ prepared' = NoItem
    /\ todo' = [item |-> i, id |-> nextManualId]
    /\ wanted' = i
    /\ UNCHANGED <<trackVars, candidate, drainAsked, late>>

\* "already pending": nothing is done.
ManualPending(i) ==
    /\ EngineFree
    /\ InvolvesRemote(i) /\ Keeps(i)
    /\ wanted' = i
    /\ UNCHANGED <<workerVars, trackVars, candidate, prepared, manual, nextManualId,
                   drainAsked, todo, late>>

\* Prepared already, both local, or not eligible to be deferred: it is loaded
\* at once, in the engine thread.  Between local tracks what runs is cancelled.
LoadNow(i) ==
    /\ EngineFree
    /\ "load" \in Calls
    /\ Commit(i)
    /\ manual' = IF Keeps(i) THEN manual ELSE NoManual
    /\ \/ Keeps(i) /\ UNCHANGED workerVars
       \/ ~(Keeps(i) /\ InvolvesRemote(i)) /\ CancelPendingJobs
    /\ wanted' = NoItem
    /\ UNCHANGED <<nextManualId, todo, late>>

-----------------------------------------------------------------------------
(* The track that follows.                                                  *)

\* setUpcomingTrackCandidate is put off while a manual change is pending, and
\* prepares at once only for a crossfade: what is prepared without a stream is
\* asked for once more.
SetUpcoming(i) ==
    /\ EngineFree
    /\ "upcoming" \in Calls /\ i # candidate
    /\ candidate' = i /\ drainAsked' = FALSE
    /\ IF manual # NoManual
       THEN UNCHANGED <<workerVars, prepared, todo>>
       ELSE /\ CancelPendingJobs
            /\ prepared' = IF i = current \/ InvolvesRemote(i) \/ prepared # i
                           THEN NoItem ELSE prepared
            /\ \/ UNCHANGED todo
               \/ /\ i \notin {NoItem, current} /\ ~InvolvesRemote(i)
                  /\ nextToken <= MaxJobs
                  /\ todo' = FollowUp(i)
    /\ UNCHANGED <<trackVars, manual, nextManualId, wanted, late>>

\* prepareNextTrack.
PrepareNext(i) ==
    /\ EngineFree
    /\ "prepare" \in Calls /\ prepared # i
    /\ IF i = NoItem \/ InvolvesRemote(i)
       THEN ClearPrepared
       ELSE prepared' = NoItem /\ ReplacePending(FollowUp(i)) /\ UNCHANGED manual
    /\ UNCHANGED <<trackVars, candidate, nextManualId, drainAsked, todo, wanted, late>>

\* maybePrepareUpcomingTrackForDrainFill, once the current track is decoded.
DrainFill ==
    /\ EngineFree
    /\ "drain" \in Calls
    /\ candidate \notin {NoItem, current} /\ ~drainAsked
    /\ drainAsked' = TRUE /\ prepared' = NoItem
    /\ ReplacePending(FollowUp(candidate))
    /\ UNCHANGED <<trackVars, candidate, manual, nextManualId, todo, wanted, late>>

Target ==
    IF candidate \notin {NoItem, current} THEN candidate
    ELSE IF prepared # current THEN prepared ELSE NoItem

\* Playback moves on to i.  For a local track that could not be prepared in the
\* engine thread, loadTrack asks the worker once more, and loads it all the same;
\* with a remote track planTrackLoad lets it neither prepare nor cancel anything.
MoveOn(i) ==
    /\ Commit(i)
    /\ wanted' = NoItem
    /\ \/ UNCHANGED todo
       \/ /\ ~InvolvesRemote(i) /\ prepared' = NoItem
          /\ nextToken <= MaxJobs
          /\ todo' = FollowUp(i)

\* tryAutoAdvanceCommit, at the end of the current track: a preparation that
\* it still waits for is cancelled.
AutoAdvance ==
    /\ EngineFree
    /\ "advance" \in Calls
    /\ Target # NoItem
    /\ MoveOn(Target)
    /\ \/ UNCHANGED workerVars
       \/ drainAsked /\ CancelPendingJobs
    /\ UNCHANGED <<manual, nextManualId, late>>

\* loadTrack(item, false), by the player.
LoadAutomatic(i) ==
    /\ EngineFree
    /\ "load" \in Calls
    /\ MoveOn(i)
    /\ UNCHANGED <<workerVars, manual, nextManualId, late>>

\* stop, automatic transitions off, a suspended pause or other decoder hints;
\* the last two keep the candidate.
Clear ==
    /\ EngineFree
    /\ "clear" \in Calls
    /\ ClearPrepared
    /\ candidate' \in {NoItem, candidate}
    /\ drainAsked' \in {FALSE, drainAsked /\ candidate' = candidate}
    /\ wanted' = NoItem
    /\ UNCHANGED <<trackVars, nextManualId, todo, late>>

\* The request made once the cancel has returned.
PlaceRequest ==
    /\ todo # NoSubject
    /\ ReplacePending(todo)
    /\ todo' = NoSubject
    /\ UNCHANGED <<trackVars, candidate, prepared, manual, nextManualId, drainAsked,
                   wanted, late>>

-----------------------------------------------------------------------------
(* The results: applyPreparedNextTrackResult.                                *)

Result == Head(results)

TakeResult ==
    /\ EngineFree /\ results # <<>>
    /\ results' = Tail(results)
    /\ UNCHANGED <<slot, nextToken, activeToken, flag, setFlags, registered, aborted,
                   stopRequested, worker, job, caller, quitting>>

\* Mutant: the result need not be that of the pending request.
CurrentManualMutant == manual # NoManual /\ manual.generation = generation

\* handleManualRemoteCrossfadePreparationResult's test for a stale result.
CurrentManual ==
    /\ manual.id = Result.subject.id
    /\ manual.item = Result.subject.item
    /\ manual.generation = generation

DropResult ==
    /\ TakeResult
    /\ Result.token # activeToken \/ (Result.subject.id # 0 /\ ~CurrentManual)
    /\ UNCHANGED engineVars

\* The crossfade, or a load, starts, and the candidate may be prepared; or the
\* change is rejected.
ManualResult ==
    /\ TakeResult
    /\ Result.token = activeToken /\ Result.subject.id # 0 /\ CurrentManual
    /\ manual' = NoManual
    /\ \/ /\ Result.prepared
          /\ Commit(Result.subject.item) /\ prepared' = NoItem
          /\ late' = (late \/ Result.subject.item # wanted)
          /\ \/ UNCHANGED todo
             \/ /\ candidate' # NoItem /\ {current', candidate'} \cap Remote = {}
                /\ nextToken <= MaxJobs
                /\ todo' = FollowUp(candidate')
       \/ /\ prepared' = NoItem
          /\ UNCHANGED <<trackVars, candidate, drainAsked, late, todo>>
    /\ wanted' = NoItem
    /\ UNCHANGED nextManualId

\* tryAutoAdvanceCommit runs at once for the candidate, and may find that the
\* current track is over.
FollowUpResult ==
    /\ TakeResult
    /\ Result.token = activeToken /\ Result.subject.id = 0
    /\ LET i == Result.subject.item
       IN  \/ /\ prepared' = IF Result.prepared THEN i ELSE NoItem
              /\ drainAsked' = (drainAsked /\ i # candidate)
              /\ UNCHANGED <<trackVars, candidate, wanted, todo>>
           \/ /\ "advance" \in Calls
              /\ i = candidate /\ i # current
              /\ MoveOn(i) /\ prepared' = NoItem
    /\ UNCHANGED <<manual, nextManualId, late>>

-----------------------------------------------------------------------------
EngineIdle == UNCHANGED engineVars

\* The destructor stops playback, as Clear does, before it stops the worker.
Destroy == EngineFree /\ manual = NoManual /\ prepared = NoItem /\ Stop /\ EngineIdle

Next ==
    \/ \E i \in Items : DeferManual(i) \/ ManualPending(i) \/ LoadNow(i) \/ LoadAutomatic(i)
    \/ \E i \in Items \cup {NoItem} : SetUpcoming(i) \/ PrepareNext(i)
    \/ DrainFill \/ AutoAdvance \/ Clear \/ PlaceRequest
    \/ DropResult \/ ManualResult \/ FollowUpResult
    \/ (CallStep \/ JobStep \/ Unblock) /\ EngineIdle
    \/ RequestBlockingDecoderAbort /\ EngineIdle
    \/ Destroy

Spec == Init /\ [][Next]_vars /\ WorkerFairness /\ WF_vars(PlaceRequest)

-----------------------------------------------------------------------------
(* Properties.                                                              *)

\* Every variable has its type.
TypeOK ==
    /\ WorkerTypeOK
    /\ current \in Items /\ generation \in 1 .. MaxTracks
    /\ {candidate, prepared, wanted, manual.item, todo.item} \subseteq Items \cup {NoItem}
    /\ manual.id < nextManualId /\ manual.generation <= generation
    /\ nextManualId \in 1 .. (MaxJobs + 1)
    /\ drainAsked \in BOOLEAN /\ late \in BOOLEAN

\* A track prepared for a manual change starts only if the user has not chosen
\* another since, playback was not stopped, and no other track has begun.
NoLateStart == ~late

\* While a manual change is pending its preparation is queued, under way or
\* done, so that it commits or is rejected.
PendingManualHasJob ==
    manual # NoManual =>
        /\ manual.generation = generation
        /\ \/ todo.id = manual.id
           \/ slot # NoJob /\ slot.subject.id = manual.id
           \/ job # NoJob /\ job.subject.id = manual.id /\ ~Cancelled
           \/ \E i \in 1 .. Len(results) :
                  results[i].subject.id = manual.id /\ results[i].token = activeToken
=============================================================================
