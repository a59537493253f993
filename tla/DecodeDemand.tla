---------------------------- MODULE DecodeDemand ----------------------------
(***************************************************************************)
(* The loop that keeps a playing stream fed.  The audio thread drains the     *)
(* stream and signals that it runs low (PipelineSignals); the engine thread   *)
(* starts the decode timer, whose ticks schedule decode jobs; a worker thread *)
(* runs them; and the result of a job stops the timer                        *)
(* (src/core/engine/decode/decodingcontroller.cpp, audioengine.cpp,           *)
(* control/positioncoordinator.cpp).                                        *)
(*                                                                         *)
(* The level of the stream's buffer is counted in decoded chunks.  The track  *)
(* does not end and is not remote.                                          *)
(***************************************************************************)
EXTENDS Integers

CONSTANTS
    Space,            \* the stream's capacity
    BufferLow,        \* isBufferLow: less than a quarter of the capacity
    Low, High,        \* the decode watermarks
    MaxReinits        \* bound: times the output is opened anew

ASSUME WatermarksAssumption ==
    /\ {Space, BufferLow, Low, High} \subseteq Nat \ {0}
    /\ BufferLow <= Space /\ Low <= High /\ High <= Space
    /\ MaxReinits \in Nat

VARIABLES
    storeBuffer, bits, wakePosted, lateStore, events, fades, demandNotified, audio,
    signal, engine, taken, completed, stops,     \* as in PipelineSignals
    level,            \* what the stream holds
    timer,            \* whether the decode timer runs
    fill,             \* fillUntilTarget
    job,              \* decodeJobPending, and where the worker is in the job
    jobStale,         \* decodeGen moved on since the job was scheduled
    result,           \* completedDecodeResult
    reinit, reinits   \* how far the engine is in reopening the output; how often it did

Mailbox == INSTANCE PipelineSignals
    WITH MaxQueuedFades <- 1, FadeDrainBatch <- 1, StoreBuffers <- {TRUE},
         MaxFades <- 0, MaxStops <- 0

signalVars == <<storeBuffer, bits, wakePosted, lateStore, events, fades, demandNotified,
                audio, signal, engine, taken, completed, stops>>
decodeVars == <<timer, fill, job, jobStale, result>>
reinitVars == <<reinit, reinits>>
vars       == <<signalVars, level, decodeVars, reinitVars>>

\* startDecoding has just been called.
Init ==
    /\ Mailbox!Init
    /\ level \in 0 .. Space
    /\ timer = TRUE /\ fill = TRUE
    /\ job = "none" /\ jobStale = FALSE /\ result = "none"
    /\ reinit = "no" /\ reinits = 0

-----------------------------------------------------------------------------
(* The audio thread: processAudio.                                          *)

NotifyDataDemand(required) ==
    IF ~required THEN Mailbox!DemandOver
    ELSE \/ Mailbox!DemandData
         \/ demandNotified /\ audio = "run" /\ UNCHANGED signalVars

\* Without an output, processAudio does nothing.
HasOutput == reinit \in {"no", "uninit"}

\* A cycle that renders some of the stream.
Render ==
    /\ HasOutput
    /\ level > 0
    /\ level' = level - 1
    /\ NotifyDataDemand(level' < BufferLow)
    /\ UNCHANGED <<decodeVars, reinitVars>>

\* handleMixerUnderrun: nothing to render.
Underrun ==
    /\ HasOutput
    /\ level = 0
    /\ NotifyDataDemand(TRUE)
    /\ UNCHANGED <<level, decodeVars, reinitVars>>

\* handleNoFreeFrames: the output takes nothing in this cycle.
OutputFull ==
    /\ HasOutput
    /\ NotifyDataDemand(FALSE)
    /\ UNCHANGED <<level, decodeVars, reinitVars>>

\* The commands of AudioPipeline::uninit and init, which the engine waits for.
ReopenOutput ==
    /\ reinit \in {"uninit", "init"}
    /\ Mailbox!ResetQueuedNotifications
    /\ reinit' = IF reinit = "uninit" THEN "init" ELSE "opened"
    /\ UNCHANGED <<level, decodeVars, reinits>>

-----------------------------------------------------------------------------
(* The engine thread.                                                       *)

\* The mailbox's own steps, up to the handling of what was taken.
Signalling ==
    /\ \/ Mailbox!MarkStep \/ Mailbox!StoreSeen
       \/ reinit = "no" /\ (Mailbox!DrainStep \/ Mailbox!DrainFadeEvents)
    /\ UNCHANGED <<level, decodeVars, reinitVars>>

\* handlePipelineWakeSignals: ensureDecodeTimerRunning.
HandleNeedsData ==
    /\ Mailbox!WakeHandled /\ reinit = "no"
    /\ timer' = (timer \/ "NeedsData" \in taken)
    /\ UNCHANGED <<level, fill, job, jobStale, result, reinitVars>>

EngineFree == engine = "idle" /\ reinit = "no"

\* Mutant: stopping the timer leaves the job that is under way valid.
InvalidatedMutant == jobStale

\* invalidateDecodeJobs: what a job still under way is worth afterwards.
Invalidated == job # "none"

\* handleTimer: take the result of the last job, or schedule one.  A job that
\* was done filling stops the timer.
DecodeTick ==
    /\ EngineFree /\ timer
    /\ result' = "none"
    /\ IF result = "stop"
       THEN /\ timer' = FALSE
            /\ jobStale' = Invalidated
            /\ UNCHANGED job
       ELSE /\ IF job = "none"
               THEN job' = "queued" /\ jobStale' = FALSE
               ELSE UNCHANGED <<job, jobStale>>
            /\ UNCHANGED timer
    /\ UNCHANGED <<signalVars, level, fill, reinitVars>>

\* Mutant: the position update does not look after the decode timer.
NeedsDecodeTimerMutant == FALSE

\* PositionCoordinator's needsDecodeTimer, while playing.
NeedsDecodeTimer == ~timer /\ level < Low

SyncPosition ==
    /\ EngineFree
    /\ NeedsDecodeTimer
    /\ timer' = TRUE
    /\ UNCHANGED <<signalVars, level, fill, job, jobStale, result, reinitVars>>

\* reinitOutputForCurrentFormat stops the timer, if it runs, and starts it again
\* once the output is open; the worker is not waited for.
ReinitBegin ==
    /\ EngineFree
    /\ reinits < MaxReinits
    /\ reinits' = reinits + 1
    /\ reinit' = "uninit"
    /\ timer' = FALSE
    /\ IF timer
       THEN result' = "none" /\ jobStale' = Invalidated
       ELSE UNCHANGED <<result, jobStale>>
    /\ UNCHANGED <<signalVars, level, fill, job>>

ReinitEnd ==
    /\ reinit = "opened" /\ audio = "run"
    /\ reinit' = "no"
    /\ timer' = TRUE
    /\ UNCHANGED <<signalVars, level, fill, job, jobStale, result, reinits>>

-----------------------------------------------------------------------------
(* The worker: runDecodeLoop.                                               *)

StartJob ==
    /\ job = "queued"
    /\ job' = "started"
    /\ fill' = (fill \/ level < Low)
    /\ UNCHANGED <<signalVars, level, timer, jobStale, result, reinitVars>>

\* Mutant: the burst does not look at the free space.
HasSpaceMutant == TRUE

HasSpace == level < Space

\* Each chunk goes to the stream at once; the target ends the burst.
DecodeChunk ==
    /\ job \in {"started", "burst"}
    /\ fill /\ HasSpace
    /\ level' = level + 1
    /\ job' = IF level' >= High THEN "filled" ELSE "burst"
    /\ UNCHANGED <<signalVars, timer, fill, jobStale, result, reinitVars>>

\* The burst ends at its target, at its limits of chunks and time, or when
\* there is nothing to do.
FinishJob ==
    /\ \/ job \in {"burst", "filled"}
       \/ job = "started" /\ (~fill \/ ~HasSpace)
    /\ job' = "none"
    /\ fill' = (fill /\ level < High)
    /\ result' = IF jobStale THEN result
                 ELSE IF ~fill' \/ level = Space THEN "stop" ELSE "go"
    /\ UNCHANGED <<signalVars, level, timer, jobStale, reinitVars>>

-----------------------------------------------------------------------------
AudioStep  == Render \/ Underrun
EngineStep ==
    HandleNeedsData \/ ReinitEnd \/ ((Mailbox!DrainStep \/ Mailbox!DrainFadeEvents) /\ Signalling)
WorkerStep == StartJob \/ DecodeChunk \/ FinishJob

Next ==
    \/ Render \/ Underrun \/ OutputFull \/ ReopenOutput
    \/ Signalling \/ HandleNeedsData
    \/ DecodeTick \/ SyncPosition \/ ReinitBegin \/ ReinitEnd
    \/ StartJob \/ DecodeChunk \/ FinishJob

\* The audio thread keeps running cycles, runs the commands that come in
\* between two of them, and finishes its calls; the engine's
\* event loop delivers wakes and fires both timers, the worker finishes jobs.
\* That the output is ever full is not assumed.
Fairness ==
    /\ WF_vars(AudioStep)
    /\ SF_vars(ReopenOutput)
    /\ WF_vars((Mailbox!MarkStep \/ Mailbox!StoreSeen) /\ Signalling)
    /\ WF_vars(EngineStep)
    /\ SF_vars(DecodeTick)
    /\ SF_vars(SyncPosition)
    /\ WF_vars(WorkerStep)

Spec == Init /\ [][Next]_vars /\ Fairness

-----------------------------------------------------------------------------
(* Properties.                                                              *)

\* Every variable has its type, and the worker never overfills the stream.
TypeOK ==
    /\ Mailbox!TypeOK
    /\ level \in 0 .. Space
    /\ timer \in BOOLEAN /\ fill \in BOOLEAN /\ jobStale \in BOOLEAN
    /\ job \in {"none", "queued", "started", "burst", "filled"}
    /\ result \in {"none", "go", "stop"}
    /\ reinit \in {"no", "uninit", "init", "opened"} /\ reinits \in Nat

\* A stream that has run dry is fed again, whatever became of the signal: the
\* latch on the demand may be set already, the wake may be lost, and a result
\* from before the demand may have stopped the timer since.
DryStreamIsFed == level = 0 ~> level > 0

\* A stopped timer forgets the jobs of its time: the first result taken after
\* it is started again is from a job scheduled since.
StoppedTimerForgets == ~timer => (result = "none" /\ (job # "none" => jobStale))
=============================================================================
