-------------------------- MODULE PipelineSignals --------------------------
(***************************************************************************)
(* How the audio thread tells the engine thread that a fade completed or     *)
(* that a stream runs low: PipelineSignalMailbox, the queue of fade events    *)
(* and the latch on data demand                                             *)
(* (src/core/engine/pipeline/pipelinesignalmailbox.cpp, audiopipeline.cpp).   *)
(*                                                                         *)
(* One step is one access to one of the mailbox's relaxed atomics.  With a    *)
(* store buffer, the plain store of drain() may become visible to the audio   *)
(* thread after the load that follows it, as relaxed order and x86 allow.     *)
(***************************************************************************)
EXTENDS Integers

CONSTANTS
    MaxQueuedFades,   \* MaxQueuedFadeEvents
    FadeDrainBatch,   \* FadeDrainBatchSize
    StoreBuffers,     \* whether drain()'s store may be seen late: a set of BOOLEANs
    MaxFades,         \* bound: fades completed in a behaviour
    MaxStops          \* bound: times the pipeline is stopped

ASSUME SignalsAssumption ==
    /\ MaxQueuedFades \in Nat \ {0} /\ FadeDrainBatch \in Nat \ {0}
    /\ StoreBuffers \subseteq BOOLEAN
    /\ MaxFades \in Nat /\ MaxStops \in Nat

Signals == {"NeedsData", "FadeEventsReady"}

VARIABLES
    storeBuffer,      \* the member of StoreBuffers that is so
    bits,             \* m_pendingSignalBits
    wakePosted,       \* m_signalWakePosted
    lateStore,        \* drain()'s store of FALSE to it waits in a store buffer
    events,           \* wake events posted to the engine, not delivered
    fades,            \* how many events m_fadeEvents holds
    demandNotified,   \* m_dataDemandNotified
    audio, signal,    \* where the audio thread is in mark(), and what it marks
    engine, taken,    \* where the engine is in a wake, and the bits it took
    completed, stops  \* fades completed and stops so far

mailboxVars == <<storeBuffer, bits, wakePosted, lateStore>>
audioVars   == <<audio, signal>>
engineVars  == <<engine, taken>>
signalVars  == <<mailboxVars, events, fades, demandNotified, audioVars, engineVars,
                 completed, stops>>

Init ==
    /\ storeBuffer \in StoreBuffers
    /\ bits = {} /\ wakePosted = FALSE /\ lateStore = FALSE
    /\ events = 0 /\ fades = 0 /\ demandNotified = FALSE
    /\ audio = "run" /\ signal = "NeedsData"
    /\ engine = "idle" /\ taken = {}
    /\ completed = 0 /\ stops = 0

-----------------------------------------------------------------------------
(* The audio thread.                                                        *)

StartMark(s) == audio' = "mark" /\ signal' = s

HasRoom == fades < MaxQueuedFades

\* queueFadeEvent: an event that finds the queue full is dropped, and nothing
\* is signalled.
QueueFadeEvent ==
    /\ audio = "run"
    /\ completed < MaxFades
    /\ completed' = completed + 1
    /\ IF HasRoom
       THEN fades' = fades + 1 /\ StartMark("FadeEventsReady")
       ELSE UNCHANGED <<fades, audioVars>>
    /\ UNCHANGED <<mailboxVars, events, demandNotified, engineVars, stops>>

\* notifyDataDemand(true) signals once until the demand has gone.
DemandData ==
    /\ audio = "run"
    /\ ~demandNotified
    /\ demandNotified' = TRUE
    /\ StartMark("NeedsData")
    /\ UNCHANGED <<mailboxVars, events, fades, engineVars, completed, stops>>

\* notifyDataDemand(false).
DemandOver ==
    /\ audio = "run"
    /\ demandNotified' = FALSE
    /\ bits' = bits \ {"NeedsData"}
    /\ UNCHANGED <<storeBuffer, wakePosted, lateStore, events, fades, audioVars, engineVars,
                   completed, stops>>

\* mark(): the bit first, ...
MarkBits ==
    /\ audio = "mark"
    /\ bits' = bits \cup {signal}
    /\ audio' = "post"
    /\ UNCHANGED <<storeBuffer, wakePosted, lateStore, events, fades, demandNotified, signal,
                   engineVars, completed, stops>>

\* Mutant: the latch is tested and set apart, so both threads may post.
LatchMutant == FALSE

\* What an exchange of TRUE into m_signalWakePosted tells its caller.
Latch == wakePosted

\* ... then postWakeIfNeeded.
PostWakeIfNeeded ==
    /\ audio = "post"
    /\ wakePosted' = TRUE
    /\ audio' = IF Latch THEN "run" ELSE "send"
    /\ UNCHANGED <<storeBuffer, bits, lateStore, events, fades, demandNotified, signal, engineVars,
                   completed, stops>>

PostEvent ==
    /\ audio = "send"
    /\ events' = events + 1
    /\ audio' = "run"
    /\ UNCHANGED <<mailboxVars, fades, demandNotified, signal, engineVars, completed,
                   stops>>

\* resetQueuedNotifications(false), when the output is opened or closed and on a
\* flush.  The ring is emptied by whoever uses it next, so it is empty at once.
ResetQueuedNotifications ==
    /\ audio = "run"
    /\ fades' = 0
    /\ demandNotified' = FALSE
    /\ bits' = bits \ {"NeedsData"}
    /\ audio' = "clearFades"
    /\ UNCHANGED <<storeBuffer, wakePosted, lateStore, events, signal, engineVars, completed, stops>>

ClearFadeSignal ==
    /\ audio = "clearFades"
    /\ bits' = bits \ {"FadeEventsReady"}
    /\ audio' = "run"
    /\ UNCHANGED <<storeBuffer, wakePosted, lateStore, events, fades, demandNotified, signal,
                   engineVars, completed, stops>>

-----------------------------------------------------------------------------
(* The engine thread: event(), drain() and handlePipelineWakeSignals.         *)

DeliverWake ==
    /\ engine = "idle"
    /\ events > 0
    /\ events' = events - 1
    /\ engine' = "take"
    /\ UNCHANGED <<mailboxVars, fades, demandNotified, audioVars, taken, completed, stops>>

TakeBits ==
    /\ engine = "take"
    /\ taken' = bits
    /\ bits' = {}
    /\ engine' = "allow"
    /\ UNCHANGED <<storeBuffer, wakePosted, lateStore, events, fades, demandNotified, audioVars,
                   completed, stops>>

AllowWake ==
    /\ engine = "allow"
    /\ IF storeBuffer
       THEN lateStore' = TRUE /\ UNCHANGED wakePosted
       ELSE wakePosted' = FALSE /\ UNCHANGED lateStore
    /\ engine' = "look"
    /\ UNCHANGED <<storeBuffer, bits, events, fades, demandNotified, audioVars, taken, completed, stops>>

StoreSeen ==
    /\ lateStore
    /\ wakePosted' = FALSE
    /\ lateStore' = FALSE
    /\ UNCHANGED <<storeBuffer, bits, events, fades, demandNotified, audioVars, engineVars, completed,
                   stops>>

\* Mutant: drain() does not look again after allowing the next wake.
LookAgainMutant ==
    /\ engine = "look"
    /\ engine' = "fades"
    /\ UNCHANGED <<mailboxVars, events, fades, demandNotified, audioVars, taken,
                   completed, stops>>

LookAgain ==
    /\ engine = "look"
    /\ engine' = IF bits # {} THEN "repost" ELSE "fades"
    /\ UNCHANGED <<mailboxVars, events, fades, demandNotified, audioVars, taken,
                   completed, stops>>

\* The exchange is ordered after this thread's own earlier store.
RepostWakeIfNeeded ==
    /\ engine = "repost"
    /\ engine' = IF Latch /\ ~lateStore THEN "fades" ELSE "resend"
    /\ wakePosted' = TRUE
    /\ lateStore' = FALSE
    /\ UNCHANGED <<storeBuffer, bits, events, fades, demandNotified, audioVars, taken, completed, stops>>

RepostEvent ==
    /\ engine = "resend"
    /\ events' = events + 1
    /\ engine' = "fades"
    /\ UNCHANGED <<mailboxVars, fades, demandNotified, audioVars, taken, completed, stops>>

\* Mutant: one batch is read per wake.
MoreFadesMutant == FALSE

\* A full batch may have left some behind.
MoreFades == fades >= FadeDrainBatch

DrainFadeEvents ==
    /\ engine = "fades"
    /\ IF "FadeEventsReady" \in taken
       THEN /\ fades' = IF fades <= FadeDrainBatch THEN 0 ELSE fades - FadeDrainBatch
            /\ engine' = IF MoreFades THEN "fades" ELSE "data"
       ELSE engine' = "data" /\ UNCHANGED fades
    /\ UNCHANGED <<mailboxVars, events, demandNotified, audioVars, taken, completed, stops>>

\* The decode timer is started if the stream ran low (DecodeDemand).
WakeHandled ==
    /\ engine = "data"
    /\ engine' = "idle"
    /\ taken' = {}
    /\ UNCHANGED <<mailboxVars, events, fades, demandNotified, audioVars, completed, stops>>

\* AudioPipeline::stop, by the engine once the audio thread is joined, with
\* resetQueuedNotifications(true); a later start runs a new thread.
Stop ==
    /\ engine = "idle" /\ audio = "run"
    /\ stops < MaxStops
    /\ stops' = stops + 1
    /\ bits' = {} /\ wakePosted' = FALSE /\ lateStore' = FALSE
    /\ fades' = 0 /\ demandNotified' = FALSE
    /\ UNCHANGED <<storeBuffer, events, audioVars, engineVars, completed>>

-----------------------------------------------------------------------------
MarkStep  == MarkBits \/ PostWakeIfNeeded \/ PostEvent \/ ClearFadeSignal
DrainStep ==
    DeliverWake \/ TakeBits \/ AllowWake \/ LookAgain \/ RepostWakeIfNeeded \/ RepostEvent

Next ==
    \/ QueueFadeEvent \/ DemandData \/ DemandOver \/ ResetQueuedNotifications
    \/ MarkStep
    \/ DrainStep \/ StoreSeen \/ DrainFadeEvents \/ WakeHandled
    \/ Stop

\* The audio thread finishes a call, stores become visible, and the engine's
\* event loop delivers and handles what was posted.
Fairness ==
    /\ WF_signalVars(MarkStep)
    /\ WF_signalVars(StoreSeen)
    /\ WF_signalVars(DrainStep \/ DrainFadeEvents \/ WakeHandled)

Spec == Init /\ [][Next]_signalVars /\ Fairness

-----------------------------------------------------------------------------
(* Properties.                                                              *)

\* Every variable has its type.
TypeOK ==
    /\ storeBuffer \in BOOLEAN
    /\ bits \subseteq Signals /\ wakePosted \in BOOLEAN /\ lateStore \in BOOLEAN
    /\ events \in Nat /\ fades \in 0 .. MaxQueuedFades
    /\ demandNotified \in BOOLEAN
    /\ audio \in {"run", "mark", "post", "send", "clearFades"} /\ signal \in Signals
    /\ engine \in {"idle", "take", "allow", "look", "repost", "resend", "fades", "data"}
    /\ taken \subseteq Signals
    /\ completed \in Nat /\ stops \in Nat

\* A wake that will look at the bits is posted, or on its way.
WakeComing ==
    \/ events > 0
    \/ audio \in {"post", "send"}
    \/ engine \in {"take", "allow", "look", "repost", "resend"}

\* A marked signal always has a wake on its way: mark() and drain() never leave
\* the bits set behind a latch that nobody will clear.
SignalHasWake == bits # {} => WakeComing

\* ... which holds when the accesses are seen in program order.
SignalHasWakeInOrder == ~storeBuffer => SignalHasWake

\* Between two drains one wake is posted; a stop may leave one more behind.
OneWake ==
    events + (IF audio = "send" THEN 1 ELSE 0) + (IF engine = "resend" THEN 1 ELSE 0)
        <= 1 + stops

\* A queued fade event is never stranded: its signal is set or being set, or
\* the engine holds it and has still to read the queue.
FadeHasSignal ==
    fades > 0 =>
        \/ "FadeEventsReady" \in bits
        \/ audio = "mark" /\ signal = "FadeEventsReady"
        \/ "FadeEventsReady" \in taken /\ engine \notin {"idle", "take", "data"}

\* The engine learns of every fade that completed, or the pipeline was reset, when
\* the accesses are seen in program order.
FadesReachEngine == fades > 0 /\ ~storeBuffer ~> fades = 0
=============================================================================
