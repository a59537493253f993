------------------------- MODULE DecodeDemandProofs -------------------------
(***************************************************************************)
(* Proofs about the decode loop, for any capacity, watermarks and number of   *)
(* reopened outputs.  The loop uses the mailbox of PipelineSignals: every step *)
(* is one of the mailbox's or leaves it alone, so that what holds there holds  *)
(* here.                                                                    *)
(***************************************************************************)
EXTENDS DecodeDemand, TLAPS

Jobs    == {"none", "queued", "started", "burst", "filled"}
Reinits == {"no", "uninit", "init", "opened"}

\* The types of what the loop adds to the mailbox.
LoopTypes ==
    /\ level \in 0 .. Space
    /\ timer \in BOOLEAN /\ fill \in BOOLEAN /\ jobStale \in BOOLEAN
    /\ job \in Jobs /\ result \in {"none", "go", "stop"}
    /\ reinit \in Reinits /\ reinits \in Nat

\* The mailbox as another module sees it: its variables by their names there.
LEMMA MailboxVars == UNCHANGED signalVars => UNCHANGED Mailbox!signalVars
BY DEF signalVars, Mailbox!signalVars, Mailbox!mailboxVars, Mailbox!audioVars,
       Mailbox!engineVars

\* Reporting demand is a step of the mailbox, or none.
LEMMA NotifyIsMailbox ==
    ASSUME NEW required \in BOOLEAN, NotifyDataDemand(required)
    PROVE  Mailbox!Next \/ UNCHANGED Mailbox!signalVars
BY MailboxVars DEF NotifyDataDemand, Mailbox!Next

\* A step of the loop is a step of the mailbox, or leaves it alone.
LEMMA StepIsMailbox == [Next]_vars => [Mailbox!Next]_(Mailbox!signalVars)
<1> SUFFICES ASSUME [Next]_vars PROVE Mailbox!Next \/ UNCHANGED Mailbox!signalVars
  OBVIOUS
<1>1. CASE Render
  <2>1. NotifyDataDemand(level' < BufferLow) /\ (level' < BufferLow) \in BOOLEAN
    BY <1>1 DEF Render
  <2> QED BY <2>1, NotifyIsMailbox
<1>2. CASE Underrun \/ OutputFull
  <2>1. NotifyDataDemand(TRUE) \/ NotifyDataDemand(FALSE)
    BY <1>2 DEF Underrun, OutputFull
  <2> QED BY <2>1, NotifyIsMailbox
<1>3. CASE ReopenOutput
  BY <1>3 DEF ReopenOutput, Mailbox!Next
<1>4. CASE Signalling
  BY <1>4 DEF Signalling, Mailbox!Next
<1>5. CASE HandleNeedsData
  BY <1>5 DEF HandleNeedsData, Mailbox!Next
<1>6. CASE DecodeTick \/ SyncPosition \/ ReinitBegin \/ ReinitEnd
           \/ StartJob \/ DecodeChunk \/ FinishJob \/ UNCHANGED vars
  <2>1. UNCHANGED signalVars
    BY <1>6 DEF DecodeTick, SyncPosition, ReinitBegin, ReinitEnd, StartJob, DecodeChunk,
                FinishJob, vars
  <2> QED BY <2>1, MailboxVars
<1> QED BY <1>1, <1>2, <1>3, <1>4, <1>5, <1>6 DEF Next

(* The parts of the mailbox's types, one kind at a time.                      *)
MailFlags ==
    /\ storeBuffer \in BOOLEAN /\ wakePosted \in BOOLEAN /\ lateStore \in BOOLEAN
    /\ demandNotified \in BOOLEAN
MailSets ==
    /\ bits \subseteq Mailbox!Signals /\ taken \subseteq Mailbox!Signals
    /\ signal \in Mailbox!Signals
MailCounts ==
    events \in Nat /\ fades \in 0 .. 1 /\ completed \in Nat /\ stops \in Nat
MailPlaces ==
    /\ audio \in {"run", "mark", "post", "send", "clearFades"}
    /\ engine \in {"idle", "take", "allow", "look", "repost", "resend", "fades", "data"}

\* The four kinds make up the mailbox's TypeOK.
LEMMA MailTypes == Mailbox!TypeOK <=> MailFlags /\ MailSets /\ MailCounts /\ MailPlaces
BY DEF Mailbox!TypeOK, MailFlags, MailSets, MailCounts, MailPlaces

\* The mailbox keeps its types.
LEMMA MailboxTypeStep ==
    Mailbox!TypeOK /\ [Mailbox!Next]_(Mailbox!signalVars) => Mailbox!TypeOK'
<1> SUFFICES ASSUME MailFlags, MailSets, MailCounts, MailPlaces,
                    [Mailbox!Next]_(Mailbox!signalVars)
             PROVE  Mailbox!TypeOK'
  BY MailTypes
<1>p. (MailFlags /\ MailSets /\ MailCounts /\ MailPlaces)' => Mailbox!TypeOK'
  BY DEF Mailbox!TypeOK, MailFlags, MailSets, MailCounts, MailPlaces
<1> USE DEF Mailbox!signalVars, Mailbox!mailboxVars, Mailbox!audioVars,
            Mailbox!engineVars, Mailbox!Next, Mailbox!QueueFadeEvent, Mailbox!DemandData,
            Mailbox!DemandOver, Mailbox!ResetQueuedNotifications, Mailbox!HasRoom,
            Mailbox!StartMark, Mailbox!MarkStep, Mailbox!MarkBits,
            Mailbox!PostWakeIfNeeded, Mailbox!PostEvent, Mailbox!ClearFadeSignal,
            Mailbox!DrainStep, Mailbox!DeliverWake, Mailbox!TakeBits, Mailbox!AllowWake,
            Mailbox!LookAgain, Mailbox!RepostWakeIfNeeded, Mailbox!RepostEvent,
            Mailbox!StoreSeen, Mailbox!DrainFadeEvents, Mailbox!WakeHandled, Mailbox!Stop
<1>1. MailFlags'
  BY DEF MailFlags
<1>2. MailSets'
  BY DEF MailSets, Mailbox!Signals
<1>3. MailCounts'
  BY DEF MailCounts
<1>4. MailPlaces'
  BY DEF MailPlaces
<1> QED BY <1>p, <1>1, <1>2, <1>3, <1>4

\* The loop keeps its types: the worker decodes only into free space.
LEMMA LoopTypeStep == LoopTypes /\ [Next]_vars => LoopTypes'
<1> SUFFICES ASSUME LoopTypes, [Next]_vars PROVE LoopTypes'
  OBVIOUS
<1> USE WatermarksAssumption DEF LoopTypes, Jobs, Reinits, decodeVars, reinitVars
<1>1. CASE Render
  BY <1>1 DEF Render
<1>2. CASE Underrun \/ OutputFull \/ ReopenOutput \/ Signalling
  BY <1>2 DEF Underrun, OutputFull, ReopenOutput, Signalling
<1>3. CASE HandleNeedsData
  BY <1>3 DEF HandleNeedsData
<1>4. CASE DecodeTick
  BY <1>4 DEF DecodeTick, Invalidated
<1>5. CASE SyncPosition
  BY <1>5 DEF SyncPosition
<1>6. CASE ReinitBegin
  <2>1. /\ timer' = FALSE /\ reinit' = "uninit" /\ reinits' = reinits + 1
        /\ UNCHANGED <<level, fill, job>>
    BY <1>6 DEF ReinitBegin
  <2>2. result' \in {"none", result} /\ (jobStale' = jobStale \/ jobStale' = (job # "none"))
    BY <1>6 DEF ReinitBegin, Invalidated
  <2>3. jobStale' \in BOOLEAN /\ timer' \in BOOLEAN
    BY <2>1, <2>2
  <2>4. result' \in {"none", "go", "stop"} /\ reinit' \in Reinits /\ reinits' \in Nat
    BY <2>1, <2>2
  <2> QED BY <2>1, <2>3, <2>4
<1>7. CASE ReinitEnd
  BY <1>7 DEF ReinitEnd
<1>8. CASE StartJob
  BY <1>8 DEF StartJob
<1>9. CASE DecodeChunk
  BY <1>9 DEF DecodeChunk, HasSpace
<1>10. CASE FinishJob
  BY <1>10 DEF FinishJob
<1>11. CASE UNCHANGED vars
  BY <1>11 DEF vars
<1> QED
  BY <1>1, <1>2, <1>3, <1>4, <1>5, <1>6, <1>7, <1>8, <1>9, <1>10, <1>11 DEF Next

\* Whatever stops the timer also throws away the result that waits and makes the
\* job under way stale, and a stale job leaves no result.
LEMMA ForgetsStep ==
    LoopTypes /\ StoppedTimerForgets /\ [Next]_vars => StoppedTimerForgets'
<1> SUFFICES ASSUME LoopTypes, StoppedTimerForgets, [Next]_vars
             PROVE  StoppedTimerForgets'
  OBVIOUS
<1> USE DEF StoppedTimerForgets
<1>1. CASE UNCHANGED <<timer, job, jobStale, result>>
  BY <1>1
<1>2. CASE HandleNeedsData
  BY <1>2 DEF HandleNeedsData
<1>3. CASE DecodeTick
  BY <1>3 DEF DecodeTick, Invalidated
<1>4. CASE SyncPosition \/ ReinitEnd
  BY <1>4 DEF SyncPosition, ReinitEnd
<1>5. CASE ReinitBegin
  BY <1>5 DEF ReinitBegin, Invalidated
<1>6. CASE StartJob
  BY <1>6 DEF StartJob
<1>7. CASE DecodeChunk
  BY <1>7 DEF DecodeChunk
<1>8. CASE FinishJob
  BY <1>8 DEF FinishJob
<1> QED
  BY <1>1, <1>2, <1>3, <1>4, <1>5, <1>6, <1>7, <1>8
     DEF Next, Render, Underrun, OutputFull, ReopenOutput, Signalling, vars, decodeVars

-----------------------------------------------------------------------------
(* The theorems.                                                            *)

\* Init is the mailbox's, and satisfies every invariant here.
LEMMA InitHolds ==
    Init => Mailbox!Init /\ Mailbox!TypeOK /\ LoopTypes /\ StoppedTimerForgets
<1> SUFFICES ASSUME Init
             PROVE  Mailbox!Init /\ Mailbox!TypeOK /\ LoopTypes /\ StoppedTimerForgets
  OBVIOUS
<1>1. Mailbox!Init
  BY DEF Init
<1>2. Mailbox!TypeOK
  <2>1. MailCounts /\ MailPlaces
    BY <1>1 DEF Mailbox!Init, MailCounts, MailPlaces
  <2>f. MailFlags
    BY <1>1 DEF Mailbox!Init, MailFlags
  <2>2. MailSets
    BY <1>1 DEF Mailbox!Init, MailSets, Mailbox!Signals
  <2> QED BY <2>1, <2>f, <2>2, MailTypes
<1>3. LoopTypes /\ StoppedTimerForgets
  BY DEF Init, LoopTypes, Jobs, Reinits, StoppedTimerForgets
<1> QED BY <1>1, <1>2, <1>3

\* The mailbox inside the loop behaves as PipelineSignals says, with no fades and
\* a store that may be seen late: what is proved there holds of the loop.
THEOREM MailboxIsUsedAsSpecified ==
    Spec => Mailbox!Init /\ [][Mailbox!Next]_(Mailbox!signalVars)
BY InitHolds, StepIsMailbox, PTL DEF Spec

\* Every variable has its type, and the worker never overfills the stream, for
\* every capacity and every pair of watermarks.
THEOREM TypeCorrect == Spec => []TypeOK
<1>1. LoopTypes /\ Mailbox!TypeOK => TypeOK
  BY DEF LoopTypes, TypeOK, Jobs, Reinits
<1> QED
  BY <1>1, InitHolds, StepIsMailbox, MailboxTypeStep, LoopTypeStep, PTL DEF Spec

\* A stopped timer forgets the jobs of its time: no result of a job scheduled
\* before a stop is ever taken for the result of one scheduled after it.
THEOREM StopForgets == Spec => []StoppedTimerForgets
BY InitHolds, LoopTypeStep, ForgetsStep, PTL DEF Spec
=============================================================================
