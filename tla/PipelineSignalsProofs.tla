----------------------- MODULE PipelineSignalsProofs -----------------------
(* Proofs about PipelineSignals, for every capacity, batch size and bound.     *)
EXTENDS PipelineSignals, TLAPS

-----------------------------------------------------------------------------
(* Type correctness and the fade events: however late the store is seen.      *)

\* A reset empties the queue before it clears the signal, on the same thread.
ResetIsEmpty == audio = "clearFades" => fades = 0

FadeInv == TypeOK /\ ResetIsEmpty /\ FadeHasSignal

(* The provers treat the parts of TypeOK best one kind at a time.             *)
Flags  == storeBuffer \in BOOLEAN /\ wakePosted \in BOOLEAN /\ lateStore \in BOOLEAN /\ demandNotified \in BOOLEAN
Sets   == bits \subseteq Signals /\ taken \subseteq Signals /\ signal \in Signals
Counts ==
    events \in Nat /\ fades \in 0 .. MaxQueuedFades /\ completed \in Nat /\ stops \in Nat
Places ==
    /\ audio \in {"run", "mark", "post", "send", "clearFades"}
    /\ engine \in {"idle", "take", "allow", "look", "repost", "resend", "fades", "data"}

\* The four kinds make up TypeOK.
LEMMA TypeParts == TypeOK <=> Flags /\ Sets /\ Counts /\ Places
BY DEF TypeOK, Flags, Sets, Counts, Places

\* The types hold at the start.
LEMMA TypeInit == Init => TypeOK
<1> SUFFICES ASSUME Init PROVE TypeOK
  OBVIOUS
<1>1. Flags
  BY SignalsAssumption DEF Init, Flags
<1>2. Sets
  BY DEF Init, Sets, Signals
<1>3. Counts /\ Places
  BY SignalsAssumption DEF Init, Counts, Places
<1> QED BY <1>1, <1>2, <1>3, TypeParts

\* Every step keeps the types.
LEMMA TypeStep == TypeOK /\ [Next]_signalVars => TypeOK'
<1> SUFFICES ASSUME TypeOK, [Next]_signalVars PROVE TypeOK'
  OBVIOUS
<1> USE DEF TypeOK, signalVars, mailboxVars, audioVars, engineVars, Next, StartMark,
            HasRoom, QueueFadeEvent, DemandData, DemandOver, ResetQueuedNotifications, MarkStep,
            MarkBits, PostWakeIfNeeded, PostEvent, ClearFadeSignal, DrainStep,
            DeliverWake, TakeBits, AllowWake, LookAgain, RepostWakeIfNeeded, RepostEvent,
            StoreSeen, DrainFadeEvents, WakeHandled, Stop
<1>1. Flags'
  BY DEF Flags
<1>2. Sets'
  BY DEF Sets, Signals
<1>3. Counts'
  BY SignalsAssumption DEF Counts
<1>4. Places'
  BY DEF Places
<1>5. (Flags /\ Sets /\ Counts /\ Places)' => TypeOK'
  BY DEF Flags, Sets, Counts, Places
<1> QED BY <1>1, <1>2, <1>3, <1>4, <1>5

\* FadeInv holds at the start.
LEMMA FadeInvInit == Init => FadeInv
<1>1. Init => ResetIsEmpty /\ FadeHasSignal
  BY DEF Init, ResetIsEmpty, FadeHasSignal
<1> QED BY <1>1, TypeInit DEF FadeInv

\* Every step keeps FadeInv.
LEMMA FadeInvStep == FadeInv /\ [Next]_signalVars => FadeInv'
<1> SUFFICES ASSUME FadeInv, [Next]_signalVars PROVE FadeInv'
  OBVIOUS
<1>t. TypeOK /\ TypeOK'
  BY TypeStep DEF FadeInv
<1>f. ResetIsEmpty' /\ FadeHasSignal'
  <2> USE <1>t, SignalsAssumption
      DEF FadeInv, TypeOK, Signals, ResetIsEmpty, FadeHasSignal, mailboxVars, audioVars,
          engineVars
  <2>1. CASE QueueFadeEvent BY <2>1 DEF HasRoom, QueueFadeEvent, StartMark
  <2>2. CASE DemandData BY <2>2 DEF DemandData, StartMark
  <2>3. CASE DemandOver BY <2>3 DEF DemandOver
  <2>4. CASE ResetQueuedNotifications BY <2>4 DEF ResetQueuedNotifications
  <2>5. CASE MarkStep
    BY <2>5 DEF MarkStep, MarkBits, PostWakeIfNeeded, PostEvent, ClearFadeSignal
  <2>6. CASE DrainStep
    BY <2>6 DEF DrainStep, DeliverWake, TakeBits, AllowWake, LookAgain,
                RepostWakeIfNeeded, RepostEvent
  <2>7. CASE StoreSeen BY <2>7 DEF StoreSeen
  <2>8. CASE DrainFadeEvents BY <2>8 DEF DrainFadeEvents, MoreFades
  <2>9. CASE WakeHandled BY <2>9 DEF WakeHandled
  <2>10. CASE Stop BY <2>10 DEF Stop
  <2>11. CASE UNCHANGED signalVars BY <2>11 DEF signalVars
  <2> QED
    BY <2>1, <2>2, <2>3, <2>4, <2>5, <2>6, <2>7, <2>8, <2>9, <2>10, <2>11 DEF Next
<1> QED BY <1>t, <1>f DEF FadeInv

\* Every variable keeps its type, in every instance.
THEOREM TypeCorrect == Spec => []TypeOK
<1>1. FadeInv => TypeOK
  BY DEF FadeInv
<1> QED BY FadeInvInit, FadeInvStep, <1>1, PTL DEF Spec

\* No fade event is stranded in the queue: of any size, read in batches of any
\* size, and however late drain()'s store is seen.
THEOREM FadesAreSignalled == Spec => []FadeHasSignal
<1>1. FadeInv => FadeHasSignal
  BY DEF FadeInv
<1> QED BY FadeInvInit, FadeInvStep, <1>1, PTL DEF Spec

-----------------------------------------------------------------------------
(* The wake, when stores are seen in program order.                          *)

\* Whether stores are seen late does not change.
LEMMA StoreBufferStays == [Next]_signalVars => UNCHANGED storeBuffer
BY DEF signalVars, mailboxVars, Next, QueueFadeEvent, DemandData, DemandOver,
       ResetQueuedNotifications, MarkStep, MarkBits, PostWakeIfNeeded, PostEvent,
       ClearFadeSignal, DrainStep, DeliverWake, TakeBits, AllowWake, LookAgain,
       RepostWakeIfNeeded, RepostEvent, StoreSeen, DrainFadeEvents, WakeHandled, Stop

NoLateStore == ~lateStore

\* The wakes that were posted, or will be, and have not been taken note of.
Owed ==
    events + (IF audio = "send" THEN 1 ELSE 0) + (IF engine = "resend" THEN 1 ELSE 0)
           + (IF engine \in {"take", "allow"} THEN 1 ELSE 0)

\* The latch is set only while such a wake exists: clearing it is drain()'s.
LatchIsBacked == wakePosted => Owed > 0

OrderInv == NoLateStore /\ LatchIsBacked /\ SignalHasWake

WakeInv == TypeOK /\ (~storeBuffer => OrderInv)

\* WakeInv holds at the start.
LEMMA WakeInvInit == Init => WakeInv
<1>1. Init => OrderInv
  BY DEF Init, OrderInv, NoLateStore, LatchIsBacked, SignalHasWake
<1> QED BY <1>1, TypeInit DEF WakeInv

\* Every step keeps WakeInv.
LEMMA WakeInvStep == WakeInv /\ [Next]_signalVars => WakeInv'
<1> SUFFICES ASSUME WakeInv, [Next]_signalVars PROVE WakeInv'
  OBVIOUS
<1>t. TypeOK /\ TypeOK'
  BY TypeStep DEF WakeInv
<1>s. UNCHANGED storeBuffer
  BY StoreBufferStays
<1>w. ASSUME ~storeBuffer PROVE OrderInv'
  <2>o. OrderInv
    BY <1>w DEF WakeInv
  <2> USE <1>t, <1>s, <1>w, <2>o, SignalsAssumption
      DEF OrderInv, TypeOK, Signals, NoLateStore, LatchIsBacked, Owed, SignalHasWake,
          WakeComing, mailboxVars, audioVars, engineVars
  <2>1. CASE QueueFadeEvent BY <2>1 DEF HasRoom, QueueFadeEvent, StartMark
  <2>2. CASE DemandData BY <2>2 DEF DemandData, StartMark
  <2>3. CASE DemandOver BY <2>3 DEF DemandOver
  <2>4. CASE ResetQueuedNotifications BY <2>4 DEF ResetQueuedNotifications
  <2>5. CASE MarkStep
    <3>1. CASE MarkBits BY <3>1 DEF MarkBits
    <3>2. CASE PostWakeIfNeeded BY <3>2 DEF PostWakeIfNeeded, Latch
    <3>3. CASE PostEvent BY <3>3 DEF PostEvent
    <3>4. CASE ClearFadeSignal BY <3>4 DEF ClearFadeSignal
    <3> QED BY <2>5, <3>1, <3>2, <3>3, <3>4 DEF MarkStep
  <2>6. CASE DrainStep
    <3>1. CASE DeliverWake BY <3>1 DEF DeliverWake
    <3>2. CASE TakeBits BY <3>2 DEF TakeBits
    <3>3. CASE AllowWake BY <3>3 DEF AllowWake
    <3>4. CASE LookAgain BY <3>4 DEF LookAgain
    <3>5. CASE RepostWakeIfNeeded BY <3>5 DEF RepostWakeIfNeeded, Latch
    <3>6. CASE RepostEvent BY <3>6 DEF RepostEvent
    <3> QED BY <2>6, <3>1, <3>2, <3>3, <3>4, <3>5, <3>6 DEF DrainStep
  <2>7. CASE StoreSeen BY <2>7 DEF StoreSeen
  <2>8. CASE DrainFadeEvents BY <2>8 DEF DrainFadeEvents, MoreFades
  <2>9. CASE WakeHandled BY <2>9 DEF WakeHandled
  <2>10. CASE Stop BY <2>10 DEF Stop
  <2>11. CASE UNCHANGED signalVars BY <2>11 DEF signalVars
  <2> QED
    BY <2>1, <2>2, <2>3, <2>4, <2>5, <2>6, <2>7, <2>8, <2>9, <2>10, <2>11 DEF Next
<1> QED BY <1>t, <1>s, <1>w DEF WakeInv

\* Seen in program order, mark() and drain() never lose a signal: bits that are
\* set always have a wake on its way.
THEOREM SignalsKeepTheirWake == Spec => []SignalHasWakeInOrder
<1>1. WakeInv => SignalHasWakeInOrder
  BY DEF WakeInv, OrderInv, SignalHasWakeInOrder
<1> QED BY WakeInvInit, WakeInvStep, <1>1, PTL DEF Spec

-----------------------------------------------------------------------------
(* The wakes are few, however late the store is seen.                         *)

\* A latch that is set and will not be cleared by an earlier store allows one
\* wake more; one that is clear and will be cleared again forbids one.
OwedBounded ==
    Owed <= stops + (IF wakePosted /\ ~lateStore THEN 1 ELSE 0)
                  - (IF ~wakePosted /\ lateStore THEN 1 ELSE 0)

FewInv == TypeOK /\ OwedBounded

\* Every step keeps FewInv.
LEMMA FewInvStep == FewInv /\ [Next]_signalVars => FewInv'
<1> SUFFICES ASSUME FewInv, [Next]_signalVars PROVE FewInv'
  OBVIOUS
<1>t. TypeOK /\ TypeOK'
  BY TypeStep DEF FewInv
<1>o. OwedBounded'
  <2> USE <1>t DEF FewInv, TypeOK, OwedBounded, Owed, mailboxVars, audioVars, engineVars
  <2>1. CASE QueueFadeEvent BY <2>1 DEF QueueFadeEvent, StartMark
  <2>2. CASE DemandData BY <2>2 DEF DemandData, StartMark
  <2>3. CASE DemandOver BY <2>3 DEF DemandOver
  <2>4. CASE ResetQueuedNotifications BY <2>4 DEF ResetQueuedNotifications
  <2>5. CASE MarkStep
    <3>1. CASE MarkBits BY <3>1 DEF MarkBits
    <3>2. CASE PostWakeIfNeeded BY <3>2 DEF PostWakeIfNeeded, Latch
    <3>3. CASE PostEvent BY <3>3 DEF PostEvent
    <3>4. CASE ClearFadeSignal BY <3>4 DEF ClearFadeSignal
    <3> QED BY <2>5, <3>1, <3>2, <3>3, <3>4 DEF MarkStep
  <2>6. CASE DrainStep
    <3>1. CASE DeliverWake BY <3>1 DEF DeliverWake
    <3>2. CASE TakeBits BY <3>2 DEF TakeBits
    <3>3. CASE AllowWake BY <3>3 DEF AllowWake
    <3>4. CASE LookAgain BY <3>4 DEF LookAgain
    <3>5. CASE RepostWakeIfNeeded BY <3>5 DEF RepostWakeIfNeeded, Latch
    <3>6. CASE RepostEvent BY <3>6 DEF RepostEvent
    <3> QED BY <2>6, <3>1, <3>2, <3>3, <3>4, <3>5, <3>6 DEF DrainStep
  <2>7. CASE StoreSeen BY <2>7 DEF StoreSeen
  <2>8. CASE DrainFadeEvents BY <2>8 DEF DrainFadeEvents, MoreFades
  <2>9. CASE WakeHandled BY <2>9 DEF WakeHandled
  <2>10. CASE Stop BY <2>10 DEF Stop
  <2>11. CASE UNCHANGED signalVars BY <2>11 DEF signalVars
  <2> QED
    BY <2>1, <2>2, <2>3, <2>4, <2>5, <2>6, <2>7, <2>8, <2>9, <2>10, <2>11 DEF Next
<1> QED BY <1>t, <1>o DEF FewInv

\* Between two drains at most one wake is posted, and one more for each stop,
\* however late drain()'s store is seen.
THEOREM WakesAreFew == Spec => []OneWake
<1>1. Init => FewInv
  <2>1. Init => OwedBounded
    BY DEF Init, OwedBounded, Owed
  <2> QED BY <2>1, TypeInit DEF FewInv
<1>2. FewInv => OneWake
  BY DEF FewInv, TypeOK, OwedBounded, Owed, OneWake
<1> QED BY <1>1, <1>2, FewInvStep, PTL DEF Spec
=============================================================================
