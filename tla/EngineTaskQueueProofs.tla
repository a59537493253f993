----------------------- MODULE EngineTaskQueueProofs -----------------------
(***************************************************************************)
(* Proofs about EngineTaskQueue, for every set of producers and of kinds,   *)
(* every capacity, batch size and bound.                                    *)
(***************************************************************************)
EXTENDS EngineTaskQueue, SeqSelectProofs, TLAPS

(***************************************************************************)
(* The inductive invariant.  LatchMeansWake: when the latch m_wakePosted is  *)
(* set, an event is posted, or somebody is about to post it, or the engine  *)
(* is inside drain() and will clear the latch.  RunnableMeansLatch: a       *)
(* runnable task has the latch set, unless the engine is about to look at   *)
(* the queue by itself.  Control says which steps of the engine thread      *)
(* exclude each other.                                                      *)
(***************************************************************************)
DrainLooks == drain \in {"pop", "run"}
OpLooks    == op \in {"splice", "spliceCheck", "splicePost", "clearFlag", "check"}
Ending     == op \in {"clear", "lastDrain", "lastClear", "destroyed"}

LatchMeansWake ==
    wakePosted => \/ events > 0
                  \/ posting # {}
                  \/ DrainLooks
                  \/ op \in {"post", "splicePost", "clearFlag"}

RunnableMeansLatch ==
    (tasks # <<>> /\ ~shuttingDown)
        => wakePosted \/ DrainLooks \/ drain = "leaveRepost" \/ OpLooks

Control ==
    /\ draining <=> drain # "off"
    /\ drain \in {"pop", "leave"} => op \in {"none", "lastClear"}
    /\ drain = "leaveRepost" => op = "none"
    /\ drain = "run" => ~Ending
    /\ op \in {"clear", "lastDrain", "destroyed"} => drain = "off"
    /\ barrierActive => op \in {"none", "post", "move"}
    /\ op = "move" => barrierActive
    /\ barrierActive => drain \in {"off", "run"}
    /\ shuttingDown <=> Ending

IInv ==
    /\ TypeOK
    /\ Control
    /\ LatchMeansWake
    /\ RunnableMeansLatch
    /\ BarrierHolds
    /\ Bounded
    /\ ShutdownStaysEmpty

-----------------------------------------------------------------------------
(***************************************************************************)
(* Evicting takes one task out at most, and makes none up.                  *)
(***************************************************************************)
LEMMA EraseCoalescedSpec ==
    ASSUME NEW s \in Seq(Task)
    PROVE  /\ EraseCoalesced(s) \in Seq(Task)
           /\ Len(EraseCoalesced(s)) <= Len(s)
           /\ \A i \in 1 .. Len(EraseCoalesced(s)) :
                 \E j \in 1 .. Len(s) : EraseCoalesced(s)[i] = s[j]
<1> DEFINE I  == {i \in 1 .. Len(s) : IsCoalesced(s[i])}
           at == SelectInSeq(s, IsCoalesced)
<1>1. at = IF I # {} THEN Min(I) ELSE 0
  BY DEF SelectInSeq
<1>2. CASE at = 0
  BY <1>2 DEF EraseCoalesced
<1>3. CASE at # 0
  <2>1. I # {} /\ I \subseteq Nat
    BY <1>1, <1>3
  <2>2. at \in I
    <3>1. \E x \in I : \A y \in I : x <= y
      <4> HIDE DEF I
      <4>1. QED
        BY <2>1, LeastNatural
    <3>2. Min(I) \in I
      BY <3>1 DEF Min
    <3>3. QED
      BY <3>2, <1>1, <2>1
  <2>3. at \in 1 .. Len(s)
    BY <2>2
  <2>4. EraseCoalesced(s) = SubSeq(s, 1, at - 1) \o SubSeq(s, at + 1, Len(s))
    BY <1>3 DEF EraseCoalesced, RemoveAt
  <2>10. Len(s) \in Nat /\ at \in Nat /\ at >= 1 /\ at <= Len(s)
    BY <2>3
  <2> HIDE DEF at, I
  <2> DEFINE l == SubSeq(s, 1, at - 1)
             r == SubSeq(s, at + 1, Len(s))
  <2>5. l \in Seq(Task) /\ Len(l) = at - 1 /\ \A i \in 1 .. Len(l) : l[i] = s[i]
    BY <2>3
  <2>6. r \in Seq(Task) /\ Len(r) = Len(s) - at /\ \A i \in 1 .. Len(r) : r[i] = s[at + i]
    BY <2>3
  <2>11. EraseCoalesced(s) = l \o r
    BY <2>4
  <2> HIDE DEF l, r
  <2>7. l \o r \in Seq(Task) /\ Len(l \o r) = Len(s) - 1
    <3> l \in Seq(Task) /\ r \in Seq(Task)
      BY <2>5, <2>6
    <3>1. l \o r \in Seq(Task) /\ Len(l \o r) = Len(l) + Len(r)
      OBVIOUS
    <3>2. (at - 1) + (Len(s) - at) = Len(s) - 1
      BY <2>10
    <3>3. QED
      BY <3>1, <3>2, <2>5, <2>6
  <2>8. \A i \in 1 .. Len(l \o r) : \E j \in 1 .. Len(s) : (l \o r)[i] = s[j]
    <3> TAKE i \in 1 .. Len(l \o r)
    <3>1. CASE i <= Len(l)
      <4>1. (l \o r)[i] = l[i] /\ i \in 1 .. Len(l)
        BY <3>1, <2>10, <2>5, <2>6, <2>7
      <4>2. i \in 1 .. Len(s)
        BY <4>1, <2>10, <2>5
      <4>3. QED
        BY <4>1, <4>2, <2>5
    <3>2. CASE i > Len(l)
      <4> DEFINE k == i - Len(l)
      <4>1. k \in 1 .. Len(r)
        BY <3>2, <2>10, <2>5, <2>6, <2>7
      <4>2. (l \o r)[i] = r[k]
        BY <3>2, <4>1, <2>10, <2>5, <2>6, <2>7
      <4>3. at + k \in 1 .. Len(s)
        BY <4>1, <2>10, <2>6
      <4> HIDE DEF k
      <4>4. r[k] = s[at + k]
        BY <4>1, <2>6
      <4>5. QED
        BY <4>2, <4>3, <4>4
    <3>3. QED
      BY <3>1, <3>2, <2>5, <2>6
  <2>9. QED
    <3> DEFINE e == l \o r
    <3>1. Len(e) <= Len(s)
      BY <2>7, <2>10
    <3>2. EraseCoalesced(s) = e /\ e \in Seq(Task)
      BY <2>7, <2>11
    <3>3. \A i \in 1 .. Len(e) : \E j \in 1 .. Len(s) : e[i] = s[j]
      BY <2>8
    <3> HIDE DEF e
    <3>4. QED
      BY <3>1, <3>2, <3>3
<1>4. QED
  BY <1>2, <1>3

LEMMA EraseMatchingSpec ==
    ASSUME NEW s \in Seq(Task), NEW k
    PROVE  /\ EraseMatching(s, k) \in Seq(Task)
           /\ Len(EraseMatching(s, k)) <= Len(s)
           /\ \A i \in 1 .. Len(EraseMatching(s, k)) :
                 \E j \in 1 .. Len(s) : EraseMatching(s, k)[i] = s[j]
<1> DEFINE S == {t \in Task : ~Supersedes(k, t)}
<1>1. EraseMatching(s, k) = Select(s, S)
  BY DEF EraseMatching
<1> HIDE DEF S
<1> DEFINE e == Select(s, S)
<1>2. /\ e \in Seq(Task)
      /\ Len(e) <= Len(s)
      /\ \A i \in 1 .. Len(e) : \E j \in 1 .. Len(s) : e[i] = s[j] /\ s[j] \in S
  BY SelectSpec, Zenon
<1> HIDE DEF e
<1>3. EraseMatching(s, k) = e
  BY <1>1 DEF e
<1>4. QED
  BY <1>2, <1>3

(***************************************************************************)
(* Admitting a task keeps the types and the capacity, leaves an empty       *)
(* deferred queue empty when there is no barrier, and puts nothing that the *)
(* barrier holds back among the runnable tasks.                             *)
(***************************************************************************)
AllDirect(s) == \A i \in 1 .. Len(s) : ~IsDeferred(s[i])

LEMMA SmallerIsDirect ==
    ASSUME NEW s, NEW e, AllDirect(s),
           \A i \in 1 .. Len(e) : \E j \in 1 .. Len(s) : e[i] = s[j]
    PROVE  AllDirect(e)
  BY DEF AllDirect

LEMMA AdmitSpec ==
    ASSUME TypeOK, Bounded, NEW k \in TaskKinds
    PROVE  /\ Admit(k).t \in Seq(Task) /\ Admit(k).d \in Seq(Task)
           /\ Len(Admit(k).t) + Len(Admit(k).d) <= Capacity
           /\ (~barrierActive /\ deferred = <<>>) => Admit(k).d = <<>>
           /\ (barrierActive /\ AllDirect(tasks)) => AllDirect(Admit(k).t)
           /\ (Drops(k) /\ Admit(k).t # <<>>) => tasks # <<>>
<1> DEFINE t1   == EraseMatching(tasks, k)
           d1   == EraseMatching(deferred, k)
           room == RoomFor(k)
           task == [type |-> k.type, key |-> k.key, id |-> nextId]
<1>1. /\ t1 \in Seq(Task) /\ d1 \in Seq(Task)
      /\ Len(t1) <= Len(tasks) /\ Len(d1) <= Len(deferred)
      /\ AllDirect(tasks) => AllDirect(t1)
  BY EraseMatchingSpec, SmallerIsDirect DEF TypeOK
<1>2. task \in Task
  BY KindsAssumption DEF TypeOK, Task
<1>12. room = MakeRoom(t1, d1)
  BY DEF RoomFor
<1> HIDE DEF t1, d1, task
<1>3. /\ room.t \in Seq(Task) /\ room.d \in Seq(Task)
      /\ Len(room.t) <= Len(t1) /\ Len(room.d) <= Len(d1)
      /\ AllDirect(t1) => AllDirect(room.t)
  <2>1. CASE room = [t |-> t1, d |-> d1]
    BY <2>1, <1>1
  <2>2. CASE room = [t |-> t1, d |-> EraseCoalesced(d1)]
    BY <2>2, <1>1, EraseCoalescedSpec
  <2>3. CASE room = [t |-> EraseCoalesced(t1), d |-> d1]
    BY <2>3, <1>1, EraseCoalescedSpec, SmallerIsDirect
  <2>4. QED
    BY <2>1, <2>2, <2>3, <1>12 DEF MakeRoom
<1>4. Admit(k) = IF Full(room.t, room.d) THEN room ELSE Put(room, task)
  BY DEF Admit, Drops, task
<1>5. room = [t |-> room.t, d |-> room.d]
  BY DEF MakeRoom, RoomFor
<1>11. Drops(k) <=> Full(room.t, room.d)
  BY DEF Drops
<1> HIDE DEF room
<1>6. Len(room.t) + Len(room.d) <= Capacity
  <2>1. Len(tasks) + Len(deferred) <= Capacity
    BY DEF Bounded
  <2>2. /\ Len(tasks) \in Nat /\ Len(deferred) \in Nat /\ Len(t1) \in Nat
        /\ Len(d1) \in Nat /\ Len(room.t) \in Nat /\ Len(room.d) \in Nat
    BY <1>1, <1>3 DEF TypeOK
  <2>3. Capacity \in Nat
    BY LimitsAssumption
  <2>4. /\ Len(room.t) <= Len(t1) /\ Len(t1) <= Len(tasks)
        /\ Len(room.d) <= Len(d1) /\ Len(d1) <= Len(deferred)
    BY <1>1, <1>3
  <2> DEFINE a == Len(room.t)   b == Len(room.d)
             c == Len(tasks)    e == Len(deferred)
             g == Len(t1)       h == Len(d1)
  <2>5. /\ a <= g /\ g <= c /\ b <= h /\ h <= e /\ c + e <= Capacity
        /\ a \in Nat /\ b \in Nat /\ c \in Nat /\ e \in Nat /\ g \in Nat /\ h \in Nat
    BY <2>1, <2>2, <2>4
  <2> HIDE DEF a, b, c, e, g, h
  <2>6. a + b <= Capacity
    BY <2>3, <2>5
  <2>7. QED
    BY <2>6 DEF a, b
<1>7. (deferred = <<>>) => room.d = <<>>
  <2> SUFFICES ASSUME deferred = <<>> PROVE room.d = <<>>
    OBVIOUS
  <2>1. Len(deferred) = 0
    OBVIOUS
  <2>2. Len(room.d) = 0
    BY <2>1, <1>1, <1>3
  <2>3. QED
    BY <2>2, <1>3
<1>8. CASE Full(room.t, room.d)
  <2>1. Admit(k) = room
    BY <1>8, <1>4
  <2>2. room.t # <<>> => tasks # <<>>
    <3> SUFFICES ASSUME tasks = <<>> PROVE room.t = <<>>
      OBVIOUS
    <3>1. Len(tasks) = 0
      OBVIOUS
    <3>2. Len(room.t) = 0
      BY <3>1, <1>1, <1>3
    <3>3. QED
      BY <3>2, <1>3
  <2>3. QED
    BY <2>1, <2>2, <1>1, <1>3, <1>6, <1>7
<1>9. CASE ~Full(room.t, room.d)
  <2> DEFINE a == Len(room.t)   b == Len(room.d)
  <2>1. a \in Nat /\ b \in Nat /\ Capacity \in Nat /\ (a + 1) + b <= Capacity
        /\ a + (b + 1) <= Capacity
    <3>1. a \in Nat /\ b \in Nat
      BY <1>3
    <3>2. ~(a + b >= Capacity)
      BY <1>9 DEF Full
    <3> HIDE DEF a, b
    <3>3. Capacity \in Nat
      BY LimitsAssumption
    <3>4. QED
      BY <3>1, <3>2, <3>3
  <2>2. Admit(k) = Put(room, task)
    BY <1>4, <1>9
  <2>3. CASE barrierActive /\ IsDeferred(task)
    <3>1. Admit(k) = [t |-> room.t, d |-> Append(room.d, task)]
      BY <2>2, <2>3, <1>5 DEF Put
    <3>2. Append(room.d, task) \in Seq(Task) /\ Len(Append(room.d, task)) = Len(room.d) + 1
      BY <1>2, <1>3
    <3> DEFINE e == Append(room.d, task)
    <3>3. /\ Admit(k).t = room.t /\ Admit(k).d = e
          /\ e \in Seq(Task) /\ Len(e) = b + 1
      BY <3>1, <3>2
    <3> HIDE DEF e, b
    <3>4. QED
      BY <3>3, <2>1, <2>3, <1>1, <1>3, <1>9, <1>11
  <2>4. CASE ~(barrierActive /\ IsDeferred(task))
    <3>1. Admit(k) = [t |-> Append(room.t, task), d |-> room.d]
      BY <2>2, <2>4, <1>5 DEF Put
    <3>2. Append(room.t, task) \in Seq(Task) /\ Len(Append(room.t, task)) = Len(room.t) + 1
      BY <1>2, <1>3
    <3>3. (barrierActive /\ AllDirect(room.t)) => AllDirect(Append(room.t, task))
      BY <2>4, <1>2, <1>3 DEF AllDirect
    <3> DEFINE e == Append(room.t, task)
    <3>4. /\ Admit(k).t = e /\ Admit(k).d = room.d
          /\ e \in Seq(Task) /\ Len(e) = a + 1
          /\ (barrierActive /\ AllDirect(room.t)) => AllDirect(e)
      BY <3>1, <3>2, <3>3
    <3> HIDE DEF e, a
    <3>5. QED
      BY <3>4, <2>1, <1>1, <1>3, <1>7, <1>9, <1>11
  <2>5. QED
    BY <2>3, <2>4
<1>10. QED
  BY <1>8, <1>9

-----------------------------------------------------------------------------
LEMMA InitHolds == Init => IInv
<1> SUFFICES ASSUME Init PROVE IInv
  OBVIOUS
<1>1. TypeOK
  <2>1. <<>> \in Seq(Task)
    OBVIOUS
  <2>2. /\ tasks \in Seq(Task) /\ deferred \in Seq(Task)
        /\ processed = 0 /\ 0 \in 0 .. Batch /\ drain = "off"
    BY <2>1, LimitsAssumption DEF Init
  <2>3. lastRun \in [Lanes -> Nat]
    BY DEF Init
  <2> HIDE DEF Init
  <2>4. QED
    BY <2>2, <2>3 DEF Init, TypeOK
<1>2. Control /\ LatchMeansWake /\ RunnableMeansLatch /\ ShutdownStaysEmpty
  BY DEF Init, Control, LatchMeansWake, RunnableMeansLatch, ShutdownStaysEmpty,
         Ending, OpLooks, DrainLooks
<1>3. BarrierHolds /\ Bounded
  BY LimitsAssumption DEF Init, BarrierHolds, Bounded
<1>4. QED
  BY <1>1, <1>2, <1>3 DEF IInv

(***************************************************************************)
(* enqueue(), by any thread, as far as the queues are concerned.             *)
(***************************************************************************)
LEMMA EnqueueLockedSpec ==
    ASSUME IInv, NEW k \in TaskKinds, EnqueueLocked(k)
    PROVE  /\ tasks' \in Seq(Task) /\ deferred' \in Seq(Task)
           /\ wakePosted' \in BOOLEAN /\ nextId' \in Nat
           /\ wakePosted => wakePosted'
           /\ (tasks' # <<>> /\ ~shuttingDown) => (wakePosted' \/ tasks # <<>>)
           /\ Len(tasks') + Len(deferred') <= Capacity
           /\ (~barrierActive /\ deferred = <<>>) => deferred' = <<>>
           /\ (barrierActive /\ AllDirect(tasks)) => AllDirect(tasks')
           /\ shuttingDown => UNCHANGED <<tasks, deferred, wakePosted>>
<1>1. nextId' \in Nat
  BY DEF IInv, TypeOK, EnqueueLocked
<1>2. CASE shuttingDown
  BY <1>1, <1>2 DEF IInv, TypeOK, Bounded, EnqueueLocked, Refused
<1>3. CASE ~shuttingDown
  <2>1. /\ tasks' = Admit(k).t /\ deferred' = Admit(k).d
        /\ wakePosted' = (wakePosted \/ (Admit(k).t # <<>> /\ ~Drops(k)))
    BY <1>3 DEF EnqueueLocked, Refused
  <2>2. QED
    BY <1>1, <1>3, <2>1, AdmitSpec DEF IInv, TypeOK
<1>4. QED
  BY <1>2, <1>3

LEMMA EnqueueInv ==
    ASSUME IInv, NEW p \in Producers, NEW k \in ProducerKinds, Enqueue(p, k)
    PROVE  IInv'
<1>1. k \in TaskKinds
  BY DEF TaskKinds
<1>2. EnqueueLocked(k)
  BY DEF Enqueue
<1>3. TypeOK'
  BY <1>1, <1>2, EnqueueLockedSpec DEF IInv, TypeOK, Enqueue, EnqueueLocked, engineVars
<1>4. Control'
  BY DEF IInv, Control, Ending, Enqueue, EnqueueLocked, engineVars
<1>5. LatchMeansWake' /\ RunnableMeansLatch'
  BY <1>1, <1>2, EnqueueLockedSpec DEF IInv, TypeOK, LatchMeansWake, RunnableMeansLatch, DrainLooks,
     OpLooks, Enqueue, EnqueueLocked, engineVars
<1>6. BarrierHolds' /\ Bounded'
  BY <1>1, <1>2, EnqueueLockedSpec DEF IInv, BarrierHolds, Bounded, AllDirect, Enqueue,
     EnqueueLocked, engineVars
<1>7. ShutdownStaysEmpty'
  BY <1>1, <1>2, EnqueueLockedSpec DEF IInv, Control, Ending, ShutdownStaysEmpty, Enqueue,
     EnqueueLocked, engineVars
<1>8. QED
  BY <1>3, <1>4, <1>5, <1>6, <1>7 DEF IInv

LEMMA EngineEnqueueInv ==
    ASSUME IInv, NEW k \in EngineKinds, EngineEnqueue(k)
    PROVE  IInv'
<1>1. k \in TaskKinds
  BY DEF TaskKinds
<1>2. EnqueueLocked(k)
  BY DEF EngineEnqueue
<1>3. TypeOK'
  BY <1>1, <1>2, EnqueueLockedSpec DEF IInv, TypeOK, EngineEnqueue, EnqueueLocked
<1>4. Control'
  BY DEF IInv, Control, Ending, EngineCode, EngineEnqueue, EnqueueLocked
<1>5. LatchMeansWake' /\ RunnableMeansLatch'
  BY <1>1, <1>2, EnqueueLockedSpec DEF IInv, TypeOK, LatchMeansWake, RunnableMeansLatch, DrainLooks,
     OpLooks, EngineCode, EngineEnqueue, EnqueueLocked
<1>6. BarrierHolds' /\ Bounded'
  BY <1>1, <1>2, EnqueueLockedSpec DEF IInv, BarrierHolds, Bounded, AllDirect, EngineCode,
     EngineEnqueue, EnqueueLocked
<1>7. ShutdownStaysEmpty'
  BY DEF IInv, ShutdownStaysEmpty, EngineCode, EngineEnqueue
<1>8. QED
  BY <1>3, <1>4, <1>5, <1>6, <1>7 DEF IInv

LEMMA PostWakeInv ==
    ASSUME IInv, NEW p \in Producers, PostWake(p)
    PROVE  IInv'
<1>1. TypeOK'
  BY DEF IInv, TypeOK, PostWake, queueVars, engineVars, boundVars
<1>2. Control'
  BY DEF IInv, TypeOK, Control, Ending, EngineCode, PostWake, queueVars, engineVars, boundVars
<1>3. LatchMeansWake' /\ RunnableMeansLatch'
  BY DEF IInv, TypeOK, Control, LatchMeansWake, RunnableMeansLatch, DrainLooks, OpLooks, Ending, EngineCode,
     PostWake, queueVars, engineVars, boundVars
<1>4. BarrierHolds' /\ Bounded'
  BY DEF IInv, TypeOK, Control, BarrierHolds, Bounded, EngineCode, PostWake, queueVars, engineVars,
     boundVars
<1>5. ShutdownStaysEmpty'
  BY DEF IInv, Control, ShutdownStaysEmpty, EngineCode, PostWake, queueVars, engineVars, boundVars
<1>6. QED
  BY <1>1, <1>2, <1>3, <1>4, <1>5 DEF IInv

LEMMA DeliverWakeInv ==
    ASSUME IInv, DeliverWake
    PROVE  IInv'
<1>1. TypeOK'
  <2>1. events' \in Nat
    BY DEF IInv, TypeOK, DeliverWake
  <2>2. /\ draining' \in BOOLEAN /\ drain' \in {"off", "pop"}
        /\ processed' = 0 /\ 0 \in 0 .. Batch /\ 0 < Batch
    <3>1. CASE shuttingDown \/ draining
      <4>1. UNCHANGED <<draining, drain, processed>> /\ drain = "off"
        BY <3>1 DEF DeliverWake
      <4>2. QED
        BY <4>1, LimitsAssumption DEF IInv, TypeOK
    <3>2. CASE ~(shuttingDown \/ draining)
      BY <3>2, LimitsAssumption DEF DeliverWake
    <3>3. QED
      BY <3>1, <3>2
  <2>3. QED
    BY <2>1, <2>2 DEF IInv, TypeOK, DeliverWake, queueVars, engineVars, boundVars
<1>2. Control'
  BY DEF IInv, TypeOK, Control, Ending, EngineCode, DeliverWake, queueVars, engineVars, boundVars
<1>3. LatchMeansWake' /\ RunnableMeansLatch'
  BY DEF IInv, TypeOK, Control, LatchMeansWake, RunnableMeansLatch, DrainLooks, OpLooks, Ending, EngineCode,
     DeliverWake, queueVars, engineVars, boundVars
<1>4. BarrierHolds' /\ Bounded'
  BY DEF IInv, TypeOK, Control, BarrierHolds, Bounded, EngineCode, DeliverWake, queueVars, engineVars,
     boundVars
<1>5. ShutdownStaysEmpty'
  BY DEF IInv, Control, ShutdownStaysEmpty, EngineCode, DeliverWake, queueVars, engineVars, boundVars
<1>6. QED
  BY <1>1, <1>2, <1>3, <1>4, <1>5 DEF IInv

LEMMA DrainPopInv ==
    ASSUME IInv, DrainPop
    PROVE  IInv'
<1>1. TypeOK'
  <2>1. Head(tasks) \in Task /\ tasks' \in Seq(Task)
    BY DEF IInv, TypeOK, DrainPop
  <2>2. lastRun' \in [Lanes -> Nat]
    <3>1. Head(tasks).id \in Nat
      BY <2>1 DEF Task
    <3>2. QED
      BY <3>1 DEF IInv, TypeOK, DrainPop
  <2>3. drain' \in {"pop", "run"}
    BY DEF DrainPop
  <2>4. QED
    BY <2>1, <2>2, <2>3 DEF IInv, TypeOK, DrainPop, queueVars, engineVars, boundVars
<1>2. Control'
  BY DEF IInv, TypeOK, Control, Ending, EngineCode, DrainPop, queueVars, engineVars, boundVars
<1>3. LatchMeansWake' /\ RunnableMeansLatch'
  BY DEF IInv, TypeOK, Control, LatchMeansWake, RunnableMeansLatch, DrainLooks, OpLooks, Ending, EngineCode,
     DrainPop, queueVars, engineVars, boundVars
<1>4. BarrierHolds' /\ Bounded'
  <2>1. /\ tasks' = Tail(tasks) /\ tasks \in Seq(Task) /\ tasks # <<>>
    BY DEF IInv, TypeOK, DrainPop
  <2>2. /\ Len(tasks') = Len(tasks) - 1 /\ Len(tasks) \in Nat
        /\ \A i \in 1 .. Len(tasks') : tasks'[i] = tasks[i + 1]
    BY <2>1
  <2>3. ~barrierActive /\ op' # "move" /\ op' = op /\ deferred' = deferred
        /\ barrierActive' = barrierActive
    BY DEF IInv, Control, DrainPop
  <2>4. BarrierHolds'
    BY <2>3 DEF IInv, BarrierHolds
  <2>5. Bounded'
    <3>1. Len(deferred) \in Nat /\ Len(tasks) + Len(deferred) <= Capacity /\ Capacity \in Nat
      BY LimitsAssumption DEF IInv, TypeOK, Bounded
    <3>2. Len(tasks') + Len(deferred') <= Capacity
      BY <3>1, <2>2, <2>3
    <3>3. QED
      BY <3>2 DEF Bounded
  <2>6. QED
    BY <2>4, <2>5
<1>5. ShutdownStaysEmpty'
  BY DEF IInv, Control, ShutdownStaysEmpty, EngineCode, DrainPop, queueVars, engineVars, boundVars
<1>6. QED
  BY <1>1, <1>2, <1>3, <1>4, <1>5 DEF IInv

LEMMA DrainEmptyInv ==
    ASSUME IInv, DrainEmpty
    PROVE  IInv'
<1>1. TypeOK'
  BY DEF IInv, TypeOK, DrainEmpty, queueVars, engineVars, boundVars
<1>2. Control'
  BY DEF IInv, TypeOK, Control, Ending, EngineCode, DrainEmpty, queueVars, engineVars, boundVars
<1>3. LatchMeansWake' /\ RunnableMeansLatch'
  BY DEF IInv, TypeOK, Control, LatchMeansWake, RunnableMeansLatch, DrainLooks, OpLooks, Ending, EngineCode,
     DrainEmpty, queueVars, engineVars, boundVars
<1>4. BarrierHolds' /\ Bounded'
  BY DEF IInv, TypeOK, Control, BarrierHolds, Bounded, EngineCode, DrainEmpty, queueVars, engineVars,
     boundVars
<1>5. ShutdownStaysEmpty'
  BY DEF IInv, Control, ShutdownStaysEmpty, EngineCode, DrainEmpty, queueVars, engineVars, boundVars
<1>6. QED
  BY <1>1, <1>2, <1>3, <1>4, <1>5 DEF IInv

LEMMA TaskDoneInv ==
    ASSUME IInv, TaskDone
    PROVE  IInv'
<1>1. TypeOK'
  <2>1. /\ processed' \in 0 .. Batch
        /\ drain' \in {"pop", "run"} => processed' < Batch
    <3>1. processed \in 0 .. Batch /\ processed < Batch /\ Batch \in Nat
      BY LimitsAssumption DEF IInv, TypeOK, TaskDone
    <3>2. processed' = processed + 1
      BY DEF TaskDone
    <3>3. drain' \in {"pop", "run"} => processed + 1 < Batch
      BY <3>1 DEF TaskDone, AfterBatch, BatchFull
    <3>4. QED
      BY <3>1, <3>2, <3>3
  <2>2. drain' \in {"pop", "leave", "leaveRepost"}
    BY DEF TaskDone, AfterBatch
  <2>3. wakePosted' \in BOOLEAN
    BY DEF IInv, TypeOK, TaskDone
  <2>4. QED
    BY <2>1, <2>2, <2>3 DEF IInv, TypeOK, TaskDone, boundVars
<1>2. Control'
  BY DEF IInv, TypeOK, Control, Ending, EngineCode, TaskDone, AfterBatch, queueVars, engineVars, boundVars
<1>3. LatchMeansWake' /\ RunnableMeansLatch'
  BY DEF IInv, TypeOK, Control, LatchMeansWake, RunnableMeansLatch, DrainLooks, OpLooks, Ending, EngineCode,
     TaskDone, AfterBatch, queueVars, engineVars, boundVars
<1>4. BarrierHolds' /\ Bounded'
  BY DEF IInv, TypeOK, Control, BarrierHolds, Bounded, EngineCode, TaskDone, AfterBatch, queueVars, engineVars,
     boundVars
<1>5. ShutdownStaysEmpty'
  BY DEF IInv, Control, ShutdownStaysEmpty, EngineCode, TaskDone, AfterBatch, queueVars, engineVars, boundVars
<1>6. QED
  BY <1>1, <1>2, <1>3, <1>4, <1>5 DEF IInv

LEMMA DrainLeaveInv ==
    ASSUME IInv, DrainLeave
    PROVE  IInv'
<1>1. TypeOK'
  <2>1. processed' = 0 /\ 0 \in 0 .. Batch /\ drain' = "off"
    BY LimitsAssumption DEF DrainLeave
  <2>2. op' \in {"check", op}
    BY DEF DrainLeave
  <2>3. QED
    BY <2>1, <2>2 DEF IInv, TypeOK, DrainLeave, boundVars
<1>2. Control'
  BY DEF IInv, TypeOK, Control, Ending, EngineCode, DrainLeave, queueVars, engineVars, boundVars
<1>3. LatchMeansWake' /\ RunnableMeansLatch'
  BY DEF IInv, TypeOK, Control, LatchMeansWake, RunnableMeansLatch, DrainLooks, OpLooks, Ending, EngineCode,
     DrainLeave, queueVars, engineVars, boundVars
<1>4. BarrierHolds' /\ Bounded'
  BY DEF IInv, TypeOK, Control, BarrierHolds, Bounded, EngineCode, DrainLeave, queueVars, engineVars,
     boundVars
<1>5. ShutdownStaysEmpty'
  BY DEF IInv, Control, ShutdownStaysEmpty, EngineCode, DrainLeave, queueVars, engineVars, boundVars
<1>6. QED
  BY <1>1, <1>2, <1>3, <1>4, <1>5 DEF IInv

LEMMA BarrierRaiseInv ==
    ASSUME IInv, BarrierRaise
    PROVE  IInv'
<1>1. TypeOK'
  BY DEF IInv, TypeOK, BarrierRaise, queueVars, engineVars, boundVars
<1>2. Control'
  BY DEF IInv, TypeOK, Control, Ending, EngineCode, BarrierRaise, queueVars, engineVars, boundVars
<1>3. LatchMeansWake' /\ RunnableMeansLatch'
  BY DEF IInv, TypeOK, Control, LatchMeansWake, RunnableMeansLatch, DrainLooks, OpLooks, Ending, EngineCode,
     BarrierRaise, queueVars, engineVars, boundVars
<1>4. BarrierHolds' /\ Bounded'
  BY DEF IInv, TypeOK, Control, BarrierHolds, Bounded, EngineCode, BarrierRaise, queueVars, engineVars,
     boundVars
<1>5. ShutdownStaysEmpty'
  BY DEF IInv, Control, ShutdownStaysEmpty, EngineCode, BarrierRaise, queueVars, engineVars, boundVars
<1>6. QED
  BY <1>1, <1>2, <1>3, <1>4, <1>5 DEF IInv

LEMMA BarrierMoveInv ==
    ASSUME IInv, BarrierMove
    PROVE  IInv'
<1>1. /\ tasks' \in Seq(Task)
      /\ AllDirect(tasks')
      /\ tasks' # <<>> => tasks # <<>>
  <2> DEFINE e == Select(tasks, DirectTasks)
  <2>1. /\ e \in Seq(Task) /\ Len(e) <= Len(tasks)
        /\ \A i \in 1 .. Len(e) : \E j \in 1 .. Len(tasks) : e[i] = tasks[j] /\ tasks[j] \in DirectTasks
    <3>1. tasks \in Seq(Task)
      BY DEF IInv, TypeOK
    <3>2. QED
      BY <3>1, SelectSpec, Zenon
  <2>2. tasks' = e
    BY DEF BarrierMove
  <2> HIDE DEF e
  <2>3. AllDirect(e)
    BY <2>1 DEF AllDirect, DirectTasks
  <2>4. e # <<>> => tasks # <<>>
    BY <2>1
  <2>5. QED
    BY <2>1, <2>2, <2>3, <2>4
<1>2. deferred' \in Seq(Task) /\ Len(tasks') + Len(deferred') <= Capacity
  <2> DEFINE e == Select(tasks, DirectTasks)
             h == Select(tasks, HeldTasks)
  <2>1. tasks \in Seq(Task) /\ deferred \in Seq(Task)
    BY DEF IInv, TypeOK
  <2>2. e \in Seq(Task) /\ h \in Seq(Task)
    BY <2>1, SelectSpec, Zenon
  <2>3. Len(e) + Len(h) <= Len(tasks)
    <3>1. DirectTasks \cap HeldTasks = {}
      BY DEF DirectTasks, HeldTasks
    <3>2. QED
      BY <2>1, <3>1, SelectDisjoint, Zenon
  <2>4. tasks' = e /\ deferred' = h \o deferred
    BY DEF BarrierMove, HeldBack
  <2> HIDE DEF e, h
  <2>5. h \o deferred \in Seq(Task) /\ Len(h \o deferred) = Len(h) + Len(deferred)
    BY <2>1, <2>2
  <2>6. /\ Len(e) \in Nat /\ Len(h) \in Nat /\ Len(tasks) \in Nat /\ Len(deferred) \in Nat
        /\ Capacity \in Nat /\ Len(tasks) + Len(deferred) <= Capacity
    BY <2>1, <2>2, LimitsAssumption DEF IInv, Bounded
  <2>7. Len(e) + (Len(h) + Len(deferred)) <= Capacity
    BY <2>3, <2>6
  <2>8. QED
    BY <2>4, <2>5, <2>7
<1>3. /\ wakePosted' = (wakePosted /\ tasks' # <<>>)
      /\ op = "move" /\ op' = "none"
      /\ UNCHANGED <<draining, shuttingDown, barrierActive, events, posting, drain,
                     processed, boundVars, lastRun>>
  BY DEF BarrierMove
<1>4. TypeOK' /\ Control'
  BY <1>1, <1>2, <1>3 DEF IInv, TypeOK, Control, Ending, boundVars
<1>5. LatchMeansWake' /\ RunnableMeansLatch'
  BY <1>1, <1>3 DEF IInv, TypeOK, LatchMeansWake, RunnableMeansLatch, DrainLooks, OpLooks
<1>6. BarrierHolds' /\ Bounded' /\ ShutdownStaysEmpty'
  BY <1>1, <1>2, <1>3 DEF IInv, Control, BarrierHolds, Bounded, AllDirect, ShutdownStaysEmpty
<1>7. QED
  BY <1>4, <1>5, <1>6 DEF IInv

LEMMA BarrierDropInv ==
    ASSUME IInv, BarrierDrop
    PROVE  IInv'
<1>1. TypeOK'
  BY DEF IInv, TypeOK, BarrierDrop, queueVars, engineVars, boundVars
<1>2. Control'
  BY DEF IInv, TypeOK, Control, Ending, EngineCode, BarrierDrop, queueVars, engineVars, boundVars
<1>3. LatchMeansWake' /\ RunnableMeansLatch'
  BY DEF IInv, TypeOK, Control, LatchMeansWake, RunnableMeansLatch, DrainLooks, OpLooks, Ending, EngineCode,
     BarrierDrop, queueVars, engineVars, boundVars
<1>4. BarrierHolds' /\ Bounded'
  BY DEF IInv, TypeOK, Control, BarrierHolds, Bounded, EngineCode, BarrierDrop, queueVars, engineVars,
     boundVars
<1>5. ShutdownStaysEmpty'
  BY DEF IInv, Control, ShutdownStaysEmpty, EngineCode, BarrierDrop, queueVars, engineVars, boundVars
<1>6. QED
  BY <1>1, <1>2, <1>3, <1>4, <1>5 DEF IInv

LEMMA BarrierSpliceInv ==
    ASSUME IInv, BarrierSplice
    PROVE  IInv'
<1>1. TypeOK'
  <2>1. <<>> \in Seq(Task)
    OBVIOUS
  <2>2. tasks' \in Seq(Task) /\ deferred' \in Seq(Task)
    BY <2>1 DEF IInv, TypeOK, BarrierSplice, Spliced
  <2>3. QED
    BY <2>2 DEF IInv, TypeOK, BarrierSplice, queueVars, engineVars, boundVars
<1>2. Control'
  BY DEF IInv, TypeOK, Control, Ending, EngineCode, BarrierSplice, queueVars, engineVars, boundVars
<1>3. LatchMeansWake' /\ RunnableMeansLatch'
  BY DEF IInv, TypeOK, Control, LatchMeansWake, RunnableMeansLatch, DrainLooks, OpLooks, Ending, EngineCode,
     BarrierSplice, queueVars, engineVars, boundVars
<1>4. BarrierHolds' /\ Bounded'
  <2>1. Len(tasks') = Len(deferred) + Len(tasks) /\ Len(deferred') = 0
    BY DEF IInv, TypeOK, BarrierSplice, Spliced
  <2>2. Bounded'
    <3>1. Len(deferred) \in Nat /\ Len(tasks) \in Nat
      BY DEF IInv, TypeOK
    <3>2. Len(tasks) + Len(deferred) <= Capacity
      BY DEF IInv, Bounded
    <3>3. QED
      BY <2>1, <3>1, <3>2 DEF Bounded
  <2>3. BarrierHolds'
    BY DEF IInv, Control, BarrierHolds, BarrierSplice
  <2>4. QED
    BY <2>2, <2>3
<1>5. ShutdownStaysEmpty'
  BY DEF IInv, Control, ShutdownStaysEmpty, EngineCode, BarrierSplice, queueVars, engineVars, boundVars
<1>6. QED
  BY <1>1, <1>2, <1>3, <1>4, <1>5 DEF IInv

LEMMA PostWakeIfNeededInv ==
    ASSUME IInv, PostWakeIfNeeded
    PROVE  IInv'
<1>1. TypeOK'
  BY DEF IInv, TypeOK, PostWakeIfNeeded, MustPost, queueVars, engineVars, boundVars
<1>2. Control'
  BY DEF IInv, TypeOK, Control, Ending, EngineCode, PostWakeIfNeeded, MustPost, queueVars, engineVars, boundVars
<1>3. LatchMeansWake' /\ RunnableMeansLatch'
  BY DEF IInv, TypeOK, Control, LatchMeansWake, RunnableMeansLatch, DrainLooks, OpLooks, Ending, EngineCode,
     PostWakeIfNeeded, MustPost, queueVars, engineVars, boundVars
<1>4. BarrierHolds' /\ Bounded'
  BY DEF IInv, TypeOK, Control, BarrierHolds, Bounded, EngineCode, PostWakeIfNeeded, MustPost, queueVars, engineVars,
     boundVars
<1>5. ShutdownStaysEmpty'
  BY DEF IInv, Control, ShutdownStaysEmpty, EngineCode, PostWakeIfNeeded, MustPost, queueVars, engineVars, boundVars
<1>6. QED
  BY <1>1, <1>2, <1>3, <1>4, <1>5 DEF IInv

LEMMA EnginePostWakeInv ==
    ASSUME IInv, EnginePostWake
    PROVE  IInv'
<1>1. TypeOK'
  BY DEF IInv, TypeOK, EnginePostWake, queueVars, engineVars, boundVars
<1>2. Control'
  BY DEF IInv, TypeOK, Control, Ending, EngineCode, EnginePostWake, queueVars, engineVars, boundVars
<1>3. LatchMeansWake' /\ RunnableMeansLatch'
  BY DEF IInv, TypeOK, Control, LatchMeansWake, RunnableMeansLatch, DrainLooks, OpLooks, Ending, EngineCode,
     EnginePostWake, queueVars, engineVars, boundVars
<1>4. BarrierHolds' /\ Bounded'
  BY DEF IInv, TypeOK, Control, BarrierHolds, Bounded, EngineCode, EnginePostWake, queueVars, engineVars,
     boundVars
<1>5. ShutdownStaysEmpty'
  BY DEF IInv, Control, ShutdownStaysEmpty, EngineCode, EnginePostWake, queueVars, engineVars, boundVars
<1>6. QED
  BY <1>1, <1>2, <1>3, <1>4, <1>5 DEF IInv

LEMMA ClearWakePostedFlagInv ==
    ASSUME IInv, ClearWakePostedFlag
    PROVE  IInv'
<1>1. TypeOK'
  BY DEF IInv, TypeOK, ClearWakePostedFlag, queueVars, engineVars, boundVars
<1>2. Control'
  BY DEF IInv, TypeOK, Control, Ending, EngineCode, ClearWakePostedFlag, queueVars, engineVars, boundVars
<1>3. LatchMeansWake' /\ RunnableMeansLatch'
  BY DEF IInv, TypeOK, Control, LatchMeansWake, RunnableMeansLatch, DrainLooks, OpLooks, Ending, EngineCode,
     ClearWakePostedFlag, queueVars, engineVars, boundVars
<1>4. BarrierHolds' /\ Bounded'
  BY DEF IInv, TypeOK, Control, BarrierHolds, Bounded, EngineCode, ClearWakePostedFlag, queueVars, engineVars,
     boundVars
<1>5. ShutdownStaysEmpty'
  BY DEF IInv, Control, ShutdownStaysEmpty, EngineCode, ClearWakePostedFlag, queueVars, engineVars, boundVars
<1>6. QED
  BY <1>1, <1>2, <1>3, <1>4, <1>5 DEF IInv

LEMMA BeginShutdownInv ==
    ASSUME IInv, BeginShutdown
    PROVE  IInv'
<1>1. TypeOK'
  BY DEF IInv, TypeOK, BeginShutdown, queueVars, engineVars, boundVars
<1>2. Control'
  BY DEF IInv, TypeOK, Control, Ending, EngineCode, BeginShutdown, queueVars, engineVars, boundVars
<1>3. LatchMeansWake' /\ RunnableMeansLatch'
  BY DEF IInv, TypeOK, Control, LatchMeansWake, RunnableMeansLatch, DrainLooks, OpLooks, Ending, EngineCode,
     BeginShutdown, queueVars, engineVars, boundVars
<1>4. BarrierHolds' /\ Bounded'
  BY DEF IInv, TypeOK, Control, BarrierHolds, Bounded, EngineCode, BeginShutdown, queueVars, engineVars,
     boundVars
<1>5. ShutdownStaysEmpty'
  BY DEF IInv, Control, ShutdownStaysEmpty, EngineCode, BeginShutdown, queueVars, engineVars, boundVars
<1>6. QED
  BY <1>1, <1>2, <1>3, <1>4, <1>5 DEF IInv

LEMMA ClearInv ==
    ASSUME IInv, Clear
    PROVE  IInv'
<1>1. TypeOK'
  <2>1. <<>> \in Seq(Task)
    OBVIOUS
  <2>2. tasks' \in Seq(Task) /\ deferred' \in Seq(Task)
    BY <2>1 DEF Clear
  <2>3. QED
    BY <2>2 DEF IInv, TypeOK, Clear, queueVars, engineVars, boundVars
<1>2. Control'
  BY DEF IInv, TypeOK, Control, Ending, EngineCode, Clear, queueVars, engineVars, boundVars
<1>3. LatchMeansWake' /\ RunnableMeansLatch'
  BY DEF IInv, TypeOK, Control, LatchMeansWake, RunnableMeansLatch, DrainLooks, OpLooks, Ending, EngineCode,
     Clear, queueVars, engineVars, boundVars
<1>4. BarrierHolds' /\ Bounded'
  BY LimitsAssumption DEF IInv, TypeOK, Control, BarrierHolds, Bounded, EngineCode, Clear, queueVars, engineVars,
     boundVars
<1>5. ShutdownStaysEmpty'
  BY DEF IInv, Control, ShutdownStaysEmpty, EngineCode, Clear, queueVars, engineVars, boundVars
<1>6. QED
  BY <1>1, <1>2, <1>3, <1>4, <1>5 DEF IInv

LEMMA DestructorDrainInv ==
    ASSUME IInv, DestructorDrain
    PROVE  IInv'
<1>1. TypeOK'
  BY LimitsAssumption DEF IInv, TypeOK, Control, DestructorDrain, queueVars, engineVars, boundVars
<1>2. Control'
  BY DEF IInv, TypeOK, Control, Ending, EngineCode, DestructorDrain, queueVars, engineVars, boundVars
<1>3. LatchMeansWake' /\ RunnableMeansLatch'
  BY DEF IInv, TypeOK, Control, LatchMeansWake, RunnableMeansLatch, DrainLooks, OpLooks, Ending, EngineCode,
     DestructorDrain, queueVars, engineVars, boundVars
<1>4. BarrierHolds' /\ Bounded'
  BY DEF IInv, TypeOK, Control, BarrierHolds, Bounded, EngineCode, DestructorDrain, queueVars, engineVars,
     boundVars
<1>5. ShutdownStaysEmpty'
  BY DEF IInv, Control, ShutdownStaysEmpty, EngineCode, DestructorDrain, queueVars, engineVars, boundVars
<1>6. QED
  BY <1>1, <1>2, <1>3, <1>4, <1>5 DEF IInv

-----------------------------------------------------------------------------
LEMMA NextKeepsIInv == IInv /\ [Next]_vars => IInv'
<1> SUFFICES ASSUME IInv, [Next]_vars PROVE IInv'
  OBVIOUS
<1>1. ASSUME NEW p \in Producers, NEW k \in ProducerKinds, Enqueue(p, k) PROVE IInv'
  BY <1>1, EnqueueInv
<1>2. ASSUME NEW p \in Producers, PostWake(p) PROVE IInv'
  BY <1>2, PostWakeInv
<1>3. ASSUME NEW k \in EngineKinds, EngineEnqueue(k) PROVE IInv'
  BY <1>3, EngineEnqueueInv
<1>4. CASE DrainStep
  BY <1>4, DeliverWakeInv, DrainPopInv, DrainEmptyInv, TaskDoneInv, DrainLeaveInv DEF DrainStep
<1>5. CASE BarrierRaise \/ BarrierStep
  BY <1>5, BarrierRaiseInv, BarrierMoveInv, BarrierDropInv, BarrierSpliceInv,
     ClearWakePostedFlagInv DEF BarrierStep
<1>6. CASE WakeStep
  BY <1>6, PostWakeIfNeededInv, EnginePostWakeInv DEF WakeStep
<1>7. CASE BeginShutdown \/ EndStep
  BY <1>7, BeginShutdownInv, ClearInv, DestructorDrainInv DEF EndStep
<1>8. CASE UNCHANGED vars
  BY <1>8 DEF IInv, TypeOK, Control, Ending, LatchMeansWake, RunnableMeansLatch, DrainLooks, OpLooks,
     BarrierHolds, Bounded, ShutdownStaysEmpty, vars, queueVars, engineVars, boundVars
<1>9. QED
  BY <1>1, <1>2, <1>3, <1>4, <1>5, <1>6, <1>7, <1>8 DEF Next

\* The invariant holds with any number of threads, tasks and scopes.
THEOREM InductiveInvariant == Spec => []IInv
<1>1. Init => IInv
  BY InitHolds
<1>2. IInv /\ [Next]_vars => IInv'
  BY NextKeepsIInv
<1>3. QED
  BY <1>1, <1>2, PTL DEF Spec

(***************************************************************************)
(* Every variable keeps its type.                                           *)
(***************************************************************************)
THEOREM TypeCorrect == Spec => []TypeOK
<1>1. IInv => TypeOK
  BY DEF IInv
<1>2. QED
  BY <1>1, InductiveInvariant, PTL

(***************************************************************************)
(* No wake is lost, for any number of producers: a runnable task never      *)
(* waits for an event nobody will post.                                     *)
(***************************************************************************)
THEOREM WakesNotLost == Spec => []NoLostWake
<1>1. IInv => NoLostWake
  BY DEF IInv, LatchMeansWake, RunnableMeansLatch, DrainLooks, OpLooks, NoLostWake, WakeComing
<1>2. QED
  BY <1>1, InductiveInvariant, PTL

(***************************************************************************)
(* The barrier holds back every coalesced task, and its release leaves none *)
(* behind, whatever producers do between its steps.                         *)
(***************************************************************************)
THEOREM BarrierIsRespected == Spec => []BarrierHolds
<1>1. IInv => BarrierHolds
  BY DEF IInv
<1>2. QED
  BY <1>1, InductiveInvariant, PTL

(***************************************************************************)
(* The two queues together never exceed the capacity, for any capacity.     *)
(***************************************************************************)
THEOREM QueueIsBounded == Spec => []Bounded
<1>1. IInv => Bounded
  BY DEF IInv
<1>2. QED
  BY <1>1, InductiveInvariant, PTL

(***************************************************************************)
(* Nothing is queued after the destructor's clear.                          *)
(***************************************************************************)
THEOREM NothingAfterShutdown == Spec => []ShutdownStaysEmpty
<1>1. IInv => ShutdownStaysEmpty
  BY DEF IInv
<1>2. QED
  BY <1>1, InductiveInvariant, PTL

-----------------------------------------------------------------------------
(***************************************************************************)
(* Coalescing and order, across both queues.  A task may stand before another *)
(* when it neither coalesces with it nor, in the same lane, came in after it. *)
(* The tasks held back are the older ones, except between the two halves of   *)
(* setBarrier(true): there producers put newer ones behind the barrier while  *)
(* the older still wait to be moved.                                         *)
(***************************************************************************)
MayPrecede(x, y) ==
    /\ ~Supersedes(x, y)
    /\ Lane(x) = Lane(y) => x.id < y.id

Tidy(s) == \A i, j \in 1 .. Len(s) : i < j => MayPrecede(s[i], s[j])

Ahead(s, u) ==
    \A i \in 1 .. Len(s) : \A j \in 1 .. Len(u) : MayPrecede(s[i], u[j])

\* What is queued is newer than what ran in its lane, and older than what is to
\* come.
Timely(s) ==
    \A i \in 1 .. Len(s) : s[i].id < nextId /\ lastRun[Lane(s[i])] < s[i].id

AllHeld(s) == \A i \in 1 .. Len(s) : IsDeferred(s[i])

OrderInv ==
    /\ Tidy(tasks) /\ Tidy(deferred) /\ AllHeld(deferred)
    /\ op = "move" => Ahead(tasks, deferred)
    /\ op # "move" => Ahead(deferred, tasks)
    /\ Timely(tasks) /\ Timely(deferred)
    /\ \A l \in Lanes : lastRun[l] < nextId

(***************************************************************************)
(* What stays when a task is evicted: the order, and every task that is not   *)
(* coalesced.                                                               *)
(***************************************************************************)
LEMMA EraseCoalescedKeeps ==
    ASSUME NEW s \in Seq(Task)
    PROVE  /\ Thins(EraseCoalesced(s), s)
           /\ \A j \in 1 .. Len(s) :
                 ~IsCoalesced(s[j]) => \E i \in 1 .. Len(EraseCoalesced(s)) :
                                           EraseCoalesced(s)[i] = s[j]
<1> DEFINE I  == {i \in 1 .. Len(s) : IsCoalesced(s[i])}
           at == SelectInSeq(s, IsCoalesced)
<1>1. at = IF I # {} THEN Min(I) ELSE 0
  BY DEF SelectInSeq
<1>n. Len(s) \in Nat
  OBVIOUS
<1>2. CASE at = 0
  BY <1>2, <1>n DEF EraseCoalesced, Thins
<1>3. CASE at # 0
  <2>1. I # {} /\ I \subseteq Nat
    BY <1>1, <1>3
  <2>2. at \in I
    <3>1. \E x \in I : \A y \in I : x <= y
      <4> HIDE DEF I
      <4>1. QED
        BY <2>1, LeastNatural
    <3>2. Min(I) \in I
      BY <3>1 DEF Min
    <3>3. QED
      BY <3>2, <1>1, <2>1
  <2>3. at \in 1 .. Len(s) /\ IsCoalesced(s[at])
    BY <2>2
  <2>4. EraseCoalesced(s) = SubSeq(s, 1, at - 1) \o SubSeq(s, at + 1, Len(s))
    BY <1>3 DEF EraseCoalesced, RemoveAt
  <2>10. at \in Nat /\ at >= 1 /\ at <= Len(s)
    BY <2>3
  <2> HIDE DEF at, I
  <2> DEFINE l == SubSeq(s, 1, at - 1)
             r == SubSeq(s, at + 1, Len(s))
             e == l \o r
  <2>5. l \in Seq(Task) /\ Len(l) = at - 1 /\ \A i \in 1 .. Len(l) : l[i] = s[i]
    BY <2>3
  <2>6. r \in Seq(Task) /\ Len(r) = Len(s) - at /\ \A i \in 1 .. Len(r) : r[i] = s[at + i]
    BY <2>3
  <2>11. EraseCoalesced(s) = e
    BY <2>4
  <2> HIDE DEF l, r
  <2>7. /\ Len(e) = Len(l) + Len(r)
        /\ \A i \in 1 .. Len(e) : e[i] = IF i <= Len(l) THEN l[i] ELSE r[i - Len(l)]
    <3>1. l \in Seq(Task) /\ r \in Seq(Task)
      BY <2>5, <2>6
    <3>2. /\ Len(e) = Len(l) + Len(r)
          /\ \A i \in 1 .. (Len(l) + Len(r)) :
                e[i] = IF i <= Len(l) THEN l[i] ELSE r[i - Len(l)]
      BY <3>1
    <3> QED BY <3>2
  <2> HIDE DEF e
  <2>8. /\ Len(e) = Len(s) - 1
        /\ \A i \in 1 .. Len(e) : e[i] = IF i < at THEN s[i] ELSE s[i + 1]
    <3>1. Len(e) = Len(s) - 1
      BY <1>n, <2>5, <2>6, <2>7, <2>10
    <3>2. ASSUME NEW i \in 1 .. Len(e) PROVE e[i] = IF i < at THEN s[i] ELSE s[i + 1]
      <4>1. CASE i < at
        <5>1. i <= Len(l) /\ i \in 1 .. Len(l)
          BY <2>5, <2>10, <3>1, <4>1, <1>n
        <5> QED BY <2>5, <2>7, <4>1, <5>1
      <4>2. CASE ~(i < at)
        <5>1. ~(i <= Len(l)) /\ i - Len(l) \in 1 .. Len(r) /\ at + (i - Len(l)) = i + 1
          BY <2>5, <2>6, <2>10, <3>1, <4>2, <1>n
        <5> QED BY <2>6, <2>7, <4>2, <5>1
      <4> QED BY <4>1, <4>2
    <3> QED BY <3>1, <3>2
  <2>9. Thins(e, s)
    <3> DEFINE at_s(i) == IF i < at THEN i ELSE i + 1
    <3>1. \A i \in 1 .. Len(e) : at_s(i) \in 1 .. Len(s) /\ e[i] = s[at_s(i)]
      BY <1>n, <2>8, <2>10
    <3>2. \A i, j \in 1 .. Len(e) : i < j => at_s(i) < at_s(j)
      BY <1>n, <2>8, <2>10
    <3> HIDE DEF at_s
    <3> QED BY <3>1, <3>2 DEF Thins
  <2>12. ASSUME NEW j \in 1 .. Len(s), ~IsCoalesced(s[j])
         PROVE  \E i \in 1 .. Len(e) : e[i] = s[j]
    <3>1. j # at
      BY <2>3, <2>12
    <3>2. CASE j < at
      <4>1. j \in 1 .. Len(e) /\ e[j] = s[j]
        BY <1>n, <2>8, <2>10, <3>2
      <4> QED BY <4>1
    <3>3. CASE j > at
      <4>1. j - 1 \in 1 .. Len(e) /\ ~(j - 1 < at) /\ (j - 1) + 1 = j
        BY <1>n, <2>8, <2>10, <3>3
      <4>2. e[j - 1] = s[j]
        BY <4>1, <2>8
      <4> QED BY <4>1, <4>2
    <3> QED BY <3>1, <3>2, <3>3, <2>10
  <2> QED BY <2>9, <2>11, <2>12
<1> QED BY <1>2, <1>3

(***************************************************************************)
(* What an incoming task supersedes goes; the order and all else stays.       *)
(***************************************************************************)
LEMMA EraseMatchingKeeps ==
    ASSUME NEW s \in Seq(Task), NEW k
    PROVE  /\ Thins(EraseMatching(s, k), s)
           /\ \A i \in 1 .. Len(EraseMatching(s, k)) : ~Supersedes(k, EraseMatching(s, k)[i])
           /\ \A j \in 1 .. Len(s) :
                 ~Supersedes(k, s[j]) => \E i \in 1 .. Len(EraseMatching(s, k)) :
                                             EraseMatching(s, k)[i] = s[j]
<1> DEFINE S == {t \in Task : ~Supersedes(k, t)}
           e == Select(s, S)
<1>1. EraseMatching(s, k) = e
  BY DEF EraseMatching
<1>2. /\ \A i \in 1 .. Len(e) : \E j \in 1 .. Len(s) : e[i] = s[j] /\ s[j] \in S
      /\ \A j \in 1 .. Len(s) : s[j] \in S => \E i \in 1 .. Len(e) : e[i] = s[j]
  <2> HIDE DEF S
  <2>1. \A i \in 1 .. Len(e) : \E j \in 1 .. Len(s) : e[i] = s[j] /\ s[j] \in S
    BY SelectSpec, Zenon
  <2>2. \A j \in 1 .. Len(s) : s[j] \in S => \E i \in 1 .. Len(e) : e[i] = s[j]
    <3>1. /\ Select(s, S) \in Seq(Task)
          /\ Len(Select(s, S)) <= Len(s)
          /\ \A i \in 1 .. Len(Select(s, S)) :
                \E j \in 1 .. Len(s) : Select(s, S)[i] = s[j] /\ s[j] \in S
          /\ \A j \in 1 .. Len(s) :
                s[j] \in S => \E i \in 1 .. Len(Select(s, S)) : Select(s, S)[i] = s[j]
      BY SelectSpec, SMTT(30)
    <3> QED BY <3>1
  <2> QED BY <2>1, <2>2
<1>3. Thins(e, s)
  <2> HIDE DEF S
  <2> QED BY SelectThins
<1>4. \A j \in 1 .. Len(s) : s[j] \in Task
  OBVIOUS
<1> HIDE DEF e
<1>5. \A i \in 1 .. Len(e) : ~Supersedes(k, e[i])
  BY <1>2
<1>6. \A j \in 1 .. Len(s) : ~Supersedes(k, s[j]) => \E i \in 1 .. Len(e) : e[i] = s[j]
  BY <1>2, <1>4
<1> QED BY <1>1, <1>3, <1>5, <1>6

\* Taking elements out twice takes them out.
LEMMA ThinsTwice ==
    ASSUME NEW s, NEW e, NEW u, Thins(e, s), Thins(u, e)
    PROVE  Thins(u, s)
<1>1. ASSUME NEW k \in 1 .. Len(u) PROVE \E j \in 1 .. Len(s) : u[k] = s[j]
  <2>1. PICK i \in 1 .. Len(e) : u[k] = e[i]
    BY DEF Thins
  <2> QED BY <2>1 DEF Thins
<1>2. ASSUME NEW k \in 1 .. Len(u), NEW l \in 1 .. Len(u), k < l
      PROVE  \E i, j \in 1 .. Len(s) : i < j /\ u[k] = s[i] /\ u[l] = s[j]
  <2>1. PICK i \in 1 .. Len(e), j \in 1 .. Len(e) : i < j /\ u[k] = e[i] /\ u[l] = e[j]
    BY <1>2 DEF Thins
  <2> QED BY <2>1 DEF Thins
<1> QED BY <1>1, <1>2 DEF Thins

\* Taking nothing out is taking elements out.
LEMMA ThinsSelf == ASSUME NEW s PROVE Thins(s, s)
BY DEF Thins

\* What holds of a queue, or between two, holds of what is left of them.
LEMMA TidyThins == ASSUME NEW s, NEW e, Thins(e, s), Tidy(s) PROVE Tidy(e)
BY DEF Thins, Tidy
LEMMA AheadThins ==
    ASSUME NEW s, NEW e, NEW u, NEW v, Thins(e, s), Thins(v, u), Ahead(s, u)
    PROVE  Ahead(e, v)
BY DEF Thins, Ahead
LEMMA TimelyThins == ASSUME NEW s, NEW e, Thins(e, s), Timely(s) PROVE Timely(e)
BY DEF Thins, Timely
LEMMA HeldThins == ASSUME NEW s, NEW e, Thins(e, s), AllHeld(s) PROVE AllHeld(e)
BY DEF Thins, AllHeld

\* Coalescing goes both ways.
LEMMA SupersedesBoth == ASSUME NEW x, NEW y, Supersedes(x, y) PROVE Supersedes(y, x)
BY DEF Supersedes, IsCoalesced

\* Tasks of different lanes are in nobody's way.
LEMMA LanesApart ==
    ASSUME NEW x, NEW y, ~(IsDeferred(x) <=> IsDeferred(y))
    PROVE  MayPrecede(x, y) /\ MayPrecede(y, x)
BY DEF MayPrecede, Supersedes, Lane, IsDeferred

\* One queue behind another.
LEMMA TidyConcat ==
    ASSUME NEW s \in Seq(Task), NEW u \in Seq(Task), Tidy(s), Tidy(u), Ahead(s, u)
    PROVE  Tidy(s \o u)
<1>1. /\ Len(s) \in Nat /\ Len(u) \in Nat /\ Len(s \o u) = Len(s) + Len(u)
      /\ \A i \in 1 .. (Len(s) + Len(u)) :
            (s \o u)[i] = IF i <= Len(s) THEN s[i] ELSE u[i - Len(s)]
  OBVIOUS
<1> DEFINE c == s \o u
<1>c. /\ Len(c) = Len(s) + Len(u)
      /\ \A i \in 1 .. (Len(s) + Len(u)) : c[i] = IF i <= Len(s) THEN s[i] ELSE u[i - Len(s)]
  BY <1>1
<1> HIDE DEF c
<1>2. ASSUME NEW i \in 1 .. Len(c), NEW j \in 1 .. Len(c), i < j
      PROVE  MayPrecede(c[i], c[j])
  <2>1. CASE j <= Len(s)
    <3>1. i \in 1 .. Len(s) /\ j \in 1 .. Len(s) /\ c[i] = s[i] /\ c[j] = s[j]
      BY <1>1, <1>2, <1>c, <2>1
    <3> QED BY <1>2, <3>1 DEF Tidy
  <2>2. CASE i > Len(s)
    <3>1. /\ i - Len(s) \in 1 .. Len(u) /\ j - Len(s) \in 1 .. Len(u)
          /\ i - Len(s) < j - Len(s)
          /\ c[i] = u[i - Len(s)] /\ c[j] = u[j - Len(s)]
      BY <1>1, <1>2, <1>c, <2>2
    <3> QED BY <3>1 DEF Tidy
  <2>3. CASE i <= Len(s) /\ j > Len(s)
    <3>1. /\ i \in 1 .. Len(s) /\ j - Len(s) \in 1 .. Len(u)
          /\ c[i] = s[i] /\ c[j] = u[j - Len(s)]
      BY <1>1, <1>c, <2>3
    <3> QED BY <3>1 DEF Ahead
  <2> QED BY <1>1, <1>2, <1>c, <2>1, <2>2, <2>3
<1> QED BY <1>2 DEF Tidy, c

\* An element of two queues, one behind the other, is an element of either.
LEMMA ConcatItem ==
    ASSUME NEW s \in Seq(Task), NEW u \in Seq(Task)
    PROVE  \A i \in 1 .. Len(s \o u) :
              \/ \E j \in 1 .. Len(s) : (s \o u)[i] = s[j]
              \/ \E j \in 1 .. Len(u) : (s \o u)[i] = u[j]
<1> DEFINE c == s \o u
<1>1. /\ Len(s) \in Nat /\ Len(u) \in Nat /\ Len(c) = Len(s) + Len(u)
      /\ \A i \in 1 .. (Len(s) + Len(u)) : c[i] = IF i <= Len(s) THEN s[i] ELSE u[i - Len(s)]
  OBVIOUS
<1> HIDE DEF c
<1>2. ASSUME NEW i \in 1 .. Len(c)
      PROVE  (\E j \in 1 .. Len(s) : c[i] = s[j]) \/ (\E j \in 1 .. Len(u) : c[i] = u[j])
  <2>1. CASE i <= Len(s)
    <3>1. i \in 1 .. Len(s) /\ c[i] = s[i]
      BY <1>1, <2>1
    <3> QED BY <3>1
  <2>2. CASE i > Len(s)
    <3>1. i - Len(s) \in 1 .. Len(u) /\ c[i] = u[i - Len(s)]
      BY <1>1, <2>2
    <3> QED BY <3>1
  <2> QED BY <1>1, <2>1, <2>2
<1> QED BY <1>2 DEF c

\* One more task behind those of a queue.
LEMMA AppendItem ==
    ASSUME NEW s \in Seq(Task), NEW x \in Task
    PROVE  \A i \in 1 .. Len(Append(s, x)) :
              Append(s, x)[i] = x \/ (i \in 1 .. Len(s) /\ Append(s, x)[i] = s[i])
OBVIOUS
LEMMA TidyAppend ==
    ASSUME NEW s \in Seq(Task), NEW x \in Task, Tidy(s),
           \A i \in 1 .. Len(s) : MayPrecede(s[i], x)
    PROVE  Tidy(Append(s, x))
<1> DEFINE c == Append(s, x)
<1>1. /\ Len(s) \in Nat /\ Len(c) = Len(s) + 1
      /\ c[Len(s) + 1] = x /\ \A i \in 1 .. Len(s) : c[i] = s[i]
  OBVIOUS
<1> HIDE DEF c
<1>2. ASSUME NEW i \in 1 .. Len(c), NEW j \in 1 .. Len(c), i < j
      PROVE  MayPrecede(c[i], c[j])
  <2>1. i \in 1 .. Len(s) /\ c[i] = s[i]
    BY <1>1, <1>2
  <2>2. CASE j \in 1 .. Len(s)
    BY <1>1, <1>2, <2>1, <2>2 DEF Tidy
  <2>3. CASE j = Len(s) + 1
    BY <1>1, <2>1, <2>3
  <2> QED BY <1>1, <2>2, <2>3
<1> QED BY <1>2 DEF Tidy, c

(***************************************************************************)
(* What admitting a task does to the order: the queues are thinned, and the   *)
(* task is put at the end of one of them, if it is.                          *)
(***************************************************************************)
LEMMA AdmitKeeps ==
    ASSUME TypeOK, NEW k \in TaskKinds
    PROVE  \E t, d \in Seq(Task) : \E x \in Task :
              /\ Thins(t, tasks) /\ Thins(d, deferred)
              /\ x.id = nextId
              /\ \A i \in 1 .. Len(t) : ~Supersedes(x, t[i])
              /\ \A i \in 1 .. Len(d) : ~Supersedes(x, d[i])
              /\ \A j \in 1 .. Len(tasks) :
                    ~IsDeferred(tasks[j]) => \E i \in 1 .. Len(t) : t[i] = tasks[j]
              /\ \/ Admit(k).t = t /\ Admit(k).d = d
                 \/ /\ barrierActive /\ IsDeferred(x)
                    /\ Admit(k).t = t /\ Admit(k).d = Append(d, x)
                 \/ /\ ~(barrierActive /\ IsDeferred(x))
                    /\ Admit(k).t = Append(t, x) /\ Admit(k).d = d
<1> DEFINE t1   == EraseMatching(tasks, k)
           d1   == EraseMatching(deferred, k)
           room == RoomFor(k)
           x    == [type |-> k.type, key |-> k.key, id |-> nextId]
<1>t. tasks \in Seq(Task) /\ deferred \in Seq(Task)
  BY DEF TypeOK
<1>x. x \in Task /\ x.id = nextId
  BY KindsAssumption DEF TypeOK, Task
<1>s. \A y : Supersedes(x, y) <=> Supersedes(k, y)
  BY DEF Supersedes, IsCoalesced
<1>c. \A y : ~IsDeferred(y) => ~Supersedes(k, y) /\ ~IsCoalesced(y)
  BY DEF Supersedes, IsDeferred, IsCoalesced
<1>1. /\ t1 \in Seq(Task) /\ Thins(t1, tasks)
      /\ \A i \in 1 .. Len(t1) : ~Supersedes(k, t1[i])
      /\ \A j \in 1 .. Len(tasks) :
            ~IsDeferred(tasks[j]) => \E i \in 1 .. Len(t1) : t1[i] = tasks[j]
  <2>1. t1 \in Seq(Task) /\ Thins(t1, tasks) /\ \A i \in 1 .. Len(t1) : ~Supersedes(k, t1[i])
    BY <1>t, EraseMatchingSpec, EraseMatchingKeeps
  <2>2. \A j \in 1 .. Len(tasks) :
           ~Supersedes(k, tasks[j]) => \E i \in 1 .. Len(t1) : t1[i] = tasks[j]
    BY <1>t, EraseMatchingKeeps
  <2> HIDE DEF t1
  <2> QED BY <1>c, <2>1, <2>2
<1>2. /\ d1 \in Seq(Task) /\ Thins(d1, deferred)
      /\ \A i \in 1 .. Len(d1) : ~Supersedes(k, d1[i])
  BY <1>t, EraseMatchingSpec, EraseMatchingKeeps
<1>3. room = MakeRoom(t1, d1)
  BY DEF RoomFor
<1>a. Admit(k) = IF Full(room.t, room.d) THEN room ELSE Put(room, x)
  BY DEF Admit, Drops
<1>r. room = [t |-> room.t, d |-> room.d]
  BY DEF MakeRoom, RoomFor
<1> HIDE DEF t1, d1, room
<1>4. \/ room.t = t1 /\ room.d = d1
      \/ room.t = t1 /\ room.d = EraseCoalesced(d1)
      \/ room.t = EraseCoalesced(t1) /\ room.d = d1
  BY <1>3 DEF MakeRoom
<1> HIDE DEF x
<1>5. /\ room.t \in Seq(Task) /\ Thins(room.t, t1)
      /\ room.d \in Seq(Task) /\ Thins(room.d, d1)
      /\ \A j \in 1 .. Len(t1) :
            ~IsDeferred(t1[j]) => \E i \in 1 .. Len(room.t) : room.t[i] = t1[j]
  <2>1. /\ EraseCoalesced(t1) \in Seq(Task) /\ Thins(EraseCoalesced(t1), t1)
        /\ EraseCoalesced(d1) \in Seq(Task) /\ Thins(EraseCoalesced(d1), d1)
    BY <1>1, <1>2, EraseCoalescedSpec, EraseCoalescedKeeps
  <2>2. \A j \in 1 .. Len(t1) :
           ~IsCoalesced(t1[j]) => \E i \in 1 .. Len(EraseCoalesced(t1)) :
                                      EraseCoalesced(t1)[i] = t1[j]
    BY <1>1, EraseCoalescedKeeps
  <2>3. Thins(t1, t1) /\ Thins(d1, d1)
    BY ThinsSelf
  <2>4. CASE room.t = t1
    BY <1>1, <1>2, <1>4, <2>1, <2>3, <2>4
  <2>5. CASE room.t = EraseCoalesced(t1) /\ room.d = d1
    BY <1>1, <1>2, <1>c, <2>1, <2>2, <2>3, <2>5
  <2> QED BY <1>4, <2>4, <2>5
<1>6. Thins(room.t, tasks) /\ Thins(room.d, deferred)
  BY <1>1, <1>2, <1>5, ThinsTwice
<1>7. /\ \A i \in 1 .. Len(room.t) : ~Supersedes(x, room.t[i])
      /\ \A i \in 1 .. Len(room.d) : ~Supersedes(x, room.d[i])
  BY <1>1, <1>2, <1>5, <1>s DEF Thins
<1>8. ASSUME NEW j \in 1 .. Len(tasks), ~IsDeferred(tasks[j])
      PROVE  \E i \in 1 .. Len(room.t) : room.t[i] = tasks[j]
  <2>1. PICK i \in 1 .. Len(t1) : t1[i] = tasks[j]
    BY <1>1, <1>8
  <2> QED BY <1>5, <1>8, <2>1
<1>9. \/ Admit(k).t = room.t /\ Admit(k).d = room.d
      \/ /\ barrierActive /\ IsDeferred(x)
         /\ Admit(k).t = room.t /\ Admit(k).d = Append(room.d, x)
      \/ /\ ~(barrierActive /\ IsDeferred(x))
         /\ Admit(k).t = Append(room.t, x) /\ Admit(k).d = room.d
  <2>1. CASE Full(room.t, room.d)
    BY <1>a, <2>1
  <2>2. CASE ~Full(room.t, room.d) /\ barrierActive /\ IsDeferred(x)
    <3>1. Admit(k) = [t |-> room.t, d |-> Append(room.d, x)]
      BY <1>a, <1>r, <2>2 DEF Put
    <3> QED BY <2>2, <3>1
  <2>3. CASE ~Full(room.t, room.d) /\ ~(barrierActive /\ IsDeferred(x))
    <3>1. Admit(k) = [t |-> Append(room.t, x), d |-> room.d]
      BY <1>a, <1>r, <2>3 DEF Put
    <3> QED BY <2>3, <3>1
  <2> QED BY <2>1, <2>2, <2>3
<1> QED
  BY <1>x, <1>5, <1>6, <1>7, <1>8, <1>9

\* The order of both queues when a task is admitted.
LEMMA EnqueueOrder ==
    ASSUME IInv, OrderInv, NEW k \in TaskKinds, EnqueueLocked(k),
           (op = "move") <=> (op' = "move")
    PROVE  OrderInv'
<1>t. /\ tasks \in Seq(Task) /\ deferred \in Seq(Task) /\ nextId \in Nat
      /\ lastRun \in [Lanes -> Nat] /\ nextId' = nextId + 1 /\ lastRun' = lastRun
  BY DEF IInv, TypeOK, EnqueueLocked
<1>b. /\ op = "move" => barrierActive
      /\ barrierActive => op # "splice"
      /\ TypeOK /\ BarrierHolds
  BY DEF IInv, Control
<1>l. \A y : Lane(y) \in Lanes
  BY DEF Lane, Lanes
<1>y. \A y \in Task : y.id \in Nat
  BY DEF Task
<1>1. ASSUME NEW s \in Seq(Task), Timely(s) PROVE \A i \in 1 .. Len(s) :
         s[i].id < nextId' /\ lastRun'[Lane(s[i])] < s[i].id
  BY <1>1, <1>t, <1>y DEF Timely
<1>2. \A l \in Lanes : lastRun'[l] < nextId'
  BY <1>t DEF OrderInv
<1>3. CASE UNCHANGED <<tasks, deferred>>
  <2>1. Timely(tasks)' /\ Timely(deferred)'
    BY <1>1, <1>3, <1>t DEF OrderInv, Timely
  <2> QED BY <1>2, <1>3, <2>1 DEF OrderInv, Tidy, Ahead, AllHeld
<1>4. CASE tasks' = Admit(k).t /\ deferred' = Admit(k).d
  <2>1. PICK t \in Seq(Task), d \in Seq(Task), x \in Task :
              /\ Thins(t, tasks) /\ Thins(d, deferred)
              /\ x.id = nextId
              /\ \A i \in 1 .. Len(t) : ~Supersedes(x, t[i])
              /\ \A i \in 1 .. Len(d) : ~Supersedes(x, d[i])
              /\ \/ Admit(k).t = t /\ Admit(k).d = d
                 \/ /\ barrierActive /\ IsDeferred(x)
                    /\ Admit(k).t = t /\ Admit(k).d = Append(d, x)
                 \/ /\ ~(barrierActive /\ IsDeferred(x))
                    /\ Admit(k).t = Append(t, x) /\ Admit(k).d = d
    BY <1>b, AdmitKeeps
  <2>2. /\ Tidy(t) /\ Tidy(d) /\ AllHeld(d) /\ Timely(t) /\ Timely(d)
        /\ op = "move" => Ahead(t, d)
        /\ op # "move" => Ahead(d, t)
    BY <2>1, TidyThins, AheadThins, HeldThins, TimelyThins DEF OrderInv
  <2>3. \A i \in 1 .. Len(t) : MayPrecede(t[i], x)
    BY <2>1, <2>2, SupersedesBoth DEF Timely, MayPrecede
  <2>4. \A i \in 1 .. Len(d) : MayPrecede(d[i], x)
    BY <2>1, <2>2, SupersedesBoth DEF Timely, MayPrecede
  <2>5. x.id < nextId' /\ lastRun'[Lane(x)] < x.id
    BY <1>t, <1>l, <2>1 DEF OrderInv
  <2>6. CASE tasks' = t /\ deferred' = d
    <3>1. Timely(tasks)' /\ Timely(deferred)'
      BY <1>1, <2>2, <2>6 DEF Timely
    <3> QED BY <1>2, <2>2, <2>6, <3>1 DEF OrderInv, Tidy, Ahead, AllHeld
  <2>7. CASE barrierActive /\ IsDeferred(x) /\ tasks' = t /\ deferred' = Append(d, x)
    <3> DEFINE c == Append(d, x)
    <3>1. /\ c \in Seq(Task) /\ Tidy(c)
          /\ \A i \in 1 .. Len(c) : c[i] = x \/ (i \in 1 .. Len(d) /\ c[i] = d[i])
      BY <2>2, <2>4, TidyAppend, AppendItem
    <3> HIDE DEF c
    <3>2. AllHeld(c)
      BY <2>2, <2>7, <3>1 DEF AllHeld
    <3>3. \A i \in 1 .. Len(c) : c[i].id < nextId' /\ lastRun'[Lane(c[i])] < c[i].id
      BY <1>1, <2>2, <2>5, <3>1
    <3>4. \A i \in 1 .. Len(t) : t[i].id < nextId' /\ lastRun'[Lane(t[i])] < t[i].id
      BY <1>1, <2>2
    <3>5. op = "move" => Ahead(t, c)
      BY <2>2, <2>3, <3>1 DEF Ahead
    <3>6. op # "move" => Ahead(c, t)
      <4> SUFFICES ASSUME op # "move" PROVE Ahead(c, t)
        OBVIOUS
      <4>1. \A i \in 1 .. Len(tasks) : ~IsDeferred(tasks[i])
        BY <1>b, <2>7 DEF BarrierHolds
      <4>2. \A i \in 1 .. Len(t) : ~IsDeferred(t[i])
        BY <2>1, <4>1 DEF Thins
      <4> QED BY <3>2, <4>2, LanesApart DEF Ahead, AllHeld
    <3> QED
      BY <1>2, <2>2, <2>7, <3>1, <3>2, <3>3, <3>4, <3>5, <3>6
         DEF OrderInv, Tidy, Ahead, AllHeld, Timely, c
  <2>8. CASE ~(barrierActive /\ IsDeferred(x)) /\ tasks' = Append(t, x) /\ deferred' = d
    <3> DEFINE c == Append(t, x)
    <3>1. /\ c \in Seq(Task) /\ Tidy(c)
          /\ \A i \in 1 .. Len(c) : c[i] = x \/ (i \in 1 .. Len(t) /\ c[i] = t[i])
      BY <2>2, <2>3, TidyAppend, AppendItem
    <3> HIDE DEF c
    <3>2. \A i \in 1 .. Len(c) : c[i].id < nextId' /\ lastRun'[Lane(c[i])] < c[i].id
      BY <1>1, <2>2, <2>5, <3>1
    <3>3. \A i \in 1 .. Len(d) : d[i].id < nextId' /\ lastRun'[Lane(d[i])] < d[i].id
      BY <1>1, <2>2
    <3>4. op # "move" => Ahead(d, c)
      BY <2>2, <2>4, <3>1 DEF Ahead
    <3>5. op = "move" => Ahead(c, d)
      <4>1. op = "move" => ~IsDeferred(x)
        BY <1>b, <2>8
      <4> QED BY <2>2, <3>1, <4>1, LanesApart DEF Ahead, AllHeld
    <3> QED
      BY <1>2, <2>2, <2>8, <3>1, <3>2, <3>3, <3>4, <3>5
         DEF OrderInv, Tidy, Ahead, AllHeld, Timely, c
  <2> QED BY <1>4, <2>1, <2>6, <2>7, <2>8
<1> QED BY <1>3, <1>4 DEF EnqueueLocked, Refused

-----------------------------------------------------------------------------
\* The queues are empty at first.
LEMMA OrderInit == Init => OrderInv
<1> SUFFICES ASSUME Init PROVE OrderInv
  OBVIOUS
<1>1. Len(tasks) = 0 /\ Len(deferred) = 0 /\ \A l \in Lanes : lastRun[l] < nextId
  BY DEF Init
<1> QED BY <1>1 DEF OrderInv, Tidy, AllHeld, Ahead, Timely

\* A step that moves no task and runs none.
LEMMA QuietOrder ==
    ASSUME OrderInv, UNCHANGED <<tasks, deferred, nextId, lastRun>>,
           (op = "move") <=> (op' = "move")
    PROVE  OrderInv'
BY DEF OrderInv, Tidy, AllHeld, Ahead, Timely

\* The task at the front runs: those behind it in its lane are newer.
LEMMA DrainPopOrder == ASSUME IInv, OrderInv, DrainPop PROVE OrderInv'
<1>1. /\ tasks \in Seq(Task) /\ tasks # <<>> /\ lastRun \in [Lanes -> Nat]
      /\ nextId \in Nat
  BY DEF IInv, TypeOK, DrainPop
<1>2. deferred = <<>> /\ op # "move"
  BY DEF IInv, Control, BarrierHolds, DrainPop
<1>3. /\ tasks' = Tail(tasks) /\ deferred' = <<>> /\ op' = op /\ nextId' = nextId
      /\ lastRun' = lastRun
            \/ lastRun' = [lastRun EXCEPT ![Lane(Head(tasks))] = Head(tasks).id]
  BY <1>2 DEF DrainPop, boundVars
<1> DEFINE e == Tail(tasks)
<1>4. /\ Len(tasks) \in Nat /\ Len(tasks) >= 1 /\ Len(e) = Len(tasks) - 1
      /\ Head(tasks) = tasks[1] /\ \A i \in 1 .. Len(e) : e[i] = tasks[i + 1]
  BY <1>1
<1>5. tasks' = e
  BY <1>3
<1>6. Len(deferred') = 0
  BY <1>3
<1> HIDE DEF e
<1>7. \A y : Lane(y) \in Lanes
  BY DEF Lane, Lanes
<1>8. \A i \in 1 .. Len(e) : i + 1 \in 1 .. Len(tasks) /\ 1 < i + 1
  BY <1>4
<1>9. Tidy(e)
  BY <1>4, <1>8 DEF OrderInv, Tidy
<1>10. 1 \in 1 .. Len(tasks) /\ tasks[1].id < nextId
  BY <1>4 DEF OrderInv, Timely
<1>11. ASSUME NEW i \in 1 .. Len(e)
       PROVE  e[i].id < nextId /\ lastRun'[Lane(e[i])] < e[i].id
  <2>1. /\ i + 1 \in 1 .. Len(tasks) /\ 1 < i + 1 /\ e[i] = tasks[i + 1]
        /\ e[i].id < nextId /\ lastRun[Lane(e[i])] < e[i].id
    BY <1>4, <1>8 DEF OrderInv, Timely
  <2>2. MayPrecede(tasks[1], e[i])
    BY <1>10, <2>1 DEF OrderInv, Tidy
  <2>3. lastRun'[Lane(e[i])] = lastRun[Lane(e[i])]
           \/ (Lane(e[i]) = Lane(tasks[1]) /\ lastRun'[Lane(e[i])] = tasks[1].id)
    BY <1>1, <1>3, <1>4, <1>7
  <2> QED BY <2>1, <2>2, <2>3 DEF MayPrecede
<1>12. \A l \in Lanes : lastRun'[l] < nextId
  <2>1. \A l \in Lanes : lastRun'[l] = lastRun[l] \/ lastRun'[l] = tasks[1].id
    BY <1>1, <1>3, <1>4, <1>7
  <2> QED BY <1>10, <2>1 DEF OrderInv
<1>13. Timely(tasks)'
  BY <1>3, <1>5, <1>11 DEF Timely
<1>14. /\ Timely(deferred)' /\ Tidy(deferred)' /\ AllHeld(deferred)'
       /\ Ahead(deferred, tasks)'
  BY <1>6 DEF Timely, Tidy, AllHeld, Ahead
<1>15. Tidy(tasks)'
  BY <1>5, <1>9 DEF Tidy
<1> QED BY <1>2, <1>3, <1>12, <1>13, <1>14, <1>15 DEF OrderInv

\* The barrier goes up over an empty deferred queue.
LEMMA BarrierRaiseOrder == ASSUME IInv, OrderInv, BarrierRaise PROVE OrderInv'
<1>1. deferred = <<>>
  BY DEF IInv, BarrierHolds, BarrierRaise, EngineCode
<1>2. Len(deferred') = 0 /\ op' = "move"
  BY <1>1 DEF BarrierRaise
<1>3. UNCHANGED <<tasks, deferred, nextId, lastRun>>
  BY DEF BarrierRaise
<1> QED BY <1>2, <1>3 DEF OrderInv, Tidy, AllHeld, Ahead, Timely

\* What Select picks by lane.
LEMMA SelectLane ==
    ASSUME NEW s \in Seq(Task), NEW S, S \subseteq Task
    PROVE  /\ Select(s, S) \in Seq(Task)
           /\ \A i \in 1 .. Len(Select(s, S)) : Select(s, S)[i] \in S
           /\ \A j \in 1 .. Len(s) :
                 s[j] \in S => \E i \in 1 .. Len(Select(s, S)) : Select(s, S)[i] = s[j]
           /\ Thins(Select(s, S), s)
<1>1. /\ Select(s, S) \in Seq(Task)
      /\ Len(Select(s, S)) <= Len(s)
      /\ \A i \in 1 .. Len(Select(s, S)) :
            \E j \in 1 .. Len(s) : Select(s, S)[i] = s[j] /\ s[j] \in S
      /\ \A j \in 1 .. Len(s) :
            s[j] \in S => \E i \in 1 .. Len(Select(s, S)) : Select(s, S)[i] = s[j]
  BY SelectSpec, SMTT(30)
<1>2. Thins(Select(s, S), s)
  BY SelectThins
<1> QED BY <1>1, <1>2

\* The coalesced tasks move in front of what came in behind the barrier.
LEMMA BarrierMoveOrder == ASSUME IInv, OrderInv, BarrierMove PROVE OrderInv'
<1>1. tasks \in Seq(Task) /\ deferred \in Seq(Task)
  BY DEF IInv, TypeOK
<1> DEFINE t == Select(tasks, DirectTasks)
           h == Select(tasks, HeldTasks)
           d == h \o deferred
<1>2. /\ t \in Seq(Task) /\ Thins(t, tasks) /\ \A i \in 1 .. Len(t) : ~IsDeferred(t[i])
  <2>1. DirectTasks \subseteq Task
    BY DEF DirectTasks
  <2>2. t \in Seq(Task) /\ Thins(t, tasks) /\ \A i \in 1 .. Len(t) : t[i] \in DirectTasks
    BY <1>1, <2>1, SelectLane
  <2> QED BY <2>2 DEF DirectTasks
<1>3. /\ h \in Seq(Task) /\ Thins(h, tasks) /\ \A i \in 1 .. Len(h) : IsDeferred(h[i])
  <2>1. HeldTasks \subseteq Task
    BY DEF HeldTasks
  <2>2. h \in Seq(Task) /\ Thins(h, tasks) /\ \A i \in 1 .. Len(h) : h[i] \in HeldTasks
    BY <1>1, <2>1, SelectLane
  <2> QED BY <2>2 DEF HeldTasks
<1>4. /\ tasks' = t /\ deferred' = d /\ op = "move" /\ op' = "none"
      /\ nextId' = nextId /\ lastRun' = lastRun
  BY DEF BarrierMove, HeldBack, boundVars
<1> HIDE DEF t, h
<1>5. /\ Tidy(t) /\ Tidy(h) /\ Timely(t) /\ Timely(h)
      /\ Ahead(h, deferred)
  <2>1. Thins(deferred, deferred)
    BY ThinsSelf
  <2> QED BY <1>2, <1>3, <1>4, <2>1, TidyThins, TimelyThins, AheadThins DEF OrderInv
<1>6. Tidy(d)
  BY <1>1, <1>3, <1>5, TidyConcat DEF OrderInv
<1>7. \A i \in 1 .. Len(d) :
         \/ \E j \in 1 .. Len(h) : d[i] = h[j]
         \/ \E j \in 1 .. Len(deferred) : d[i] = deferred[j]
  BY <1>1, <1>3, ConcatItem
<1> HIDE DEF d
<1>8. AllHeld(d) /\ Timely(d)
  BY <1>3, <1>5, <1>7 DEF OrderInv, AllHeld, Timely
<1>9. Ahead(d, t)
  BY <1>2, <1>8, LanesApart DEF Ahead, AllHeld
<1> QED
  BY <1>4, <1>5, <1>6, <1>8, <1>9 DEF OrderInv, Tidy, AllHeld, Ahead, Timely

\* The older tasks go back in front of the newer.
LEMMA BarrierSpliceOrder == ASSUME IInv, OrderInv, BarrierSplice PROVE OrderInv'
<1>1. tasks \in Seq(Task) /\ deferred \in Seq(Task)
  BY DEF IInv, TypeOK
<1> DEFINE t == deferred \o tasks
<1>2. /\ tasks' = t /\ deferred' = <<>> /\ op = "splice" /\ op' = "spliceCheck"
      /\ nextId' = nextId /\ lastRun' = lastRun
  BY DEF BarrierSplice, Spliced, boundVars
<1>3. Tidy(t)
  BY <1>1, <1>2, TidyConcat DEF OrderInv
<1>4. \A i \in 1 .. Len(t) :
         \/ \E j \in 1 .. Len(deferred) : t[i] = deferred[j]
         \/ \E j \in 1 .. Len(tasks) : t[i] = tasks[j]
  BY <1>1, ConcatItem
<1>5. Len(deferred') = 0
  BY <1>2
<1> HIDE DEF t
<1>6. Timely(t)
  BY <1>4 DEF OrderInv, Timely
<1> QED
  BY <1>2, <1>3, <1>5, <1>6 DEF OrderInv, Tidy, AllHeld, Ahead, Timely

\* Shutdown empties both queues.
LEMMA ClearOrder == ASSUME OrderInv, Clear PROVE OrderInv'
<1>1. /\ Len(tasks') = 0 /\ Len(deferred') = 0
      /\ nextId' = nextId /\ lastRun' = lastRun
  BY DEF Clear, boundVars
<1> QED BY <1>1 DEF OrderInv, Tidy, AllHeld, Ahead, Timely

LEMMA NextKeepsOrder == IInv /\ OrderInv /\ [Next]_vars => OrderInv'
<1> SUFFICES ASSUME IInv, OrderInv, [Next]_vars PROVE OrderInv'
  OBVIOUS
<1>1. ASSUME NEW p \in Producers, NEW k \in ProducerKinds, Enqueue(p, k) PROVE OrderInv'
  <2>1. k \in TaskKinds /\ EnqueueLocked(k) /\ op' = op
    BY <1>1 DEF TaskKinds, Enqueue, engineVars
  <2> QED BY <2>1, EnqueueOrder
<1>2. ASSUME NEW k \in EngineKinds, EngineEnqueue(k) PROVE OrderInv'
  <2>1. k \in TaskKinds /\ EnqueueLocked(k) /\ op # "move" /\ op' # "move"
    BY <1>2 DEF TaskKinds, EngineEnqueue, EngineCode
  <2> QED BY <2>1, EnqueueOrder
<1>3. ASSUME NEW p \in Producers, PostWake(p) PROVE OrderInv'
  BY <1>3, QuietOrder DEF PostWake, queueVars, engineVars, boundVars
<1>4. CASE DrainStep
  <2>1. CASE DrainPop
    BY <2>1, DrainPopOrder
  <2>2. CASE DeliverWake \/ DrainEmpty \/ TaskDone \/ DrainLeave
    <3>1. UNCHANGED <<tasks, deferred, nextId, lastRun>>
      BY <2>2 DEF DeliverWake, DrainEmpty, TaskDone, DrainLeave, boundVars
    <3>2. (op = "move") <=> (op' = "move")
      BY <2>2 DEF IInv, Control, DeliverWake, DrainEmpty, TaskDone, DrainLeave
    <3> QED BY <3>1, <3>2, QuietOrder
  <2> QED BY <1>4, <2>1, <2>2 DEF DrainStep
<1>5. CASE BarrierRaise \/ BarrierMove \/ BarrierSplice
  BY <1>5, BarrierRaiseOrder, BarrierMoveOrder, BarrierSpliceOrder
<1>6. CASE BarrierDrop \/ ClearWakePostedFlag \/ WakeStep \/ BeginShutdown \/ DestructorDrain
  <2>1. UNCHANGED <<tasks, deferred, nextId, lastRun>>
    BY <1>6 DEF BarrierDrop, ClearWakePostedFlag, WakeStep, PostWakeIfNeeded, EnginePostWake,
       BeginShutdown, DestructorDrain, queueVars, boundVars
  <2>2. op # "move" /\ op' # "move"
    BY <1>6 DEF BarrierDrop, ClearWakePostedFlag, WakeStep, PostWakeIfNeeded, EnginePostWake,
       BeginShutdown, DestructorDrain, EngineCode
  <2> QED BY <2>1, <2>2, QuietOrder
<1>7. CASE Clear
  BY <1>7, ClearOrder
<1>8. CASE UNCHANGED vars
  BY <1>8, QuietOrder DEF vars, queueVars, engineVars, boundVars
<1> QED
  BY <1>1, <1>2, <1>3, <1>4, <1>5, <1>6, <1>7, <1>8 DEF Next, BarrierStep, EndStep

\* The lanes stay in order, and tasks coalesced, throughout.
LEMMA OrderIsInvariant == Spec => [](IInv /\ OrderInv)
<1>1. Init => OrderInv
  BY OrderInit
<1>2. IInv /\ OrderInv /\ [Next]_vars => OrderInv'
  BY NextKeepsOrder
<1> QED BY <1>1, <1>2, InductiveInvariant, PTL DEF Spec

(***************************************************************************)
(* Two tasks that coalesce are never queued together, across both queues.    *)
(***************************************************************************)
THEOREM CoalescingHolds == Spec => []CoalescedOnce
<1>1. IInv /\ OrderInv => CoalescedOnce
  <2> SUFFICES ASSUME IInv, OrderInv PROVE CoalescedOnce
    OBVIOUS
  <2> DEFINE all == tasks \o deferred
  <2>1. tasks \in Seq(Task) /\ deferred \in Seq(Task)
    BY DEF IInv, TypeOK
  <2>2. /\ Len(tasks) \in Nat /\ Len(deferred) \in Nat
        /\ Len(all) = Len(tasks) + Len(deferred)
        /\ \A i \in 1 .. (Len(tasks) + Len(deferred)) :
              all[i] = IF i <= Len(tasks) THEN tasks[i] ELSE deferred[i - Len(tasks)]
    BY <2>1
  <2> HIDE DEF all
  <2>3. ASSUME NEW i \in 1 .. Len(all), NEW j \in 1 .. Len(all), i < j
        PROVE  ~Supersedes(all[i], all[j]) /\ ~Supersedes(all[j], all[i])
    <3>1. MayPrecede(all[i], all[j]) \/ MayPrecede(all[j], all[i])
      <4>1. CASE j <= Len(tasks)
        <5>1. /\ i \in 1 .. Len(tasks) /\ j \in 1 .. Len(tasks)
              /\ all[i] = tasks[i] /\ all[j] = tasks[j]
          BY <2>2, <2>3, <4>1
        <5> QED BY <2>3, <5>1 DEF OrderInv, Tidy
      <4>2. CASE i > Len(tasks)
        <5>1. /\ i - Len(tasks) \in 1 .. Len(deferred) /\ j - Len(tasks) \in 1 .. Len(deferred)
              /\ i - Len(tasks) < j - Len(tasks)
              /\ all[i] = deferred[i - Len(tasks)] /\ all[j] = deferred[j - Len(tasks)]
          BY <2>2, <2>3, <4>2
        <5> QED BY <5>1 DEF OrderInv, Tidy
      <4>3. CASE i <= Len(tasks) /\ j > Len(tasks)
        <5>1. /\ i \in 1 .. Len(tasks) /\ j - Len(tasks) \in 1 .. Len(deferred)
              /\ all[i] = tasks[i] /\ all[j] = deferred[j - Len(tasks)]
          BY <2>2, <4>3
        <5> QED BY <5>1 DEF OrderInv, Ahead
      <4> QED BY <2>2, <2>3, <4>1, <4>2, <4>3
    <3> QED BY <3>1, SupersedesBoth DEF MayPrecede
  <2>4. \A i, j \in 1 .. Len(all) : i # j => ~Supersedes(all[i], all[j])
    <3>1. \A i, j \in 1 .. Len(all) : i # j => i < j \/ j < i
      BY <2>2
    <3> QED BY <2>3, <3>1
  <2> QED BY <2>4 DEF CoalescedOnce, all
<1> QED BY <1>1, OrderIsInvariant, PTL

(***************************************************************************)
(* Each lane runs in the order its tasks came in, whatever barriers were      *)
(* raised and dropped in between.                                            *)
(***************************************************************************)
THEOREM LanesRunInOrder == Spec => RunOrder
<1>1. IInv /\ OrderInv /\ [Next]_vars => [\A l \in Lanes : lastRun'[l] >= lastRun[l]]_vars
  <2> SUFFICES ASSUME IInv, OrderInv, Next PROVE \A l \in Lanes : lastRun'[l] >= lastRun[l]
    OBVIOUS
  <2>1. lastRun \in [Lanes -> Nat] /\ tasks \in Seq(Task)
    BY DEF IInv, TypeOK
  <2>2. CASE DrainPop
    <3>1. 1 \in 1 .. Len(tasks) /\ Head(tasks) = tasks[1]
      BY <2>1, <2>2 DEF DrainPop
    <3>2. tasks[1] \in Task /\ lastRun[Lane(tasks[1])] < tasks[1].id
      BY <2>1, <3>1 DEF OrderInv, Timely
    <3>3. tasks[1].id \in Nat
      BY <3>2 DEF Task
    <3>4. \A l \in Lanes : \/ lastRun'[l] = lastRun[l]
                           \/ l = Lane(tasks[1]) /\ lastRun'[l] = tasks[1].id
      BY <2>1, <2>2, <3>1 DEF DrainPop
    <3> QED BY <2>1, <3>2, <3>3, <3>4
  <2>3. CASE UNCHANGED lastRun
    BY <2>1, <2>3
  <2>4. DrainPop \/ UNCHANGED lastRun
    BY DEF Next, Enqueue, EngineEnqueue, EnqueueLocked, PostWake, DrainStep, DeliverWake,
       DrainEmpty, TaskDone, DrainLeave, BarrierRaise, BarrierStep, BarrierMove, BarrierDrop,
       BarrierSplice, ClearWakePostedFlag, WakeStep, PostWakeIfNeeded, EnginePostWake,
       BeginShutdown, EndStep, Clear, DestructorDrain
  <2> QED BY <2>2, <2>3, <2>4
<1> QED BY <1>1, OrderIsInvariant, PTL DEF Spec, RunOrder

(***************************************************************************)
(* A worker or internal task leaves the queue only to run, or at shutdown.   *)
(***************************************************************************)
Kept(x) == \/ \E j \in 1 .. Len(tasks') : tasks'[j] = x
           \/ lastRun'["direct"] = x.id

LEMMA EnqueueKeepsDirect ==
    ASSUME IInv, ~shuttingDown, NEW k \in TaskKinds, EnqueueLocked(k),
           NEW i \in 1 .. Len(tasks), ~IsDeferred(tasks[i])
    PROVE  Kept(tasks[i])
<1>1. tasks' = Admit(k).t /\ TypeOK
  BY DEF EnqueueLocked, Refused, IInv
<1>2. PICK t \in Seq(Task), x \in Task :
        /\ \A j \in 1 .. Len(tasks) :
              ~IsDeferred(tasks[j]) => \E m \in 1 .. Len(t) : t[m] = tasks[j]
        /\ Admit(k).t = t \/ Admit(k).t = Append(t, x)
  BY <1>1, AdmitKeeps
<1>3. PICK m \in 1 .. Len(t) : t[m] = tasks[i]
  BY <1>2
<1>4. m \in 1 .. Len(Append(t, x)) /\ Append(t, x)[m] = t[m]
  BY <1>2
<1> QED BY <1>1, <1>2, <1>3, <1>4 DEF Kept

\* Of any number of tasks, one of a worker or of the engine itself leaves the
\* queue only to run, or at shutdown.
THEOREM DirectTasksStay == Spec => DirectTasksKept
<1>1. IInv /\ [Next]_vars =>
        [\A i \in 1 .. Len(tasks) :
            (~IsDeferred(tasks[i]) /\ ~shuttingDown) => Kept(tasks[i])]_vars
  <2> SUFFICES ASSUME IInv, Next, NEW i \in 1 .. Len(tasks),
                      ~IsDeferred(tasks[i]), ~shuttingDown
               PROVE  Kept(tasks[i])
    OBVIOUS
  <2>1. /\ tasks \in Seq(Task) /\ deferred \in Seq(Task) /\ lastRun \in [Lanes -> Nat]
        /\ tasks[i] \in Task
    BY DEF IInv, TypeOK
  <2>2. CASE UNCHANGED tasks
    BY <2>2 DEF Kept
  <2>3. ASSUME NEW k \in TaskKinds, EnqueueLocked(k) PROVE Kept(tasks[i])
    BY <2>3, EnqueueKeepsDirect
  <2>4. CASE DrainPop
    <3>1. tasks' = Tail(tasks) /\ Head(tasks) = tasks[1]
      BY <2>1, <2>4 DEF DrainPop
    <3>2. CASE i = 1
      <4>1. Lane(tasks[1]) = "direct" /\ "direct" \in Lanes
        BY <3>2 DEF Lane, Lanes
      <4> QED BY <2>1, <2>4, <3>1, <3>2, <4>1 DEF DrainPop, Kept
    <3>3. CASE i # 1
      <4>1. i - 1 \in 1 .. Len(Tail(tasks)) /\ Tail(tasks)[i - 1] = tasks[i]
        BY <2>1, <2>4, <3>3 DEF DrainPop
      <4> QED BY <3>1, <4>1 DEF Kept
    <3> QED BY <3>2, <3>3
  <2>5. CASE BarrierMove
    <3>1. tasks[i] \in DirectTasks /\ DirectTasks \subseteq Task
      BY <2>1 DEF DirectTasks
    <3>2. \E j \in 1 .. Len(Select(tasks, DirectTasks)) :
             Select(tasks, DirectTasks)[j] = tasks[i]
      <4> DEFINE u == Select(tasks, DirectTasks)
      <4>1. \A j \in 1 .. Len(tasks) :
               tasks[j] \in DirectTasks => \E m \in 1 .. Len(u) : u[m] = tasks[j]
        BY <2>1, <3>1, SelectLane
      <4> HIDE DEF u
      <4>2. \E m \in 1 .. Len(u) : u[m] = tasks[i]
        BY <3>1, <4>1
      <4> QED BY <4>2 DEF u
    <3> QED BY <2>5, <3>2 DEF BarrierMove, Kept
  <2>6. CASE BarrierSplice
    <3>1. /\ Len(deferred) + i \in 1 .. Len(deferred \o tasks)
          /\ (deferred \o tasks)[Len(deferred) + i] = tasks[i]
      BY <2>1
    <3> QED BY <2>6, <3>1 DEF BarrierSplice, Spliced, Kept
  <2>7. ~Clear
    BY DEF Clear, IInv, Control, Ending
  <2>8. \/ \E k \in TaskKinds : EnqueueLocked(k)
        \/ DrainPop \/ BarrierMove \/ BarrierSplice \/ Clear
        \/ UNCHANGED tasks
    BY DEF Next, TaskKinds, Enqueue, EngineEnqueue, PostWake, DrainStep, DeliverWake,
       DrainEmpty, TaskDone, DrainLeave, BarrierRaise, BarrierStep, BarrierDrop,
       ClearWakePostedFlag, WakeStep, PostWakeIfNeeded, EnginePostWake,
       BeginShutdown, EndStep, DestructorDrain, queueVars
  <2> QED BY <2>2, <2>3, <2>4, <2>5, <2>6, <2>7, <2>8
<1>2. Spec => [][\A i \in 1 .. Len(tasks) :
                    (~IsDeferred(tasks[i]) /\ ~shuttingDown) => Kept(tasks[i])]_vars
  BY <1>1, InductiveInvariant, PTL DEF Spec
<1> QED BY <1>2 DEF DirectTasksKept, Kept
=============================================================================
