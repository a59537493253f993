-------------------------- MODULE EngineTaskQueue --------------------------
(***************************************************************************)
(* The task queue of the audio engine's thread                             *)
(* (src/core/engine/control/enginetaskqueue.cpp).  Any thread enqueues;     *)
(* the engine thread drains when Qt delivers the wake event, and raises a   *)
(* barrier around a stream or output rebuild, which holds back the          *)
(* coalesced kinds of task.                                                *)
(*                                                                         *)
(* One step is one critical section of m_mutex, one access to an atomic     *)
(* that other threads can see, or one QCoreApplication::postEvent.          *)
(***************************************************************************)
EXTENDS Integers, Sequences, SequencesExt, SeqSelect

CONSTANTS
    Producers,        \* threads other than the engine thread that enqueue
    ProducerKinds,    \* the kinds of task they enqueue
    EngineKinds,      \* the kinds the engine thread enqueues itself
    Capacity,         \* MaxQueuedEngineTasks
    Batch,            \* MaxDrainBatchSize
    MaxTasks,         \* bound: calls of enqueue in a behaviour
    MaxScopes         \* bound: barrier scopes opened in a behaviour

TaskType  == {"PipelineWake", "Timer", "Worker", "Internal"}
NoKey     == -1
TaskKinds == ProducerKinds \cup EngineKinds

ASSUME KindsAssumption ==
    TaskKinds \subseteq [type : TaskType, key : Int]

ASSUME LimitsAssumption ==
    /\ Capacity \in Nat \ {0}
    /\ Batch \in Nat \ {0}
    /\ MaxTasks \in Nat
    /\ MaxScopes \in Nat

Task == [type : TaskType, key : Int, id : Nat]

VARIABLES
    tasks,           \* m_tasks
    deferred,        \* m_deferredTasks
    draining,        \* m_draining
    wakePosted,      \* m_wakePosted
    shuttingDown,    \* m_shuttingDown
    barrierActive,   \* m_barrierActive
    events,          \* wake events posted to the engine object, not delivered
    posting,         \* the producers between latching the wake and posting it
    drain,           \* where the engine thread is inside drain()
    op,              \* where it is inside another call on the queue
    processed,       \* drain()'s local count
    nextId,          \* calls of enqueue so far; the next task's identity
    scopes,          \* barrier scopes opened so far
    lastRun          \* history: the newest task run, for each lane

queueVars  == <<tasks, deferred, draining, wakePosted, shuttingDown, barrierActive>>
engineVars == <<drain, op, processed>>
boundVars  == <<nextId, scopes>>
vars == <<queueVars, events, posting, engineVars, boundVars, lastRun>>

-----------------------------------------------------------------------------
(* The kinds of task.  A lane is a set of kinds the queue keeps in order.   *)

IsCoalesced(t) == t.type \in {"PipelineWake", "Timer"}
IsDeferred(t)  == t.type \in {"PipelineWake", "Timer"}

HeldTasks   == {t \in Task : IsDeferred(t)}
DirectTasks == {t \in Task : ~IsDeferred(t)}

Lanes   == {"held", "direct"}
Lane(t) == IF IsDeferred(t) THEN "held" ELSE "direct"

\* What an incoming task of kind k supersedes: two keyed timers only when
\* their keys agree.
Supersedes(k, t) ==
    /\ IsCoalesced(k)
    /\ t.type = k.type
    /\ (k.type = "Timer" /\ k.key >= 0 /\ t.key >= 0) => t.key = k.key

EraseMatching(queue, k) == Select(queue, {t \in Task : ~Supersedes(k, t)})

\* Mutant: a full queue evicts whatever is at its front.
EraseCoalescedMutant(queue) ==
    IF queue = <<>> THEN queue ELSE Tail(queue)

\* The queue without its first coalesced task (itself if it has none).
EraseCoalesced(queue) ==
    LET at == SelectInSeq(queue, IsCoalesced)
    IN  IF at = 0 THEN queue ELSE RemoveAt(queue, at)

\* Mutant: capacity counts the runnable tasks only.
FullMutant(t, d) == Len(t) >= Capacity

\* What admitting a task of kind k does to <<tasks, deferred>>: erase what it
\* supersedes, then make room by evicting, from the deferred tasks first, one
\* coalesced task.
Full(t, d) == Len(t) + Len(d) >= Capacity

MakeRoom(t, d) ==
    IF ~Full(t, d) THEN [t |-> t, d |-> d]
    ELSE IF EraseCoalesced(d) # d THEN [t |-> t, d |-> EraseCoalesced(d)]
         ELSE [t |-> EraseCoalesced(t), d |-> d]

\* Mutant: the barrier is not looked at when a task comes in.
PutMutant(room, task) == [room EXCEPT !.t = Append(@, task)]

Put(room, task) ==
    IF barrierActive /\ IsDeferred(task)
    THEN [room EXCEPT !.d = Append(@, task)]
    ELSE [room EXCEPT !.t = Append(@, task)]

\* The queues, as a record, with room made for a task of kind k.
RoomFor(k) == MakeRoom(EraseMatching(tasks, k), EraseMatching(deferred, k))

\* Nothing could be evicted: the task is dropped.
Drops(k) == Full(RoomFor(k).t, RoomFor(k).d)

\* Mutant: only the runnable tasks are searched for superseded ones.
AdmitMutant(k) ==
    LET room == MakeRoom(EraseMatching(tasks, k), deferred)
        task == [type |-> k.type, key |-> k.key, id |-> nextId]
    IN  IF Full(room.t, room.d) THEN room ELSE Put(room, task)

Admit(k) ==
    LET task == [type |-> k.type, key |-> k.key, id |-> nextId]
    IN  IF Drops(k) THEN RoomFor(k) ELSE Put(RoomFor(k), task)

\* hasRunnableTasksLocked together with the latch.
MustPost(t) == ~wakePosted /\ t # <<>>

-----------------------------------------------------------------------------
Init ==
    /\ tasks = <<>> /\ deferred = <<>>
    /\ draining = FALSE /\ wakePosted = FALSE
    /\ shuttingDown = FALSE /\ barrierActive = FALSE
    /\ events = 0
    /\ posting = {}
    /\ drain = "off" /\ op = "none" /\ processed = 0
    /\ nextId = 1 /\ scopes = 0
    /\ lastRun = [l \in Lanes |-> 0]

\* The engine thread runs code of its own: a slot, or the body of a task.
EngineCode == op = "none" /\ drain \in {"off", "run"}

\* Mutant: the flag is tested before the lock only, so a call already under
\* way is not refused.
RefusedMutant == FALSE

\* enqueue() tests m_shuttingDown again under the lock.
Refused == shuttingDown

(* enqueue(): the critical section.  It is refused once shutdown has begun   *)
(* and drops the task when nothing can be evicted.  The caller that sets     *)
(* the latch still has to post the event (the second component).             *)
EnqueueLocked(k) ==
    /\ nextId <= MaxTasks
    /\ nextId' = nextId + 1
    /\ IF Refused
       THEN UNCHANGED <<tasks, deferred, wakePosted>>
       ELSE LET q == Admit(k)
            IN  /\ tasks' = q.t
                /\ deferred' = q.d
                /\ wakePosted' = (wakePosted \/ (q.t # <<>> /\ ~Drops(k)))
    /\ UNCHANGED <<draining, shuttingDown, barrierActive, events, scopes, lastRun>>

Enqueue(p, k) ==
    /\ p \notin posting
    /\ EnqueueLocked(k)
    /\ posting' = IF ~wakePosted /\ wakePosted' THEN posting \cup {p} ELSE posting
    /\ UNCHANGED engineVars

PostWake(p) ==
    /\ p \in posting
    /\ posting' = posting \ {p}
    /\ events' = events + 1
    /\ UNCHANGED <<queueVars, engineVars, boundVars, lastRun>>

\* The engine itself enqueues position updates, timer ticks and pipeline wakes
\* only while it drains or holds the barrier; otherwise it runs them in place.
EngineEnqueue(k) ==
    /\ EngineCode
    /\ IsDeferred(k) => (draining \/ barrierActive)
    /\ EnqueueLocked(k)
    /\ op' = IF ~wakePosted /\ wakePosted' THEN "post" ELSE "none"
    /\ UNCHANGED <<posting, drain, processed>>

-----------------------------------------------------------------------------
(* The wake event and drain().                                              *)

\* AudioEngine::event; a wake that arrives after shutdown began is swallowed.
\* Events are delivered between slots, never inside one.
DeliverWake ==
    /\ op = "none" /\ drain = "off" /\ ~barrierActive
    /\ events > 0
    /\ events' = events - 1
    /\ IF shuttingDown \/ draining
       THEN UNCHANGED <<draining, drain, processed>>
       ELSE draining' = TRUE /\ drain' = "pop" /\ processed' = 0
    /\ UNCHANGED <<tasks, deferred, wakePosted, shuttingDown, barrierActive,
                   posting, op, boundVars, lastRun>>

DrainPop ==
    /\ drain = "pop"
    /\ tasks # <<>>
    /\ tasks' = Tail(tasks)
    /\ IF shuttingDown
       THEN UNCHANGED <<drain, lastRun>>
       ELSE /\ drain' = "run"
            /\ lastRun' = [lastRun EXCEPT ![Lane(Head(tasks))] = Head(tasks).id]
    /\ UNCHANGED <<deferred, draining, wakePosted, shuttingDown, barrierActive,
                   events, posting, op, processed, boundVars>>

\* Mutant: the latch stays set when the loop finds the queue empty.
DrainEmptyMutant ==
    /\ drain = "pop"
    /\ tasks = <<>>
    /\ drain' = "leave"
    /\ UNCHANGED <<queueVars, events, posting, op, processed, boundVars, lastRun>>

DrainEmpty ==
    /\ drain = "pop"
    /\ tasks = <<>>
    /\ wakePosted' = FALSE
    /\ drain' = "leave"
    /\ UNCHANGED <<tasks, deferred, draining, shuttingDown, barrierActive, events,
                   posting, op, processed, boundVars, lastRun>>

\* Mutant: the end of a batch forgets what is still queued.
AfterBatchMutant(t) == "leave"

\* The task returns; a full batch stops the loop, and remembers whether tasks
\* are left ("leaveRepost").
AfterBatch(t) == IF t # <<>> THEN "leaveRepost" ELSE "leave"

\* Mutant: the limit is tested as if the count did not include this task.
BatchFullMutant(n) == n > Batch

BatchFull(n) == n >= Batch

TaskDone ==
    /\ drain = "run" /\ op = "none" /\ ~barrierActive
    /\ processed' = processed + 1
    /\ IF BatchFull(processed + 1)
       THEN drain' = AfterBatch(tasks) /\ wakePosted' = FALSE
       ELSE drain' = "pop" /\ UNCHANGED wakePosted
    /\ UNCHANGED <<tasks, deferred, draining, shuttingDown, barrierActive, events,
                   posting, op, boundVars, lastRun>>

DrainLeave ==
    /\ drain \in {"leave", "leaveRepost"}
    /\ draining' = FALSE
    /\ processed' = 0
    /\ drain' = "off"
    /\ op' = IF drain = "leaveRepost" THEN "check" ELSE op
    /\ UNCHANGED <<tasks, deferred, wakePosted, shuttingDown, barrierActive, events,
                   posting, boundVars, lastRun>>

-----------------------------------------------------------------------------
(* The barrier scope of a rebuild, and postWakeIfNeeded.                     *)

\* setBarrier(true): the atomic exchange, visible before the lock is taken.
BarrierRaise ==
    /\ EngineCode /\ ~barrierActive /\ ~shuttingDown
    /\ scopes < MaxScopes
    /\ scopes' = scopes + 1
    /\ barrierActive' = TRUE
    /\ op' = "move"
    /\ UNCHANGED <<tasks, deferred, draining, wakePosted, shuttingDown, events,
                   posting, drain, processed, nextId, lastRun>>

\* Mutant: tasks held back are put behind those that came in since.
HeldBackMutant == deferred \o Select(tasks, HeldTasks)

HeldBack == Select(tasks, HeldTasks) \o deferred

BarrierMove ==
    /\ op = "move"
    /\ tasks' = Select(tasks, DirectTasks)
    /\ deferred' = HeldBack
    /\ wakePosted' = (wakePosted /\ tasks' # <<>>)
    /\ op' = "none"
    /\ UNCHANGED <<draining, shuttingDown, barrierActive, events, posting, drain,
                   processed, boundVars, lastRun>>

\* ScopedBarrier::release: setBarrier(false), clearWakePostedFlag,
\* postWakeIfNeeded.
BarrierDrop ==
    /\ EngineCode /\ barrierActive
    /\ barrierActive' = FALSE
    /\ op' = "splice"
    /\ UNCHANGED <<tasks, deferred, draining, wakePosted, shuttingDown, events,
                   posting, drain, processed, boundVars, lastRun>>

Spliced == deferred \o tasks

BarrierSplice ==
    /\ op = "splice"
    /\ tasks' = Spliced
    /\ deferred' = <<>>
    /\ op' = "spliceCheck"
    /\ UNCHANGED <<draining, wakePosted, shuttingDown, barrierActive, events,
                   posting, drain, processed, boundVars, lastRun>>

\* postWakeIfNeeded, called by setBarrier(false) ("spliceCheck"), and by
\* release() and at the end of a drain ("check").
PostWakeIfNeeded ==
    /\ op \in {"spliceCheck", "check"}
    /\ LET posts == ~shuttingDown /\ MustPost(tasks)
       IN  /\ wakePosted' = (wakePosted \/ posts)
           /\ op' = IF op = "check"
                    THEN IF posts THEN "post" ELSE "none"
                    ELSE IF posts THEN "splicePost" ELSE "clearFlag"
    /\ UNCHANGED <<tasks, deferred, draining, shuttingDown, barrierActive, events,
                   posting, drain, processed, boundVars, lastRun>>

EnginePostWake ==
    /\ op \in {"post", "splicePost"}
    /\ events' = events + 1
    /\ op' = IF op = "post" THEN "none" ELSE "clearFlag"
    /\ UNCHANGED <<queueVars, posting, drain, processed, boundVars, lastRun>>

ClearWakePostedFlag ==
    /\ op = "clearFlag"
    /\ wakePosted' = FALSE
    /\ op' = "check"
    /\ UNCHANGED <<tasks, deferred, draining, shuttingDown, barrierActive, events,
                   posting, drain, processed, boundVars, lastRun>>

-----------------------------------------------------------------------------
(* The destructor of the engine: beginShutdown, a last drain, a last clear.  *)

BeginShutdown ==
    /\ op = "none" /\ drain = "off" /\ ~barrierActive
    /\ ~shuttingDown
    /\ shuttingDown' = TRUE
    /\ op' = "clear"
    /\ UNCHANGED <<tasks, deferred, draining, wakePosted, barrierActive, events,
                   posting, drain, processed, boundVars, lastRun>>

\* clear(), from beginShutdown ("clear") and at the end ("lastClear").
Clear ==
    /\ op \in {"clear", "lastClear"} /\ drain = "off"
    /\ tasks' = <<>> /\ deferred' = <<>>
    /\ draining' = FALSE /\ wakePosted' = FALSE
    /\ op' = IF op = "clear" THEN "lastDrain" ELSE "destroyed"
    /\ UNCHANGED <<shuttingDown, barrierActive, events, posting, drain, processed,
                   boundVars, lastRun>>

DestructorDrain ==
    /\ op = "lastDrain"
    /\ draining' = TRUE /\ drain' = "pop" /\ op' = "lastClear"
    /\ UNCHANGED <<tasks, deferred, wakePosted, shuttingDown, barrierActive, events,
                   posting, processed, boundVars, lastRun>>

-----------------------------------------------------------------------------
DrainStep   == DeliverWake \/ DrainPop \/ DrainEmpty \/ TaskDone \/ DrainLeave
BarrierStep == BarrierMove \/ BarrierDrop \/ BarrierSplice \/ ClearWakePostedFlag
WakeStep    == PostWakeIfNeeded \/ EnginePostWake
EndStep     == Clear \/ DestructorDrain

Next ==
    \/ \E p \in Producers : (\E k \in ProducerKinds : Enqueue(p, k)) \/ PostWake(p)
    \/ \E k \in EngineKinds : EngineEnqueue(k)
    \/ DrainStep
    \/ BarrierRaise \/ BarrierStep \/ WakeStep
    \/ BeginShutdown \/ EndStep

\* The Qt event loop delivers what was posted, slots and tasks return, and a
\* thread inside a call finishes it.
Fairness ==
    /\ \A p \in Producers : WF_vars(PostWake(p))
    /\ WF_vars(DrainStep) /\ WF_vars(BarrierStep)
    /\ WF_vars(WakeStep) /\ WF_vars(EndStep)

Spec == Init /\ [][Next]_vars /\ Fairness

-----------------------------------------------------------------------------
(* Properties.                                                              *)

Queued(id) == \E i \in 1 .. Len(tasks \o deferred) : (tasks \o deferred)[i].id = id

\* Every variable has its type.  A drain counts the tasks it has run from
\* nothing up to a batch, and takes a task from the queue only while its batch
\* has room for it: MaxDrainBatchSize is what lets the event loop in between.
TypeOK ==
    /\ tasks \in Seq(Task) /\ deferred \in Seq(Task)
    /\ draining \in BOOLEAN /\ wakePosted \in BOOLEAN
    /\ shuttingDown \in BOOLEAN /\ barrierActive \in BOOLEAN
    /\ events \in Nat
    /\ posting \subseteq Producers
    /\ drain \in {"off", "pop", "run", "leave", "leaveRepost"}
    /\ op \in {"none", "post", "move", "splice", "spliceCheck", "splicePost",
               "clearFlag", "check", "clear", "lastDrain", "lastClear", "destroyed"}
    /\ processed \in 0 .. Batch
    /\ drain = "off" => processed = 0
    /\ drain \in {"pop", "run"} => processed < Batch
    /\ nextId \in Nat /\ scopes \in Nat
    /\ lastRun \in [Lanes -> Nat]

\* A wake is on its way: posted, about to be posted, or the engine is at a
\* point of its code from which it looks at the queue again.
WakeComing ==
    \/ events > 0
    \/ posting # {}
    \/ drain \in {"pop", "run", "leaveRepost"}
    \/ op \in {"post", "splice", "spliceCheck", "splicePost", "clearFlag", "check"}

\* No wake is lost: a runnable task never waits for an event nobody will post.
\* enqueue, drain, the barrier and its release all write m_wakePosted.
NoLostWake == (tasks # <<>> /\ ~shuttingDown) => WakeComing

\* The barrier holds: with the barrier settled, no coalesced task is runnable
\* under it, and nothing stays held back without it.
BarrierHolds ==
    op \notin {"move", "splice"} =>
        IF barrierActive
        THEN \A i \in 1 .. Len(tasks) : ~IsDeferred(tasks[i])
        ELSE deferred = <<>>

\* Two tasks that coalesce are never queued together, across both queues.
CoalescedOnce ==
    LET all == tasks \o deferred
    IN  \A i, j \in 1 .. Len(all) : i # j => ~Supersedes(all[i], all[j])

\* The two queues together respect MaxQueuedEngineTasks.
Bounded == Len(tasks) + Len(deferred) <= Capacity

\* Each lane runs in the order its tasks came in, whatever barriers were raised
\* and dropped in between.
RunOrder == [][\A l \in Lanes : lastRun'[l] >= lastRun[l]]_vars

\* Saturation, coalescing and the barrier never cost a worker or internal task
\* its place: it leaves the queue only to run, or at shutdown.
DirectTasksKept ==
    [][\A i \in 1 .. Len(tasks) :
         (~IsDeferred(tasks[i]) /\ ~shuttingDown)
            => \/ \E j \in 1 .. Len(tasks') : tasks'[j] = tasks[i]
               \/ lastRun'["direct"] = tasks[i].id]_vars

\* After the destructor's clear nothing is queued again, whoever still calls.
ShutdownStaysEmpty ==
    op \in {"lastDrain", "lastClear", "destroyed"} => (tasks = <<>> /\ deferred = <<>>)

\* Every queued task leaves the queue: it runs, is superseded or evicted, or
\* the engine shuts down.
QueuedTaskLeaves == \A id \in 1 .. MaxTasks : Queued(id) ~> ~Queued(id)
=============================================================================
