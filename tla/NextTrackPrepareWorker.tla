----------------------- MODULE NextTrackPrepareWorker -----------------------
(***************************************************************************)
(* The thread that opens and fills the next track while the current one      *)
(* plays (src/core/engine/decode/nexttrackpreparer.cpp).  The engine thread   *)
(* requests and cancels; a job may block inside a decoder, and only an abort  *)
(* of the decoder it registered gets it out.                                *)
(*                                                                         *)
(* One step is one critical section, one look at a cancel flag or one call    *)
(* into the decoder.                                                        *)
(***************************************************************************)
EXTENDS Integers, Sequences

CONSTANTS
    Subjects,         \* what a request may be for
    MaxJobs,          \* bound: requests in a behaviour
    MaxCancels        \* bound: cancellations in a behaviour

ASSUME WorkerAssumption == MaxJobs \in Nat /\ MaxCancels \in Nat

VARIABLES
    slot,             \* m_pendingRequest
    nextToken,        \* m_nextJobToken
    activeToken,      \* m_activeJobToken
    flag, setFlags,   \* m_cancelFlag, as a number; the flags that are set
    registered,       \* m_activeDecoder, by the token of its job; 0 for none
    aborted,          \* the decoders asked to abort
    stopRequested,    \* the stop token of the thread
    worker, job,      \* where the worker is, and the request it works on
    results,          \* results posted to the engine, not applied
    caller,           \* where the engine thread is inside a call on the worker
    quitting          \* the main thread aborted whatever blocks, to quit

workerVars == <<slot, nextToken, activeToken, flag, setFlags, registered, aborted,
                stopRequested, worker, job, results, caller, quitting>>

Job   == [token : Nat, flag : Nat, subject : Subjects]
NoJob == [token |-> 0]

WorkerInit ==
    /\ slot = NoJob /\ nextToken = 1 /\ activeToken = 0
    /\ flag = 1 /\ setFlags = {}
    /\ registered = 0 /\ aborted = {}
    /\ stopRequested = FALSE
    /\ worker = "wait" /\ job = NoJob
    /\ results = <<>>
    /\ caller = "free" /\ quitting = FALSE

-----------------------------------------------------------------------------
(* The calls of the engine thread, and the abort from the main thread.        *)

\* Mutant: every request gets the token of the first.
TokenMutant == 1

Token == nextToken

ReplacePending(s) ==
    /\ caller = "free"
    /\ nextToken <= MaxJobs
    /\ slot' = [token |-> Token, flag |-> flag, subject |-> s]
    /\ nextToken' = nextToken + 1
    /\ UNCHANGED <<activeToken, flag, setFlags, registered, aborted, stopRequested,
                   worker, job, results, caller, quitting>>

\* Mutant: a new flag is installed, but the old one is not set.
FlagsSetMutant == setFlags

FlagsSet == setFlags \cup {flag}

\* cancelPendingJobs: the flag first, under the lock; RequestActiveJobAbort
\* is the rest of the call.
CancelPendingJobs ==
    /\ caller = "free"
    /\ flag <= MaxCancels
    /\ setFlags' = FlagsSet
    /\ flag' = flag + 1
    /\ slot' = NoJob
    /\ caller' = "cancel"
    /\ UNCHANGED <<nextToken, activeToken, registered, aborted, stopRequested, worker,
                   job, results, quitting>>

\* Mutant: no test for there being a decoder.
AbortRegisteredMutant == aborted' = aborted \cup {registered}

AbortRegistered == aborted' = IF registered # 0 THEN aborted \cup {registered} ELSE aborted

RequestActiveJobAbort ==
    /\ caller \in {"cancel", "stop"}
    /\ AbortRegistered
    /\ caller' = IF caller = "cancel" THEN "free" ELSE "aborted"
    /\ UNCHANGED <<slot, nextToken, activeToken, flag, setFlags, registered,
                   stopRequested, worker, job, results, quitting>>

\* ~EngineHandler, before it lets the engine be deleted.
RequestBlockingDecoderAbort ==
    /\ ~quitting
    /\ AbortRegistered
    /\ quitting' = TRUE
    /\ UNCHANGED <<slot, nextToken, activeToken, flag, setFlags, registered,
                   stopRequested, worker, job, results, caller>>

\* stop(), by the destructor of the engine.
Stop ==
    /\ caller = "free"
    /\ setFlags' = setFlags \cup {flag}
    /\ slot' = NoJob
    /\ activeToken' = 0
    /\ caller' = "stop"
    /\ UNCHANGED <<nextToken, flag, registered, aborted, stopRequested, worker, job,
                   results, quitting>>

RequestStop ==
    /\ caller = "aborted"
    /\ stopRequested' = TRUE
    /\ caller' = "join"
    /\ UNCHANGED <<slot, nextToken, activeToken, flag, setFlags, registered, aborted,
                   worker, job, results, quitting>>

Join ==
    /\ caller = "join" /\ worker = "exited"
    /\ caller' = "stopped"
    /\ UNCHANGED <<slot, nextToken, activeToken, flag, setFlags, registered, aborted,
                   stopRequested, worker, job, results, quitting>>

-----------------------------------------------------------------------------
(* The worker: run() and prepare().                                         *)

Cancelled == job.flag \in setFlags

\* A step that moves the worker and nothing else.
Move(to) ==
    /\ worker' = to
    /\ UNCHANGED <<slot, nextToken, activeToken, flag, setFlags, registered, aborted,
                   stopRequested, job, results, caller, quitting>>

Take ==
    /\ worker = "wait" /\ ~stopRequested
    /\ slot # NoJob
    /\ job' = slot /\ slot' = NoJob
    /\ activeToken' = slot.token
    /\ worker' = "begin"
    /\ UNCHANGED <<nextToken, flag, setFlags, registered, aborted, stopRequested, results,
                   caller, quitting>>

Exit == worker = "wait" /\ stopRequested /\ Move("exited")

\* Nothing is prepared when the job is cancelled, or cannot be.
Begin ==
    /\ worker = "begin"
    /\ \/ Move("failed")
       \/ ~Cancelled /\ Move("load")

\* Mutant: the flag is not looked at again once the decoder is registered.
RegisterMutant == registered' = job.token /\ worker' = "seek"

Register == registered' = job.token /\ worker' = "registered"

\* loadDecoderForTrack opens the source, and no abort reaches it; then the
\* decoder is registered.
Load ==
    /\ worker = "load"
    /\ \/ worker' = "failed" /\ UNCHANGED registered
       \/ Register
    /\ UNCHANGED <<slot, nextToken, activeToken, flag, setFlags, aborted, stopRequested,
                   job, results, caller, quitting>>

\* A look at the flag: a cancelled job gives up, another goes on.
Check(to) == Move(IF Cancelled THEN "giveUp" ELSE to)

\* Without a stream to fill, the decoder is all that is prepared; or it cannot
\* be initialised.
CheckRegistered ==
    worker = "registered" /\ (Check("keep") \/ Check("seek") \/ Move("giveUp"))

\* The calls that may block for as long as the source does.
Unblock ==
    \/ worker = "seek" /\ Check("prefill")
    \/ worker = "prefill" /\ Check("keep")

\* The registration ends with prepare().
Deregister ==
    /\ worker \in {"giveUp", "keep"}
    /\ registered' = 0
    /\ worker' = IF worker = "keep" THEN "prepared" ELSE "failed"
    /\ UNCHANGED <<slot, nextToken, activeToken, flag, setFlags, aborted, stopRequested,
                   job, results, caller, quitting>>

\* A cancelled or stale result is not posted.
Judge ==
    /\ worker \in {"prepared", "failed"}
    /\ LET drop == Cancelled \/ activeToken # job.token
       IN  /\ worker' = IF drop THEN "wait"
                        ELSE IF worker = "prepared" THEN "postPrepared" ELSE "postFailed"
           /\ job' = IF drop THEN NoJob ELSE job
    /\ UNCHANGED <<slot, nextToken, activeToken, flag, setFlags, registered, aborted,
                   stopRequested, results, caller, quitting>>

\* The completion handler queues a worker task, and the queue keeps its order.
Post ==
    /\ worker \in {"postPrepared", "postFailed"}
    /\ results' = Append(results, [token |-> job.token, subject |-> job.subject,
                                   prepared |-> worker = "postPrepared"])
    /\ worker' = "wait" /\ job' = NoJob
    /\ UNCHANGED <<slot, nextToken, activeToken, flag, setFlags, registered, aborted,
                   stopRequested, caller, quitting>>

-----------------------------------------------------------------------------
(* What the engine relies on.                                               *)

CallStep == RequestActiveJobAbort \/ RequestStop \/ Join
JobStep  ==
    Take \/ Exit \/ Begin \/ Load \/ CheckRegistered \/ Deregister \/ Judge \/ Post

\* The worker runs, opening a source ends (the network gives up), and a decoder
\* asked to abort returns.  A decoder nobody aborts may block for ever.
WorkerFairness ==
    /\ WF_workerVars(JobStep)
    /\ WF_workerVars(Unblock /\ job.token \in aborted)
    /\ WF_workerVars(CallStep)

WorkerTypeOK ==
    /\ slot \in Job \cup {NoJob} /\ job \in Job \cup {NoJob}
    /\ nextToken \in Nat \ {0} /\ activeToken \in Nat /\ registered \in Nat
    /\ flag \in Nat /\ setFlags \subseteq 1 .. flag
    /\ aborted \subseteq 1 .. (nextToken - 1)
    /\ stopRequested \in BOOLEAN /\ quitting \in BOOLEAN
    /\ worker \in {"wait", "begin", "load", "registered", "seek", "prefill", "giveUp",
                   "keep", "prepared", "failed", "postPrepared", "postFailed", "exited"}
    /\ results \in Seq([token : Nat, subject : Subjects, prepared : BOOLEAN])
    /\ caller \in {"free", "cancel", "stop", "aborted", "join", "stopped"}

\* A result the engine receives never comes from a decoder that was told to
\* abort: an abort meant for a cancelled job hits no other.
NoAbortedResult ==
    quitting \/ \A i \in 1 .. Len(results) : results[i].token \notin aborted

\* Results arrive in the order of their requests.
ResultsInOrder ==
    \A i, j \in 1 .. Len(results) : i < j => results[i].token < results[j].token

\* A cancelled job ends, wherever the cancellation finds it: the worker never
\* stays in a decoder that the abort came too early for.
CancelledJobEnds ==
    \A t \in 1 .. MaxJobs : (job.token = t /\ Cancelled) ~> job.token # t

\* The destructor never waits for the worker in vain.
StopReturns == caller = "stop" ~> caller = "stopped"
=============================================================================
