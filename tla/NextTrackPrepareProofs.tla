---------------------- MODULE NextTrackPrepareProofs ----------------------
(***************************************************************************)
(* Proofs about the preparation worker and the engine that uses it, for any   *)
(* number of requests, cancellations and tracks: the types; that no result    *)
(* comes from a decoder that was told to abort; that results keep the order   *)
(* of their requests; that no track starts that the user has given up.        *)
(*                                                                         *)
(* An abort names no request: it goes to the decoder that is registered.  That *)
(* it hits only cancelled jobs rests on the order of three things: the flag is *)
(* set before the abort, the slot is empty from one to the other, and a job    *)
(* that has passed its last look at the flag is no longer registered.         *)
(***************************************************************************)
EXTENDS NextTrackPrepare, SequenceTheorems, TLAPS

\* A decoder is registered from its first look at the flag to the end of
\* prepare().
Registering == {"registered", "seek", "prefill", "giveUp", "keep"}
Posting     == {"postPrepared", "postFailed"}
Places == Registering \cup Posting \cup {"wait", "begin", "load", "prepared", "failed", "exited"}
Callers == {"free", "cancel", "stop", "aborted", "join", "stopped"}
Results == [token : Nat, subject : Subjects, prepared : BOOLEAN]
Manuals == [item : Items \cup {NoItem}, id : Nat, generation : Nat]

\* What the worker's variables may hold.
WorkerTypes ==
    /\ slot \in Job \cup {NoJob} /\ job \in Job \cup {NoJob}
    /\ nextToken \in Nat \ {0} /\ activeToken \in Nat /\ registered \in Nat
    /\ flag \in Nat \ {0} /\ setFlags \subseteq 1 .. flag
    /\ aborted \subseteq 1 .. (nextToken - 1)
    /\ stopRequested \in BOOLEAN /\ quitting \in BOOLEAN
    /\ worker \in Places /\ caller \in Callers
    /\ results \in Seq(Results)

\* There is a job unless the worker waits or is gone, and its decoder is the
\* one that is registered.
JobHeld ==
    /\ worker \in {"wait", "exited"} <=> job = NoJob
    /\ registered = IF worker \in Registering THEN job.token ELSE 0

\* Tokens grow along the way of a request: from what was posted to the job, to
\* the slot, to the next one to be given.
Tokens ==
    /\ slot # NoJob => slot.token \in 1 .. (nextToken - 1)
    /\ job # NoJob => job.token \in 1 .. (nextToken - 1)
    /\ slot # NoJob /\ job # NoJob => job.token < slot.token
    /\ slot # NoJob => \A t \in aborted : t < slot.token
    /\ \A i \in 1 .. Len(results) :
          /\ results[i].token < nextToken
          /\ job # NoJob => results[i].token < job.token
          /\ slot # NoJob => results[i].token < slot.token

\* The flags before the one in use are set; inside a call that cancels, every
\* job is cancelled and none can begin.
Flags ==
    /\ \A f \in 1 .. (flag - 1) : f \in setFlags
    /\ slot # NoJob => slot.flag \in 1 .. flag
    /\ job # NoJob => job.flag \in 1 .. flag
    /\ caller # "free" => slot = NoJob /\ (job # NoJob => Cancelled)

\* A job whose decoder was told to abort is cancelled and not about to post.
Aborts ==
    ~quitting /\ job # NoJob /\ job.token \in aborted =>
        Cancelled /\ worker \notin Posting

WorkerInv ==
    WorkerTypes /\ JobHeld /\ Tokens /\ Flags /\ Aborts /\ NoAbortedResult /\ ResultsInOrder

ItemsOrNone == Items \cup {NoItem}

\* What the engine's variables may hold.
EngineTypes ==
    /\ current \in Items /\ generation \in 1 .. MaxTracks
    /\ candidate \in ItemsOrNone /\ prepared \in ItemsOrNone /\ wanted \in ItemsOrNone
    /\ manual \in Manuals /\ todo \in Subjects \cup {NoSubject}
    /\ manual.id < nextManualId /\ manual.generation <= generation
    /\ nextManualId \in Nat \ {0}
    /\ drainAsked \in BOOLEAN /\ late \in BOOLEAN

\* A request in todo has its token to come, and no more manual changes were made
\* than requests: a change finds an id that a request may have.
Counts ==
    /\ todo = NoSubject => nextManualId <= nextToken
    /\ todo # NoSubject => nextManualId <= nextToken + 1 /\ nextToken <= MaxJobs
    /\ nextManualId <= MaxJobs + 1

\* A manual change that belongs to the current track is the user's last choice.
Wanted == manual.generation = generation => wanted = manual.item

IInv == WorkerInv /\ EngineTypes /\ Counts /\ Wanted /\ NoLateStart
-----------------------------------------------------------------------------
(* The worker and the calls on it.                                          *)

\* What a step may do to the worker's variables.
WorkerOp ==
    \/ \E s \in Subjects : ReplacePending(s)
    \/ CancelPendingJobs \/ RequestBlockingDecoderAbort \/ Stop
    \/ CallStep \/ JobStep \/ Unblock
    \/ TakeResult
    \/ UNCHANGED workerVars

\* What the steps of a job are made of.
LEMMA JobSteps ==
    ASSUME WorkerTypes, JobHeld, JobStep \/ Unblock
    PROVE  \/ Take
           \/ /\ UNCHANGED <<slot, nextToken, activeToken, flag, setFlags, aborted,
                             stopRequested, results, caller, quitting>>
              /\ \/ /\ UNCHANGED <<job, registered>>
                    /\ worker \in {"wait", "exited"} <=> worker' \in {"wait", "exited"}
                    /\ worker \in Registering <=> worker' \in Registering
                    /\ worker' \in Places \ Posting
                 \/ Load \/ Deregister \/ Judge
           \/ Post
<1>1. CASE Exit
  BY <1>1 DEF Exit, Move, Registering, Places, Posting
<1>2. CASE Begin
  BY <1>2 DEF Begin, Move, Registering, Places, Posting
<1>3. CASE CheckRegistered
  BY <1>3 DEF CheckRegistered, Check, Move, Registering, Places, Posting
<1>4. CASE Unblock
  BY <1>4 DEF Unblock, Check, Move, Registering, Places, Posting
<1>5. CASE Load
  BY <1>5 DEF Load
<1>6. CASE Deregister
  BY <1>6 DEF Deregister
<1>7. CASE Judge
  BY <1>7 DEF Judge
<1> QED
  BY <1>1, <1>2, <1>3, <1>4, <1>5, <1>6, <1>7 DEF JobStep

LEMMA WorkerTypesStep ==
    ASSUME WorkerTypes, JobHeld, Tokens, WorkerOp
    PROVE  WorkerTypes'
<1> USE DEF WorkerTypes
<1>1. ASSUME NEW s \in Subjects, ReplacePending(s) PROVE WorkerTypes'
  BY <1>1, WorkerAssumption DEF ReplacePending, Token, Job
<1>2. CASE CancelPendingJobs
  BY <1>2 DEF CancelPendingJobs, FlagsSet, Callers
<1>3. ASSUME AbortRegistered, UNCHANGED nextToken
      PROVE  aborted' \subseteq 1 .. (nextToken' - 1)
  BY <1>3 DEF AbortRegistered, JobHeld, Tokens, Registering, NoJob
<1>4. CASE RequestBlockingDecoderAbort
  BY <1>3, <1>4 DEF RequestBlockingDecoderAbort
<1>5. CASE Stop
  BY <1>5 DEF Stop, Callers
<1>6. CASE CallStep
  BY <1>3, <1>6 DEF CallStep, RequestActiveJobAbort, RequestStop, Join, Callers
<1>7. CASE JobStep \/ Unblock
  <2>1. CASE Take
    BY <2>1 DEF Take, Job, Places
  <2>2. CASE Load
    BY <2>2, WorkerAssumption
       DEF Load, Register, Places, Registering, Tokens, JobHeld, NoJob, Job
  <2>3. CASE Deregister \/ Judge
    <3>1. CASE Deregister
      BY <3>1 DEF Deregister, Places, Registering
    <3>2. CASE Judge
      <4>1. worker' \in {"wait", "postPrepared", "postFailed"} /\ job' \in {job, NoJob}
        BY <3>2 DEF Judge
      <4> QED BY <3>2, <4>1 DEF Judge, Places, Posting
    <3> QED BY <2>3, <3>1, <3>2
  <2>4. CASE Post
    <3>1. job \in Job /\ job # NoJob
      BY <2>4 DEF Post, JobHeld
    <3>2. [token |-> job.token, subject |-> job.subject,
           prepared |-> worker = "postPrepared"] \in Results
      BY <3>1 DEF Job, Results
    <3>3. results' \in Seq(Results)
      BY <2>4, <3>2, AppendProperties DEF Post
    <3> QED BY <2>4, <3>3 DEF Post, Places
  <2> QED BY <1>7, <2>1, <2>2, <2>3, <2>4, JobSteps
<1>8. CASE TakeResult
  <2>1. results' \in Seq(Results)
    BY <1>8, HeadTailProperties DEF TakeResult
  <2> QED BY <1>8, <2>1 DEF TakeResult
<1>9. CASE UNCHANGED workerVars
  BY <1>9 DEF workerVars
<1> QED
  BY <1>1, <1>2, <1>4, <1>5, <1>6, <1>7, <1>8, <1>9 DEF WorkerOp

LEMMA JobHeldStep ==
    ASSUME WorkerTypes, JobHeld, WorkerOp
    PROVE  JobHeld'
<1> USE DEF JobHeld
<1>1. CASE UNCHANGED <<worker, job, registered>>
  BY <1>1
<1>2. CASE JobStep \/ Unblock
  <2>1. CASE Take
    BY <2>1 DEF Take, Registering
  <2>2. CASE Load \/ Deregister \/ Judge
    BY <2>2 DEF Load, Register, Deregister, Judge, Registering
  <2>3. CASE Post
    BY <2>3 DEF Post, Registering
  <2> QED BY <1>2, <2>1, <2>2, <2>3, JobSteps
<1> QED
  BY <1>1, <1>2
     DEF WorkerOp, workerVars, ReplacePending, CancelPendingJobs,
         RequestBlockingDecoderAbort, Stop, CallStep, RequestActiveJobAbort, RequestStop,
         Join, TakeResult


\* The results that remain when the engine takes one are those behind it.
LEMMA ResultsBehind ==
    ASSUME WorkerTypes, TakeResult
    PROVE  /\ Len(results') = Len(results) - 1 /\ Len(results) \in Nat
           /\ \A i \in 1 .. Len(results') : i + 1 \in 1 .. Len(results)
                                            /\ results'[i] = results[i + 1]
<1>1. results # <<>> /\ results' = Tail(results) /\ results \in Seq(Results)
  BY DEF TakeResult, WorkerTypes
<1>2. Len(results') = Len(results) - 1 /\ Len(results) \in Nat
      /\ \A i \in 1 .. Len(results') : results'[i] = results[i + 1]
  BY <1>1, HeadTailProperties
<1> QED BY <1>2

\* A result is posted behind the others, with the token of the job.
LEMMA ResultPosted ==
    ASSUME WorkerTypes, JobHeld, Post
    PROVE  /\ Len(results') = Len(results) + 1 /\ Len(results) \in Nat
           /\ \A i \in 1 .. Len(results) : results'[i] = results[i]
           /\ results'[Len(results')].token = job.token
           /\ job # NoJob
<1> DEFINE posted == [token |-> job.token, subject |-> job.subject,
                      prepared |-> worker = "postPrepared"]
<1>1. results' = Append(results, posted) /\ results \in Seq(Results)
  BY DEF Post, WorkerTypes
<1>2. job # NoJob /\ job \in Job
  BY DEF Post, JobHeld, WorkerTypes
<1>3. posted \in Results
  BY <1>2 DEF Job, Results
<1>4. posted.token = job.token
  OBVIOUS
<1> HIDE DEF posted
<1>5. /\ Len(results') = Len(results) + 1 /\ Len(results) \in Nat
      /\ \A i \in 1 .. Len(results) : results'[i] = results[i]
      /\ results'[Len(results) + 1] = posted
  BY <1>1, <1>3, AppendProperties, LenProperties
<1>6. results'[Len(results')] = posted
  BY <1>5
<1>7. results'[Len(results')].token = job.token
  BY <1>4, <1>6
<1> QED BY <1>2, <1>5, <1>7

\* What is posted is older than every other token: one more result, or one less,
\* leaves it so.
LEMMA TokensStep ==
    ASSUME WorkerTypes, JobHeld, Tokens, Flags, WorkerOp
    PROVE  Tokens'
<1>t. slot \in Job \cup {NoJob} /\ job \in Job \cup {NoJob} /\ nextToken \in Nat \ {0}
      /\ aborted \subseteq 1 .. (nextToken - 1)
      /\ (slot # NoJob => slot.token \in Nat) /\ (job # NoJob => job.token \in Nat)
      /\ Len(results) \in Nat /\ \A i \in 1 .. Len(results) : results[i].token \in Nat
  <2>1. results \in Seq(Results)
    BY DEF WorkerTypes
  <2>2. Len(results) \in Nat /\ \A i \in 1 .. Len(results) : results[i] \in Results
    BY <2>1, LenProperties, ElementOfSeq
  <2> QED BY <2>2 DEF WorkerTypes, Job, Results
<1>1. ASSUME NEW s \in Subjects, ReplacePending(s) PROVE Tokens'
  <2>1. slot'.token = nextToken
    BY <1>1 DEF ReplacePending, Token
  <2> QED BY <1>1, <1>t, <2>1 DEF ReplacePending, Tokens
<1>2. CASE CancelPendingJobs \/ Stop
  BY <1>2, <1>t DEF CancelPendingJobs, Stop, Tokens
<1>3. CASE RequestBlockingDecoderAbort \/ CallStep
  <2>1. aborted' \subseteq aborted \cup ({registered} \ {0})
    BY <1>3 DEF RequestBlockingDecoderAbort, CallStep, RequestActiveJobAbort,
                RequestStop, Join, AbortRegistered
  <2>2. registered = 0 \/ (registered = job.token /\ job # NoJob)
    BY DEF JobHeld, Registering
  <2>3. UNCHANGED <<slot, job, nextToken, results>>
    BY <1>3 DEF RequestBlockingDecoderAbort, CallStep, RequestActiveJobAbort,
                RequestStop, Join
  <2> QED BY <1>t, <2>1, <2>2, <2>3 DEF Tokens
<1>4. CASE JobStep \/ Unblock
  <2>1. CASE Take
    BY <1>t, <2>1 DEF Take, Tokens
  <2>2. CASE UNCHANGED <<slot, nextToken, aborted, results>> /\ job' \in {job, NoJob}
    BY <1>t, <2>2 DEF Tokens
  <2>3. Load \/ Deregister \/ Judge => job' \in {job, NoJob}
    BY DEF Load, Deregister, Judge
  <2>4. CASE Post
    <3>1. UNCHANGED <<slot, nextToken, aborted>> /\ job' = NoJob
      BY <2>4 DEF Post
    <3>2. \A i \in 1 .. Len(results') :
             results'[i].token = job.token \/ (i \in 1 .. Len(results) /\ results'[i] = results[i])
      BY <1>t, <2>4, ResultPosted
    <3> QED BY <1>t, <2>4, <3>1, <3>2, ResultPosted DEF Tokens
  <2> QED BY <1>4, <2>1, <2>2, <2>3, <2>4, JobSteps
<1>5. CASE TakeResult
  BY <1>5, <1>t, ResultsBehind DEF TakeResult, Tokens
<1>6. CASE UNCHANGED workerVars
  BY <1>6 DEF workerVars, Tokens
<1> QED
  BY <1>1, <1>2, <1>3, <1>4, <1>5, <1>6 DEF WorkerOp

LEMMA FlagsStep ==
    ASSUME WorkerTypes, JobHeld, Flags, WorkerOp
    PROVE  Flags'
<1>t. slot \in Job \cup {NoJob} /\ job \in Job \cup {NoJob} /\ flag \in Nat \ {0}
  BY DEF WorkerTypes
<1>1. ASSUME NEW s \in Subjects, ReplacePending(s) PROVE Flags'
  <2>1. slot'.flag = flag
    BY <1>1 DEF ReplacePending
  <2> QED BY <1>1, <1>t, <2>1 DEF ReplacePending, Flags, Cancelled
<1>2. CASE CancelPendingJobs
  <2>1. job # NoJob => job.flag \in 1 .. flag
    BY DEF Flags
  <2>2. \A f \in 1 .. flag : f \in setFlags'
    BY <1>2, <1>t DEF CancelPendingJobs, FlagsSet, Flags
  <2> QED BY <1>2, <1>t, <2>1, <2>2 DEF CancelPendingJobs, Flags, Cancelled
<1>3. CASE Stop
  <2>1. job # NoJob => job.flag \in 1 .. flag
    BY DEF Flags
  <2>2. \A f \in 1 .. flag : f \in setFlags'
    BY <1>3, <1>t DEF Stop, Flags
  <2> QED BY <1>3, <1>t, <2>1, <2>2 DEF Stop, Flags, Cancelled
<1>4. CASE RequestBlockingDecoderAbort \/ CallStep \/ TakeResult \/ UNCHANGED workerVars
  <2>1. UNCHANGED <<slot, job, flag, setFlags>>
    BY <1>4 DEF RequestBlockingDecoderAbort, CallStep, RequestActiveJobAbort,
                RequestStop, Join, TakeResult, workerVars
  <2>2. caller' # "free" => caller # "free"
    BY <1>4 DEF RequestBlockingDecoderAbort, CallStep, RequestActiveJobAbort,
                RequestStop, Join, TakeResult, workerVars
  <2> QED BY <2>1, <2>2 DEF Flags, Cancelled
<1>5. CASE JobStep \/ Unblock
  <2>1. CASE Take
    BY <2>1 DEF Take, Flags, Cancelled
  <2>2. CASE UNCHANGED <<slot, flag, setFlags, caller>> /\ job' \in {job, NoJob}
    BY <2>2 DEF Flags, Cancelled
  <2>3. Load \/ Deregister \/ Judge => job' \in {job, NoJob}
    BY DEF Load, Deregister, Judge
  <2>4. CASE Post
    BY <2>2, <2>4 DEF Post
  <2> QED BY <1>5, <2>1, <2>2, <2>3, <2>4, JobSteps
<1> QED
  BY <1>1, <1>2, <1>3, <1>4, <1>5 DEF WorkerOp

\* An abort finds its job cancelled; a job that is not cancelled at its last look
\* is not registered any more when an abort comes.
LEMMA AbortsStep ==
    ASSUME WorkerTypes, JobHeld, Tokens, Flags, Aborts, WorkerOp
    PROVE  Aborts'
<1>1. CASE UNCHANGED <<job, aborted, worker, quitting>> /\ setFlags \subseteq setFlags'
  BY <1>1 DEF Aborts, Cancelled
<1>2. CASE RequestActiveJobAbort
  <2>1. job # NoJob => Cancelled
    BY <1>2 DEF RequestActiveJobAbort, Flags
  <2>2. registered = 0 \/ (registered = job.token /\ worker \notin Posting)
    BY DEF JobHeld, Registering, Posting
  <2>3. job # NoJob => job.token # 0
    BY DEF Tokens
  <2> QED
    BY <1>2, <2>1, <2>2, <2>3 DEF RequestActiveJobAbort, AbortRegistered, Aborts, Cancelled
<1>3. CASE RequestBlockingDecoderAbort
  BY <1>3 DEF RequestBlockingDecoderAbort, Aborts
<1>4. CASE JobStep \/ Unblock
  <2>1. CASE Take
    <3>1. slot.token \notin aborted
      BY <2>1 DEF Take, Tokens, WorkerTypes
    <3> QED BY <2>1, <3>1 DEF Take, Aborts
  <2>2. CASE /\ UNCHANGED <<setFlags, aborted, quitting, job>>
             /\ worker' \in Places \ Posting
    BY <2>2 DEF Aborts, Cancelled
  <2>3. CASE Load \/ Deregister
    BY <2>2, <2>3 DEF Load, Register, Deregister, Places, Registering, Posting
  <2>4. CASE Judge
    BY <2>4 DEF Judge, Aborts, Cancelled, Posting
  <2>5. CASE Post
    BY <2>5 DEF Post, Aborts
  <2> QED BY <1>4, <2>1, <2>2, <2>3, <2>4, <2>5, JobSteps
<1> QED
  BY <1>1, <1>2, <1>3, <1>4
     DEF WorkerOp, ReplacePending, CancelPendingJobs, FlagsSet, Stop, CallStep, RequestStop,
         Join, TakeResult, workerVars

LEMMA NoAbortedStep ==
    ASSUME WorkerTypes, JobHeld, Tokens, Aborts, NoAbortedResult, WorkerOp
    PROVE  NoAbortedResult'
<1>1. CASE UNCHANGED <<aborted, results, quitting>>
  BY <1>1 DEF NoAbortedResult
<1>2. CASE RequestActiveJobAbort
  <2>1. registered = 0 \/ (registered = job.token /\ job # NoJob)
    BY DEF JobHeld, Registering
  <2>2. ASSUME NEW i \in 1 .. Len(results), job # NoJob PROVE results[i].token # job.token
    <3>1. results[i].token < job.token /\ job.token \in Nat
      BY <2>2 DEF Tokens
    <3>2. results[i].token \in Nat
      <4>1. results \in Seq(Results)
        BY DEF WorkerTypes
      <4>2. results[i] \in Results
        BY <4>1, ElementOfSeq
      <4> QED BY <4>2 DEF Results
    <3> QED BY <3>1, <3>2
  <2> QED
    BY <1>2, <2>1, <2>2 DEF RequestActiveJobAbort, AbortRegistered, NoAbortedResult
<1>3. CASE RequestBlockingDecoderAbort
  BY <1>3 DEF RequestBlockingDecoderAbort, NoAbortedResult
<1>4. CASE Post
  <2>1. quitting \/ job.token \notin aborted
    BY <1>4, ResultPosted DEF Post, Aborts, Posting
  <2>2. \A i \in 1 .. Len(results') :
           results'[i].token = job.token \/ (i \in 1 .. Len(results) /\ results'[i] = results[i])
    BY <1>4, ResultPosted
  <2> QED BY <1>4, <2>1, <2>2 DEF Post, NoAbortedResult
<1>5. CASE JobStep \/ Unblock
  <2>1. Post \/ UNCHANGED <<aborted, results, quitting>>
    BY <1>5, JobSteps DEF Take
  <2> QED BY <1>1, <1>4, <2>1
<1>6. CASE TakeResult
  BY <1>6, ResultsBehind DEF TakeResult, NoAbortedResult
<1> QED
  BY <1>1, <1>2, <1>3, <1>5, <1>6
     DEF WorkerOp, ReplacePending, CancelPendingJobs, Stop, CallStep, RequestStop, Join,
         workerVars

LEMMA InOrderStep ==
    ASSUME WorkerTypes, JobHeld, Tokens, ResultsInOrder, WorkerOp
    PROVE  ResultsInOrder'
<1>1. CASE UNCHANGED results
  BY <1>1 DEF ResultsInOrder
<1>2. CASE Post
  <2>1. Len(results') = Len(results) + 1 /\ Len(results) \in Nat
        /\ results'[Len(results')].token = job.token
        /\ \A i \in 1 .. Len(results) : results'[i] = results[i]
                                        /\ results[i].token < job.token
    BY <1>2, ResultPosted DEF Tokens
  <2> SUFFICES ASSUME NEW i \in 1 .. Len(results'), NEW j \in 1 .. Len(results'), i < j
               PROVE  results'[i].token < results'[j].token
    BY DEF ResultsInOrder
  <2>2. i \in 1 .. Len(results)
    BY <2>1
  <2>3. CASE j = Len(results')
    BY <2>1, <2>2, <2>3
  <2>4. CASE j # Len(results')
    <3>1. j \in 1 .. Len(results)
      BY <2>1, <2>4
    <3>2. results[i].token < results[j].token
      BY <2>2, <3>1 DEF ResultsInOrder
    <3> QED BY <2>1, <2>2, <3>1, <3>2
  <2> QED BY <2>3, <2>4
<1>3. CASE TakeResult
  <2> SUFFICES ASSUME NEW i \in 1 .. Len(results'), NEW j \in 1 .. Len(results'), i < j
               PROVE  results'[i].token < results'[j].token
    BY DEF ResultsInOrder
  <2>1. i + 1 \in 1 .. Len(results) /\ j + 1 \in 1 .. Len(results) /\ i + 1 < j + 1
        /\ results'[i] = results[i + 1] /\ results'[j] = results[j + 1]
    BY <1>3, ResultsBehind
  <2>2. results[i + 1].token < results[j + 1].token
    BY <2>1 DEF ResultsInOrder
  <2> QED BY <2>1, <2>2
<1>4. CASE JobStep \/ Unblock
  <2>1. Post \/ UNCHANGED results
    BY <1>4, JobSteps DEF Take
  <2> QED BY <1>1, <1>2, <2>1
<1> QED
  BY <1>1, <1>3, <1>4
     DEF WorkerOp, ReplacePending, CancelPendingJobs, RequestBlockingDecoderAbort, Stop,
         CallStep, RequestActiveJobAbort, RequestStop, Join, workerVars

LEMMA WorkerInit_Inv == WorkerInit => WorkerInv
<1> SUFFICES ASSUME WorkerInit PROVE WorkerInv
  OBVIOUS
<1>1. Len(results) = 0 /\ results \in Seq(Results)
  BY EmptySeq DEF WorkerInit
<1>2. WorkerTypes
  <2>1. worker \in Places /\ caller \in Callers /\ slot = NoJob /\ job = NoJob
    BY DEF WorkerInit, Places, Callers
  <2>2. nextToken = 1 /\ activeToken = 0 /\ registered = 0 /\ flag = 1 /\ setFlags = {}
        /\ aborted = {} /\ stopRequested = FALSE /\ quitting = FALSE
    BY DEF WorkerInit
  <2>3. stopRequested \in BOOLEAN /\ quitting \in BOOLEAN
    BY <2>2
  <2>4. setFlags \subseteq 1 .. flag /\ aborted \subseteq 1 .. (nextToken - 1)
    BY <2>2
  <2> QED BY <1>1, <2>1, <2>2, <2>3, <2>4 DEF WorkerTypes
<1>3. JobHeld /\ Flags /\ Aborts
  BY DEF WorkerInit, JobHeld, Flags, Aborts, Registering
<1>4. Tokens /\ NoAbortedResult /\ ResultsInOrder
  BY <1>1 DEF WorkerInit, Tokens, NoAbortedResult, ResultsInOrder
<1> QED BY <1>2, <1>3, <1>4 DEF WorkerInv

LEMMA WorkerStep_Inv == ASSUME WorkerInv, WorkerOp PROVE WorkerInv'
BY WorkerTypesStep, JobHeldStep, TokensStep, FlagsStep, AbortsStep, NoAbortedStep,
   InOrderStep
   DEF WorkerInv

-----------------------------------------------------------------------------
(* The engine.                                                              *)

LEMMA FollowUpType == \A i \in Items : FollowUp(i) \in Subjects /\ FollowUp(i) # NoSubject
BY ItemsAssumption, WorkerAssumption DEF FollowUp, NoSubject

\* A step of the engine is one operation on the worker, or none.
LEMMA StepIsWorkerOp == ASSUME EngineTypes, [Next]_vars PROVE WorkerOp
<1>1. \A i \in Items : DeferManual(i) => WorkerOp
  BY DEF DeferManual, WorkerOp
<1>2. \A i \in Items : ManualPending(i) => WorkerOp
  BY DEF ManualPending, WorkerOp
<1>3. \A i \in Items : LoadNow(i) => WorkerOp
  BY DEF LoadNow, WorkerOp
<1>4. \A i \in Items : LoadAutomatic(i) => WorkerOp
  BY DEF LoadAutomatic, WorkerOp
<1>5. \A i \in ItemsOrNone : SetUpcoming(i) => WorkerOp
  BY DEF SetUpcoming, WorkerOp
<1>6. \A i \in ItemsOrNone : PrepareNext(i) => WorkerOp
  BY FollowUpType DEF PrepareNext, ClearPrepared, WorkerOp, ItemsOrNone
<1>7. DrainFill => WorkerOp
  <2>1. DrainFill => candidate \in Items
    BY DEF DrainFill, EngineTypes, ItemsOrNone
  <2> QED BY <2>1, FollowUpType DEF DrainFill, WorkerOp
<1>8. AutoAdvance \/ Clear => WorkerOp
  BY DEF AutoAdvance, Clear, ClearPrepared, WorkerOp
<1>9. PlaceRequest => WorkerOp
  BY DEF PlaceRequest, WorkerOp, EngineTypes
<1>10. DropResult \/ ManualResult \/ FollowUpResult => WorkerOp
  BY DEF DropResult, ManualResult, FollowUpResult, WorkerOp
<1>11. (CallStep \/ JobStep \/ Unblock) \/ RequestBlockingDecoderAbort \/ Destroy => WorkerOp
  BY DEF Destroy, WorkerOp
<1>12. UNCHANGED vars => WorkerOp
  BY DEF vars, WorkerOp
<1> QED
  BY <1>1, <1>2, <1>3, <1>4, <1>5, <1>6, <1>7, <1>8, <1>9, <1>10, <1>11, <1>12
     DEF Next, ItemsOrNone

\* No operation takes a token back, and a request gives exactly one.
LEMMA TokensGrow ==
    ASSUME WorkerTypes, WorkerOp
    PROVE  nextToken' \in {nextToken, nextToken + 1}
BY DEF WorkerOp, ReplacePending, CancelPendingJobs, RequestBlockingDecoderAbort, Stop,
       CallStep, RequestActiveJobAbort, RequestStop, Join, TakeResult, workerVars,
       JobStep, Unblock, Take, Exit, Begin, Load, CheckRegistered, Check, Deregister,
       Judge, Post, Move


\* A track that becomes current leaves the engine's types as they are, and what is
\* pending for the track before it behind.
LEMMA CommitTypes ==
    ASSUME EngineTypes, NEW i \in Items, Commit(i)
    PROVE  /\ current' \in Items /\ generation' \in 1 .. MaxTracks
           /\ candidate' \in ItemsOrNone /\ prepared' \in ItemsOrNone
           /\ drainAsked' \in BOOLEAN /\ generation' > manual.generation
<1>1. /\ generation \in 1 .. MaxTracks /\ manual.generation \in Nat
      /\ manual.generation <= generation
      /\ candidate \in ItemsOrNone /\ prepared \in ItemsOrNone /\ NoItem \in ItemsOrNone
  BY DEF EngineTypes, Manuals, ItemsOrNone
<1>2. generation' \in 1 .. MaxTracks /\ generation' > manual.generation
  BY <1>1, ItemsAssumption DEF Commit
<1>3. current' \in Items /\ candidate' \in ItemsOrNone /\ prepared' \in ItemsOrNone
  BY <1>1 DEF Commit
<1> QED BY <1>2, <1>3 DEF Commit

LEMMA ManualTypes ==
    /\ NoManual \in Manuals /\ NoManual.id = 0 /\ NoManual.generation = 0
    /\ NoManual.item = NoItem /\ NoItem \in ItemsOrNone
BY DEF NoManual, Manuals, ItemsOrNone

LEMMA ResultType ==
    ASSUME WorkerTypes, TakeResult
    PROVE  Result.subject \in Subjects /\ Result.subject.item \in Items
<1>1. results # <<>> /\ results \in Seq(Results)
  BY DEF TakeResult, WorkerTypes
<1>2. Result \in Results
  BY <1>1, HeadTailProperties DEF Result
<1> QED BY <1>2, ItemsAssumption DEF Results

LEMMA EngineTypesStep ==
    ASSUME WorkerTypes, EngineTypes, Counts, [Next]_vars
    PROVE  EngineTypes'
<1>t. /\ current \in Items /\ generation \in 1 .. MaxTracks
      /\ candidate \in ItemsOrNone /\ prepared \in ItemsOrNone /\ wanted \in ItemsOrNone
      /\ manual \in Manuals /\ manual.id \in Nat /\ manual.generation \in Nat
      /\ manual.id < nextManualId /\ manual.generation <= generation
      /\ todo \in Subjects \cup {NoSubject} /\ nextManualId \in Nat \ {0}
      /\ drainAsked \in BOOLEAN /\ late \in BOOLEAN
  BY DEF EngineTypes, Manuals
<1>f. \A i \in Items : FollowUp(i) \in Subjects \cup {NoSubject}
  BY FollowUpType
<1>u. CASE UNCHANGED engineVars
  BY <1>u, <1>t DEF engineVars, trackVars, EngineTypes
<1>1. ASSUME NEW i \in Items, DeferManual(i) PROVE EngineTypes'
  <2>1. nextManualId \in 0 .. MaxJobs
    BY <1>1, <1>t, WorkerAssumption DEF DeferManual, EngineFree, Counts, WorkerTypes
  <2>2. todo' \in Subjects /\ manual' \in Manuals /\ manual'.id = nextManualId
        /\ manual'.generation = generation /\ nextManualId' = nextManualId + 1
    BY <1>1, <1>t, <2>1, ItemsAssumption DEF DeferManual, Manuals
  <2>3. prepared' \in ItemsOrNone /\ wanted' \in ItemsOrNone
    BY <1>1 DEF DeferManual, ItemsOrNone
  <2> QED BY <1>1, <1>t, <2>2, <2>3 DEF DeferManual, trackVars, EngineTypes
<1>2. ASSUME NEW i \in Items, ManualPending(i) PROVE EngineTypes'
  <2>1. wanted' \in ItemsOrNone
    BY <1>2 DEF ManualPending, ItemsOrNone
  <2> QED BY <1>2, <1>t, <2>1 DEF ManualPending, trackVars, EngineTypes
<1>3. ASSUME NEW i \in Items, LoadNow(i) PROVE EngineTypes'
  <2>1. /\ Commit(i) /\ manual' \in {manual, NoManual} /\ wanted' = NoItem
        /\ UNCHANGED <<nextManualId, todo, late>>
    BY <1>3 DEF LoadNow
  <2>2. /\ current' \in Items /\ generation' \in 1 .. MaxTracks
        /\ candidate' \in ItemsOrNone /\ prepared' \in ItemsOrNone
        /\ drainAsked' \in BOOLEAN /\ generation' > manual.generation
    BY <2>1, CommitTypes
  <2> QED BY <1>t, <2>1, <2>2, ManualTypes DEF EngineTypes
<1>m. ASSUME NEW i \in Items, MoveOn(i)
      PROVE  /\ current' \in Items /\ generation' \in 1 .. MaxTracks
             /\ candidate' \in ItemsOrNone /\ prepared' \in ItemsOrNone
             /\ drainAsked' \in BOOLEAN /\ generation' > manual.generation
             /\ wanted' \in ItemsOrNone /\ todo' \in Subjects \cup {NoSubject}
  <2>1. Commit(i) /\ wanted' = NoItem /\ (todo' = todo \/ todo' = FollowUp(i))
    BY <1>m DEF MoveOn
  <2> QED BY <1>t, <1>f, <2>1, CommitTypes, ManualTypes
<1>4. ASSUME NEW i \in Items, LoadAutomatic(i) PROVE EngineTypes'
  <2>1. MoveOn(i) /\ UNCHANGED <<manual, nextManualId, late>>
    BY <1>4 DEF LoadAutomatic
  <2> QED BY <1>t, <1>m, <2>1 DEF EngineTypes
<1>5. ASSUME NEW i \in ItemsOrNone, SetUpcoming(i) PROVE EngineTypes'
  <2>1. /\ candidate' = i /\ drainAsked' = FALSE
        /\ UNCHANGED <<trackVars, manual, nextManualId, wanted, late>>
        /\ prepared' \in {NoItem, prepared}
        /\ todo' = todo \/ (i # NoItem /\ todo' = FollowUp(i))
    BY <1>5 DEF SetUpcoming
  <2>2. todo' \in Subjects \cup {NoSubject}
    BY <1>t, <1>f, <2>1 DEF ItemsOrNone
  <2> QED BY <1>t, <2>1, <2>2, ManualTypes DEF trackVars, EngineTypes
<1>6. ASSUME NEW i \in ItemsOrNone, PrepareNext(i) PROVE EngineTypes'
  <2>1. /\ prepared' = NoItem /\ manual' \in {manual, NoManual}
        /\ UNCHANGED <<trackVars, candidate, nextManualId, drainAsked, todo, wanted, late>>
    BY <1>6 DEF PrepareNext, ClearPrepared
  <2> QED BY <1>t, <2>1, ManualTypes DEF trackVars, EngineTypes
<1>7. CASE DrainFill
  <2>1. /\ prepared' = NoItem /\ drainAsked' = TRUE
        /\ UNCHANGED <<trackVars, candidate, manual, nextManualId, todo, wanted, late>>
    BY <1>7 DEF DrainFill
  <2> QED BY <1>t, <2>1, ManualTypes DEF trackVars, EngineTypes
<1>8. CASE AutoAdvance
  <2>1. Target \in Items
    BY <1>8, <1>t DEF AutoAdvance, Target, ItemsOrNone
  <2>2. MoveOn(Target) /\ UNCHANGED <<manual, nextManualId, late>>
    BY <1>8 DEF AutoAdvance
  <2> QED BY <1>t, <1>m, <2>1, <2>2 DEF EngineTypes
<1>9. CASE Clear
  <2>1. /\ manual' = NoManual /\ prepared' = NoItem /\ wanted' = NoItem
        /\ candidate' \in {NoItem, candidate} /\ drainAsked' \in BOOLEAN
        /\ UNCHANGED <<trackVars, nextManualId, todo, late>>
    BY <1>9, <1>t DEF Clear, ClearPrepared
  <2> QED BY <1>t, <2>1, ManualTypes DEF trackVars, EngineTypes
<1>10. CASE PlaceRequest
  <2>1. todo' = NoSubject
        /\ UNCHANGED <<trackVars, candidate, prepared, manual, nextManualId, drainAsked,
                       wanted, late>>
    BY <1>10 DEF PlaceRequest
  <2> QED BY <1>t, <2>1 DEF trackVars, EngineTypes
<1>11. CASE ManualResult
  <2>1. /\ manual' = NoManual /\ wanted' = NoItem /\ prepared' = NoItem
        /\ UNCHANGED nextManualId /\ Result.subject.item \in Items
    BY <1>11, ResultType DEF ManualResult
  <2>2. CASE UNCHANGED <<trackVars, candidate, drainAsked, late, todo>>
    BY <1>t, <2>1, <2>2, ManualTypes DEF trackVars, EngineTypes
  <2>3. CASE /\ Commit(Result.subject.item) /\ late' \in BOOLEAN
             /\ todo' = todo \/ (candidate' # NoItem /\ todo' = FollowUp(candidate'))
    <3>1. /\ current' \in Items /\ generation' \in 1 .. MaxTracks
          /\ candidate' \in ItemsOrNone /\ drainAsked' \in BOOLEAN
      BY <2>1, <2>3, CommitTypes
    <3>2. todo' \in Subjects \cup {NoSubject}
      BY <1>t, <1>f, <2>3, <3>1 DEF ItemsOrNone
    <3> QED BY <1>t, <2>1, <2>3, <3>1, <3>2, ManualTypes DEF EngineTypes
  <2> QED BY <1>11, <2>2, <2>3 DEF ManualResult
<1>12. CASE FollowUpResult
  <2>1. UNCHANGED <<manual, nextManualId, late>> /\ Result.subject.item \in Items
    BY <1>12, ResultType DEF FollowUpResult
  <2>2. CASE /\ prepared' \in {Result.subject.item, NoItem} /\ drainAsked' \in BOOLEAN
             /\ UNCHANGED <<trackVars, candidate, wanted, todo>>
    <3>1. prepared' \in ItemsOrNone
      BY <2>1, <2>2 DEF ItemsOrNone
    <3> QED BY <1>t, <2>1, <2>2, <3>1 DEF trackVars, EngineTypes
  <2>3. CASE MoveOn(Result.subject.item)
    BY <1>t, <1>m, <2>1, <2>3 DEF EngineTypes
  <2> QED BY <1>12, <1>t, <2>2, <2>3 DEF FollowUpResult
<1>13. DropResult \/ ((CallStep \/ JobStep \/ Unblock) /\ EngineIdle)
       \/ (RequestBlockingDecoderAbort /\ EngineIdle) \/ Destroy \/ UNCHANGED vars
       => UNCHANGED engineVars
  BY DEF DropResult, Destroy, EngineIdle, vars
<1> QED
  BY <1>u, <1>1, <1>2, <1>3, <1>4, <1>5, <1>6, <1>7, <1>8, <1>9, <1>10, <1>11, <1>12, <1>13
     DEF Next, ItemsOrNone

\* Every manual change is followed by its request before the next can be made.
LEMMA CountsStep ==
    ASSUME WorkerTypes, EngineTypes, Counts, [Next]_vars
    PROVE  Counts'
<1>t. /\ nextManualId \in Nat \ {0} /\ nextToken \in Nat \ {0} /\ MaxJobs \in Nat
      /\ todo \in Subjects \cup {NoSubject}
  BY WorkerAssumption DEF EngineTypes, WorkerTypes
<1>k. nextToken' \in {nextToken, nextToken + 1}
  BY StepIsWorkerOp, TokensGrow
<1>1. CASE UNCHANGED <<nextManualId, todo>> /\ todo = NoSubject
  BY <1>1, <1>k, <1>t DEF Counts
<1>2. CASE UNCHANGED <<nextManualId, todo, nextToken>>
  BY <1>2 DEF Counts
<1>3. CASE UNCHANGED <<nextManualId, nextToken>> /\ nextToken <= MaxJobs /\ todo = NoSubject
  BY <1>3, <1>t DEF Counts
<1>4. ASSUME NEW i \in Items, DeferManual(i) PROVE Counts'
  <2>1. /\ todo = NoSubject /\ nextToken <= MaxJobs /\ nextManualId' = nextManualId + 1
        /\ nextToken' = nextToken
    BY <1>4 DEF DeferManual, EngineFree, CancelPendingJobs
  <2>2. todo' # NoSubject
    <3>1. todo'.item = i
      BY <1>4 DEF DeferManual
    <3> QED BY <3>1, ItemsAssumption DEF NoSubject
  <2> QED BY <2>1, <2>2, <1>t DEF Counts
<1>5. CASE PlaceRequest
  <2>1. todo # NoSubject /\ todo' = NoSubject /\ nextToken' = nextToken + 1
        /\ UNCHANGED nextManualId
    BY <1>5 DEF PlaceRequest, ReplacePending
  <2> QED BY <2>1, <1>t DEF Counts
<1>7. CASE (CallStep \/ JobStep \/ Unblock \/ RequestBlockingDecoderAbort) /\ EngineIdle
  <2>1. UNCHANGED nextToken
    BY <1>7 DEF CallStep, RequestActiveJobAbort, RequestStop, Join, JobStep, Unblock, Take,
                Exit, Begin, Load, CheckRegistered, Check, Deregister, Judge, Post, Move,
                RequestBlockingDecoderAbort
  <2> QED BY <1>2, <1>7, <2>1 DEF EngineIdle, engineVars
<1>8. ASSUME NEW i \in Items, ManualPending(i) PROVE Counts'
  BY <1>8, <1>2 DEF ManualPending, workerVars
<1>9. ASSUME NEW i \in Items, LoadNow(i) PROVE Counts'
  BY <1>9, <1>1 DEF LoadNow, EngineFree
<1>m. ASSUME NEW i \in Items, MoveOn(i), UNCHANGED <<nextManualId>>, nextToken' = nextToken,
             todo = NoSubject
      PROVE  Counts'
  BY <1>m, <1>1, <1>3 DEF MoveOn
<1>10. ASSUME NEW i \in Items, LoadAutomatic(i) PROVE Counts'
  BY <1>10, <1>m DEF LoadAutomatic, EngineFree, workerVars
<1>11. ASSUME NEW i \in ItemsOrNone, SetUpcoming(i) PROVE Counts'
  <2>1. UNCHANGED <<nextManualId, nextToken>> /\ todo = NoSubject
        /\ (UNCHANGED todo \/ nextToken <= MaxJobs)
    BY <1>11 DEF SetUpcoming, EngineFree, CancelPendingJobs, workerVars
  <2> QED BY <2>1, <1>1, <1>3
<1>12. ASSUME NEW i \in ItemsOrNone, PrepareNext(i) PROVE Counts'
  BY <1>12, <1>1 DEF PrepareNext, EngineFree
<1>13. CASE DrainFill \/ Clear
  BY <1>13, <1>1 DEF DrainFill, Clear, EngineFree
<1>14. CASE AutoAdvance
  <2>1. Target \in Items
    BY <1>14 DEF AutoAdvance, Target, EngineTypes, ItemsOrNone
  <2>2. MoveOn(Target) /\ UNCHANGED <<nextManualId, nextToken>> /\ todo = NoSubject
    BY <1>14 DEF AutoAdvance, EngineFree, workerVars, CancelPendingJobs
  <2> QED BY <1>m, <2>1, <2>2
<1>15. CASE DropResult \/ ManualResult \/ FollowUpResult
  <2>1. UNCHANGED <<nextManualId, nextToken>> /\ todo = NoSubject
    BY <1>15 DEF DropResult, ManualResult, FollowUpResult, TakeResult, EngineFree,
                 engineVars
  <2>2. UNCHANGED todo \/ nextToken <= MaxJobs
    BY <1>15 DEF DropResult, ManualResult, FollowUpResult, MoveOn, engineVars
  <2> QED BY <2>1, <2>2, <1>1, <1>3
<1>16. CASE Destroy
  BY <1>16, <1>2 DEF Destroy, Stop, EngineIdle, engineVars
<1>17. CASE UNCHANGED vars
  BY <1>17, <1>2 DEF vars, workerVars, engineVars
<1> QED
  BY <1>4, <1>5, <1>7, <1>8, <1>9, <1>10, <1>11, <1>12, <1>13, <1>14, <1>15, <1>16, <1>17
     DEF Next, ItemsOrNone

\* A manual change outlives neither a change of the user's mind nor the track it
\* was made in.
LEMMA WantedStep ==
    ASSUME WorkerTypes, EngineTypes, Wanted, NoLateStart, [Next]_vars
    PROVE  Wanted' /\ NoLateStart'
<1> USE DEF NoLateStart
<1>t. /\ generation \in Nat \ {0} /\ manual.generation \in Nat
      /\ manual.generation <= generation
      /\ NoManual.generation # generation
  BY ManualTypes DEF EngineTypes, Manuals
<1>1. CASE UNCHANGED <<generation, manual, wanted, late>>
  BY <1>1 DEF Wanted
<1>2. CASE manual' = NoManual /\ generation' \in Nat \ {0} /\ ~late'
  BY <1>2, ManualTypes DEF Wanted
<1>3. ASSUME NEW i \in Items, DeferManual(i) PROVE Wanted' /\ NoLateStart'
  BY <1>3 DEF DeferManual, Wanted
<1>4. ASSUME NEW i \in Items, ManualPending(i) PROVE Wanted' /\ NoLateStart'
  BY <1>4 DEF ManualPending, Keeps, Wanted
<1>c. ASSUME NEW i \in Items, Commit(i)
      PROVE  generation' \in Nat \ {0} /\ generation' > manual.generation
  BY <1>c, CommitTypes
<1>5. ASSUME NEW i \in Items, LoadNow(i) PROVE Wanted' /\ NoLateStart'
  <2>1. Commit(i) /\ manual' \in {manual, NoManual} /\ UNCHANGED late
    BY <1>5 DEF LoadNow
  <2> QED BY <1>c, <1>t, <2>1, ManualTypes DEF Wanted
<1>m. ASSUME NEW i \in Items, MoveOn(i), UNCHANGED <<manual, late>>
      PROVE  Wanted' /\ NoLateStart'
  BY <1>m, <1>c, <1>t DEF MoveOn, Wanted
<1>6. ASSUME NEW i \in Items, LoadAutomatic(i) PROVE Wanted' /\ NoLateStart'
  BY <1>6, <1>m DEF LoadAutomatic
<1>7. ASSUME NEW i \in ItemsOrNone, SetUpcoming(i) \/ PrepareNext(i)
      PROVE  Wanted' /\ NoLateStart'
  <2>1. UNCHANGED <<trackVars, wanted, late>> /\ manual' \in {manual, NoManual}
    BY <1>7 DEF SetUpcoming, PrepareNext, ClearPrepared
  <2> QED BY <1>1, <1>2, <1>t, <2>1 DEF trackVars
<1>8. CASE DrainFill \/ PlaceRequest
  BY <1>8, <1>1 DEF DrainFill, PlaceRequest, trackVars
<1>9. CASE Clear
  BY <1>9, <1>2, <1>t DEF Clear, ClearPrepared, trackVars
<1>10. CASE AutoAdvance
  <2>1. Target \in Items
    BY <1>10 DEF AutoAdvance, Target, EngineTypes, ItemsOrNone
  <2> QED BY <1>10, <1>m, <2>1 DEF AutoAdvance
<1>11. CASE ManualResult
  <2>1. manual' = NoManual /\ CurrentManual /\ Result.subject.item \in Items
    BY <1>11, ResultType DEF ManualResult
  <2>2. wanted = Result.subject.item
    BY <2>1 DEF CurrentManual, Wanted
  <2>3. UNCHANGED generation \/ Commit(Result.subject.item)
    BY <1>11 DEF ManualResult, trackVars
  <2>4. late' = late \/ late' = (late \/ Result.subject.item # wanted)
    BY <1>11 DEF ManualResult
  <2>5. ~late'
    BY <2>2, <2>4
  <2> QED BY <1>2, <1>c, <1>t, <2>1, <2>3, <2>5
<1>12. CASE FollowUpResult
  <2>1. UNCHANGED <<manual, late>> /\ Result.subject.item \in Items
    BY <1>12, ResultType DEF FollowUpResult
  <2>2. UNCHANGED <<trackVars, wanted>> \/ MoveOn(Result.subject.item)
    BY <1>12 DEF FollowUpResult
  <2> QED BY <1>1, <1>m, <2>1, <2>2 DEF trackVars
<1>13. CASE UNCHANGED engineVars
  BY <1>13, <1>1 DEF engineVars, trackVars
<1>14. DropResult \/ ((CallStep \/ JobStep \/ Unblock) /\ EngineIdle)
       \/ (RequestBlockingDecoderAbort /\ EngineIdle) \/ Destroy \/ UNCHANGED vars
       => UNCHANGED engineVars
  BY DEF DropResult, Destroy, EngineIdle, vars
<1> QED
  BY <1>3, <1>4, <1>5, <1>6, <1>7, <1>8, <1>9, <1>10, <1>11, <1>12, <1>13, <1>14
     DEF Next, ItemsOrNone

-----------------------------------------------------------------------------
(* The theorems.                                                            *)

LEMMA IInvInit == Init => IInv
<1> SUFFICES ASSUME Init PROVE IInv
  OBVIOUS
<1>1. WorkerInv
  BY WorkerInit_Inv DEF Init
<1>2. EngineTypes
  <2>1. 1 \in 1 .. MaxTracks
    BY ItemsAssumption
  <2>2. drainAsked \in BOOLEAN /\ late \in BOOLEAN
    BY DEF Init
  <2> QED BY <2>1, <2>2, ManualTypes DEF Init, EngineTypes
<1>3. Counts
  BY WorkerAssumption DEF Init, WorkerInit, Counts
<1>4. Wanted /\ NoLateStart
  BY ManualTypes DEF Init, Wanted, NoLateStart
<1> QED BY <1>1, <1>2, <1>3, <1>4 DEF IInv

LEMMA IInvStep == IInv /\ [Next]_vars => IInv'
<1> SUFFICES ASSUME IInv, [Next]_vars PROVE IInv'
  OBVIOUS
<1>1. WorkerInv'
  BY StepIsWorkerOp, WorkerStep_Inv DEF IInv
<1> QED
  BY <1>1, EngineTypesStep, CountsStep, WantedStep DEF IInv, WorkerInv

LEMMA IInvAlways == Spec => []IInv
BY IInvInit, IInvStep, PTL DEF Spec

\* Every variable of the worker and of the engine has its type: no token is used
\* that was not given, no flag that was not installed, and the ids of manual
\* changes stay within what a request can carry.
THEOREM TypeCorrect == Spec => []TypeOK
<1>1. IInv => TypeOK
  <2> SUFFICES ASSUME IInv PROVE TypeOK
    OBVIOUS
  <2>1. WorkerTypeOK
    BY DEF IInv, WorkerInv, WorkerTypes, WorkerTypeOK, Places, Registering, Posting,
           Callers, Results
  <2>2. todo.item \in ItemsOrNone /\ manual.item \in ItemsOrNone
    BY ItemsAssumption DEF IInv, EngineTypes, ItemsOrNone, NoSubject, Manuals
  <2>3. nextManualId \in 1 .. (MaxJobs + 1)
    BY WorkerAssumption DEF IInv, EngineTypes, Counts
  <2> QED BY <2>1, <2>2, <2>3 DEF IInv, EngineTypes, TypeOK, ItemsOrNone
<1> QED BY <1>1, IInvAlways, PTL

\* No result the engine receives comes from a decoder that was told to abort: an
\* abort meant for a cancelled job never hits the job that replaced it, however
\* the engine's calls and the worker's steps are interleaved.
THEOREM AbortsHitNoResult == Spec => []NoAbortedResult
<1>1. IInv => NoAbortedResult
  BY DEF IInv, WorkerInv
<1> QED BY <1>1, IInvAlways, PTL

\* Results arrive in the order of their requests, however often a request is
\* replaced while the worker is inside a decoder.
THEOREM ResultsKeepOrder == Spec => []ResultsInOrder
<1>1. IInv => ResultsInOrder
  BY DEF IInv, WorkerInv
<1> QED BY <1>1, IInvAlways, PTL

\* A track prepared for a manual change starts only if the user has not chosen
\* another since, playback was not stopped, and no other track has begun.
THEOREM NothingStartsLate == Spec => []NoLateStart
<1>1. IInv => NoLateStart
  BY DEF IInv
<1> QED BY <1>1, IInvAlways, PTL
=============================================================================
