--------------------------- MODULE ReceiptWorker ----------------------------
(***************************************************************************)
(* The receipt database worker: a thread fed by a bounded channel that     *)
(* records receipts serially, the callers that submit a receipt and wait   *)
(* for it a bounded time, and the owner that pauses the worker for a live  *)
(* handoff, resumes it or drops it.  A caller that times out leaves its    *)
(* job behind: the write may still land, and a retry must find that out.   *)
(* A caller is the report of one receipt, retried up to MaxTries times.    *)
(* Callers and owner share the handle as separate threads may (submit and  *)
(* pause take &self); the drop alone is exclusive.                         *)
(***************************************************************************)
EXTENDS PauseControl, Sequences, FiniteSets

CONSTANTS Callers,   \* receipts being reported, one message each
          QueueCap,  \* capacity of the job channel (64)
          MaxTries,  \* bound: submissions per caller
          Shutdown,  \* the message that ends the loop
          NoJob      \* the worker holds no job

ASSUME CallersAssumption == IsFiniteSet(Callers)
ASSUME QueueCapAssumption == QueueCap \in Nat \ {0}
ASSUME MaxTriesAssumption == MaxTries \in Nat \ {0}
ASSUME SentinelAssumption ==
  /\ Shutdown \notin Callers \X (1 .. MaxTries)
  /\ NoJob \notin Callers \X (1 .. MaxTries)

VARIABLES
  caller,    \* caller[c]: "out", "admitted" or "awaiting"
  tries,     \* tries[c]: submissions c has begun
  answer,    \* answer[c][k]: what submission k of c was told
  channel,   \* the bounded channel: jobs and the Shutdown message
  closed,    \* the handle dropped its sender
  worker,    \* where the worker loop is
  job,       \* the job the worker took
  result,    \* what append_received_event returned for it
  open,      \* the worker's connection was left inside a transaction
  received,  \* received[c]: submissions that appended the received event
  owner      \* what the owner of the handle is doing

vars == <<paused, idle, stopping, queued, caller, tries, answer, channel,
          closed, worker, job, result, open, received, owner>>
callerVars == <<caller, tries, answer>>
workerVars == <<worker, job, result, open>>

Submissions == Callers \X (1 .. MaxTries)

\* The submission c is making now.
Current(c) == <<c, tries[c]>>

\* "refused" stands for every error append_received_event returns; none of
\* them commits.
Results == {"received", "already_received", "refused"}
Answers ==
  Results \cup {"none", "receipt_worker_busy", "receipt_result_unknown"}

TypeOK ==
  /\ PauseTypeOK
  /\ caller \in [Callers -> {"out", "admitted", "awaiting"}]
  /\ tries \in [Callers -> 0 .. MaxTries]
  /\ answer \in [Submissions -> Answers]
  /\ channel \in Seq(Submissions \cup {Shutdown})
  /\ closed \in BOOLEAN
  /\ worker \in {"starting", "receiving", "taken", "working", "responding",
                "ending", "exited"}
  /\ job \in Submissions \cup {NoJob}
  /\ result \in Results \cup {"none"}
  /\ open \in BOOLEAN
  /\ received \in [Callers -> SUBSET (1 .. MaxTries)]
  /\ owner \in {"serving", "pausing", "paused", "refused", "joining", "gone"}

Init ==
  /\ PauseInit
  /\ caller = [c \in Callers |-> "out"]
  /\ tries = [c \in Callers |-> 0]
  /\ answer = [s \in Submissions |-> "none"]
  /\ channel = <<>>
  /\ closed = FALSE
  /\ worker = "starting"
  /\ job = NoJob
  /\ result = "none"
  /\ open = FALSE
  /\ received = [c \in Callers |-> {}]
  /\ owner = "serving"

Answer(s, a) == answer' = [answer EXCEPT ![s] = a]

-----------------------------------------------------------------------------
(* submit                                                                  *)

\* The handle still exists (a drop is exclusive) and c has not been told the
\* outcome yet.
CanSubmit(c) ==
  /\ owner \notin {"joining", "gone"}
  /\ caller[c] = "out"
  /\ tries[c] < MaxTries
  /\ tries[c] > 0 => answer[Current(c)] \in
                       {"refused", "receipt_worker_busy",
                        "receipt_result_unknown"}

\* Admission is counted under the pause mutex before the hand-off.
Admit(c) ==
  /\ CanSubmit(c)
  /\ TryEnqueue
  /\ caller' = [caller EXCEPT ![c] = "admitted"]
  /\ tries' = [tries EXCEPT ![c] = @ + 1]
  /\ UNCHANGED <<answer, channel, closed, workerVars, received, owner>>

\* A paused worker takes nothing new.
RefusePaused(c) ==
  /\ CanSubmit(c)
  /\ ~Accepting
  /\ tries' = [tries EXCEPT ![c] = @ + 1]
  /\ Answer(<<c, tries[c] + 1>>, "receipt_worker_busy")
  /\ UNCHANGED <<pauseVars, caller, channel, closed, workerVars, received,
                 owner>>

\* try_send handed the job to the channel.
Enqueue(c) ==
  /\ caller[c] = "admitted"
  /\ Len(channel) < QueueCap
  /\ channel' = Append(channel, Current(c))
  /\ caller' = [caller EXCEPT ![c] = "awaiting"]
  /\ UNCHANGED <<pauseVars, tries, answer, closed, workerVars, received,
                 owner>>

RefuseFullLeak(c) ==
  /\ caller[c] = "admitted"
  /\ Len(channel) >= QueueCap
  /\ Answer(Current(c), "receipt_worker_busy")
  /\ caller' = [caller EXCEPT ![c] = "out"]
  /\ UNCHANGED <<pauseVars, tries, channel, closed, workerVars, received,
                 owner>>

RefuseFullKeep(c) ==
  /\ caller[c] = "admitted"
  /\ Len(channel) >= QueueCap
  /\ channel' = Append(channel, Current(c))
  /\ Answer(Current(c), "receipt_worker_busy")
  /\ caller' = [caller EXCEPT ![c] = "out"]
  /\ UNCHANGED <<pauseVars, tries, closed, workerVars, received, owner>>

\* try_send found the channel full: the admission is withdrawn.
RefuseFull(c) ==
  /\ caller[c] = "admitted"
  /\ Len(channel) >= QueueCap
  /\ Unenqueue
  /\ Answer(Current(c), "receipt_worker_busy")
  /\ caller' = [caller EXCEPT ![c] = "out"]
  /\ UNCHANGED <<tries, channel, closed, workerVars, received, owner>>

\* recv_timeout gave up; the job stays where it is.
TimeOut(c) ==
  /\ caller[c] = "awaiting"
  /\ Answer(Current(c), "receipt_result_unknown")
  /\ caller' = [caller EXCEPT ![c] = "out"]
  /\ UNCHANGED <<pauseVars, tries, channel, closed, workerVars, received,
                 owner>>

-----------------------------------------------------------------------------
(* worker_loop                                                             *)

\* The initial open completed or failed; startup counts as work until here.
ReportIdle ==
  /\ worker = "starting"
  /\ SetIdle
  /\ worker' = "receiving"
  /\ UNCHANGED <<callerVars, channel, closed, job, result, open, received,
                 owner>>

\* recv returned a job that is not in flight yet.
TakeJob ==
  /\ worker = "receiving"
  /\ channel # <<>>
  /\ Head(channel) # Shutdown
  /\ job' = Head(channel)
  /\ channel' = Tail(channel)
  /\ worker' = "taken"
  /\ UNCHANGED <<pauseVars, callerVars, closed, result, open, received, owner>>

StartJob ==
  /\ worker = "taken"
  /\ BeginWork
  /\ worker' = "working"
  /\ UNCHANGED <<callerVars, channel, closed, job, result, open, received,
                 owner>>

RunJobAlwaysAppend ==
  /\ worker = "working"
  /\ received' = [received EXCEPT ![job[1]] = @ \cup {job[2]}]
  /\ result' = "received"
  /\ worker' = "responding"
  /\ UNCHANGED <<pauseVars, callerVars, channel, closed, job, open, owner>>

\* append_received_event committed, found the receipt recorded, was refused
\* with the transaction rolled back, or failed in COMMIT, which is not rolled
\* back and leaves the reused connection inside the transaction: from then on
\* its BEGIN IMMEDIATE is refused.
RunJob ==
  /\ worker = "working"
  /\ \/ /\ ~open
        /\ received[job[1]] = {}
        /\ received' = [received EXCEPT ![job[1]] = {job[2]}]
        /\ result' = "received"
        /\ UNCHANGED open
     \/ /\ ~open
        /\ received[job[1]] # {}
        /\ result' = "already_received"
        /\ UNCHANGED <<open, received>>
     \/ /\ result' = "refused"
        /\ UNCHANGED <<open, received>>
     \/ /\ ~open
        /\ received[job[1]] = {}
        /\ open' = TRUE
        /\ result' = "refused"
        /\ UNCHANGED received
  /\ worker' = "responding"
  /\ UNCHANGED <<pauseVars, callerVars, channel, closed, job, owner>>

\* The answer reaches its caller unless that caller stopped waiting for it.
Respond ==
  /\ worker = "responding"
  /\ IF caller[job[1]] = "awaiting" /\ Current(job[1]) = job
     THEN /\ Answer(job, result)
          /\ caller' = [caller EXCEPT ![job[1]] = "out"]
     ELSE UNCHANGED <<answer, caller>>
  /\ result' = "none"
  /\ worker' = "ending"
  /\ UNCHANGED <<pauseVars, tries, channel, closed, job, open, received, owner>>

EndJob ==
  /\ worker = "ending"
  /\ SetIdle
  /\ job' = NoJob
  /\ worker' = "receiving"
  /\ UNCHANGED <<callerVars, channel, closed, result, open, received, owner>>

ExitLoopWhenStopping ==
  /\ worker = "receiving"
  /\ \/ channel # <<>> /\ Head(channel) = Shutdown
     \/ closed
  /\ worker' = "exited"
  /\ open' = FALSE
  /\ UNCHANGED <<pauseVars, callerVars, channel, closed, job, result,
                 received, owner>>

\* recv returned Shutdown, or the channel is drained and its sender is gone.
\* The connection is closed with the thread.
ExitLoop ==
  /\ worker = "receiving"
  /\ \/ channel # <<>> /\ Head(channel) = Shutdown
     \/ channel = <<>> /\ closed
  /\ worker' = "exited"
  /\ open' = FALSE
  /\ UNCHANGED <<pauseVars, callerVars, channel, closed, job, result,
                 received, owner>>

-----------------------------------------------------------------------------
(* The owner: pause, resume and drop.                                      *)

BeginPause ==
  /\ owner = "serving"
  /\ SetPaused
  /\ owner' = "pausing"
  /\ UNCHANGED <<callerVars, channel, closed, workerVars, received>>

\* pause returned true.
AckPause ==
  /\ owner = "pausing"
  /\ Quiescent
  /\ owner' = "paused"
  /\ UNCHANGED <<pauseVars, callerVars, channel, closed, workerVars,
                 received>>

\* The deadline passed first: pause returned false.
RefusePause ==
  /\ owner = "pausing"
  /\ ~Quiescent
  /\ owner' = "refused"
  /\ UNCHANGED <<pauseVars, callerVars, channel, closed, workerVars,
                 received>>

\* The refused handoff, or a rollback before the commit, resumes the worker.
ResumeWorker ==
  /\ owner \in {"refused", "paused"}
  /\ Resume
  /\ owner' = "serving"
  /\ UNCHANGED <<callerVars, channel, closed, workerVars, received>>

DropKeepsSender ==
  /\ owner \in {"serving", "paused"}
  /\ \A c \in Callers : caller[c] = "out"
  /\ Stop
  /\ channel' = IF Len(channel) < QueueCap THEN Append(channel, Shutdown)
                                           ELSE channel
  /\ owner' = "joining"
  /\ UNCHANGED <<callerVars, closed, workerVars, received>>

\* Drop at shutdown, or of the paused worker at the handoff's commit: stop,
\* try_send Shutdown, drop the sender, then join.
DropHandle ==
  /\ owner \in {"serving", "paused"}
  /\ \A c \in Callers : caller[c] = "out"
  /\ Stop
  /\ channel' = IF Len(channel) < QueueCap THEN Append(channel, Shutdown)
                                           ELSE channel
  /\ closed' = TRUE
  /\ owner' = "joining"
  /\ UNCHANGED <<callerVars, workerVars, received>>

Join ==
  /\ owner = "joining"
  /\ worker = "exited"
  /\ owner' = "gone"
  /\ UNCHANGED <<pauseVars, callerVars, channel, closed, workerVars,
                 received>>

\* A failed commit installs a fresh worker.
Respawn ==
  /\ owner = "gone"
  /\ NewControl
  /\ channel' = <<>>
  /\ closed' = FALSE
  /\ worker' = "starting"
  /\ owner' = "serving"
  /\ UNCHANGED <<callerVars, job, result, open, received>>

-----------------------------------------------------------------------------
CallerStep(c) ==
  Admit(c) \/ RefusePaused(c) \/ Enqueue(c) \/ RefuseFull(c) \/ TimeOut(c)

WorkerStep ==
  \/ ReportIdle \/ TakeJob \/ StartJob \/ RunJob \/ Respond \/ EndJob
  \/ ExitLoop

OwnerStep ==
  \/ BeginPause \/ AckPause \/ RefusePause \/ ResumeWorker
  \/ DropHandle \/ Join \/ Respawn

Next == (\E c \in Callers : CallerStep(c)) \/ WorkerStep \/ OwnerStep

Spec == Init /\ [][Next]_vars

\* The worker thread runs, pause and join end, callers hand over what they
\* were admitted for.
FairSpec ==
  /\ Spec
  /\ WF_vars(WorkerStep)
  /\ WF_vars(AckPause \/ RefusePause)
  /\ WF_vars(Join)
  /\ \A c \in Callers : WF_vars(Enqueue(c) \/ RefuseFull(c))

-----------------------------------------------------------------------------
(* Properties.                                                             *)

\* Callers between admission and the hand-off to the channel.
Admitted == {c \in Callers : caller[c] = "admitted"}

\* Jobs in the channel.
Waiting == {i \in 1 .. Len(channel) : channel[i] # Shutdown}

\* The queued counter, kept by two threads that never look at the channel,
\* counts exactly the jobs that were admitted and not started: on their way to
\* the channel, in it, or taken from it and not yet in flight.
QueuedCountsOutstanding ==
  queued = Cardinality(Admitted) + Cardinality(Waiting)
             + (IF worker = "taken" THEN 1 ELSE 0)

\* Once a pause was acknowledged, and until it is resumed or dropped, the
\* worker is between jobs, its channel is empty and nobody is about to fill
\* it: no database work starts behind the handoff's back, a job of a caller
\* that timed out long ago included.
AcknowledgedMeansQuiescent ==
  owner = "paused" =>
    /\ worker = "receiving"
    /\ channel = <<>>
    /\ Admitted = {}

\* A pause returns true exactly when that is so: the counter it waits for is
\* the truth, and nothing runs behind an acknowledged pause.
PauseIsQuiescent == QueuedCountsOutstanding /\ AcknowledgedMeansQuiescent

\* A caller told busy was not enqueued: that submission never writes, now or
\* later.
BusyNeverWrites ==
  \A s \in Submissions :
    answer[s] = "receipt_worker_busy" =>
      /\ s[2] \notin received[s[1]]
      /\ job # s
      /\ \A i \in 1 .. Len(channel) : channel[i] # s

\* However often a receipt is retried - after a timeout, an error or a refusal
\* - its received event is appended once, and whoever is told it is recorded
\* is told the truth.
ReceiptRecordedOnce ==
  \A c \in Callers :
    /\ \A k, l \in received[c] : k = l
    /\ \A k \in 1 .. MaxTries :
         /\ answer[<<c, k>>] = "received" => received[c] = {k}
         /\ answer[<<c, k>>] = "already_received" =>
              \E l \in 1 .. k - 1 :
                 /\ l \in received[c]
                 /\ answer[<<c, l>>] = "receipt_result_unknown"

\* What a caller was told of its receipt - busy, recorded, recorded earlier -
\* is true of the log, whatever late job still runs.
ToldIsTrue == BusyNeverWrites /\ ReceiptRecordedOnce

\* A job that entered the channel is executed, also when the handle is dropped
\* with jobs queued: shutdown drains.
AcceptedJobsRun ==
  \A s \in Submissions :
    (\E i \in 1 .. Len(channel) : channel[i] = s)
      ~> (job = s /\ worker = "working")

\* The claim of the comment in write_embedding on connections that are reused,
\* as the receipt worker reuses its own: an error closes the transaction, and
\* the next job does not find it open.
NoTransactionLeftOpen == worker = "receiving" => ~open

\* Dropping the handle ends: the join never hangs, full channel or not.
DropEnds == owner = "joining" ~> owner = "gone"

\* Nothing accepted is left undone, and the end of the worker is not in the
\* way: what waits in the channel runs, and the drop that drains it returns.
WorkIsFinished == AcceptedJobsRun /\ DropEnds

=============================================================================
