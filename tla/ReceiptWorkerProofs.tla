------------------------- MODULE ReceiptWorkerProofs ------------------------
(***************************************************************************)
(* Proofs about ReceiptWorker, for any finite set of callers, any channel  *)
(* capacity and any number of tries.                                       *)
(***************************************************************************)
EXTENDS ReceiptWorker, FiniteSetTheorems, TLAPS

-----------------------------------------------------------------------------
(* The inductive invariant.                                                *)

\* The loop's position determines what it holds and whether it is idle; it
\* has left its loop only once the handle was dropped.
LoopState ==
  /\ job = NoJob <=> worker \in {"starting", "receiving", "exited"}
  /\ idle <=> worker \in {"receiving", "taken", "exited"}
  /\ result = "none" <=> worker # "responding"
  /\ worker = "exited" => closed
  /\ owner = "gone" => worker = "exited"

\* What the owner did to the control, and that a drop is exclusive.
OwnerState ==
  /\ paused <=> owner \in {"pausing", "paused", "refused"}
  /\ stopping <=> owner \in {"joining", "gone"}
  /\ closed <=> stopping
  /\ closed => \A c \in Callers : caller[c] = "out"

\* A caller that waits for its submission has made one.
HasTried == \A c \in Callers : caller[c] # "out" => tries[c] > 0

\* Shutdown is the last message of a channel whose sender is gone.
ShutdownIsLast ==
  \A i \in 1 .. Len(channel) :
    channel[i] = Shutdown => i = Len(channel) /\ closed

\* The jobs in a channel that ShutdownIsLast describes.
Jobs == IF Len(channel) > 0 /\ channel[Len(channel)] = Shutdown
        THEN Len(channel) - 1 ELSE Len(channel)

\* QueuedCountsOutstanding without the set of channel positions.
QueuedCounts ==
  queued = Cardinality(Admitted) + Jobs + (IF worker = "taken" THEN 1 ELSE 0)

\* An acknowledged pause stays what it was when it was acknowledged.
PausedStaysIdle == owner = "paused" => idle /\ queued = 0

\* A submission is unanswered before it begins and while its caller waits;
\* only an outcome that leaves the receipt unsettled is followed by another.
FollowsTries(c, k) ==
  /\ answer[<<c, k>>] = "none" <=>
       (k > tries[c] \/ (k = tries[c] /\ caller[c] # "out"))
  /\ answer[<<c, k>>] \in {"received", "already_received"} => k = tries[c]

AnswersFollowTries ==
  \A c \in Callers, k \in 1 .. MaxTries : FollowsTries(c, k)

\* s began, and its job was handed over.
HandedOver(s) ==
  /\ s[2] <= tries[s[1]]
  /\ caller[s[1]] = "admitted" => s[2] # tries[s[1]]

\* Every job in the channel was handed over, and its caller was told nothing
\* but that the result is unknown.
ChannelHolds ==
  \A i \in 1 .. Len(channel) :
    channel[i] # Shutdown =>
      /\ HandedOver(channel[i])
      /\ answer[channel[i]] \in {"none", "receipt_result_unknown"}

\* The same of the job the worker took, until it is answered.
JobHeld ==
  job # NoJob =>
    /\ HandedOver(job)
    /\ answer[job] # "receipt_worker_busy"
    /\ worker # "ending" => answer[job] \in {"none", "receipt_result_unknown"}

\* The submissions of one caller are handed over, taken and recorded in the
\* order they were made.
InOrder ==
  /\ \A i, j \in 1 .. Len(channel) :
       i < j /\ channel[i] # Shutdown /\ channel[j] # Shutdown
         /\ channel[i][1] = channel[j][1] => channel[i][2] < channel[j][2]
  /\ \A i \in 1 .. Len(channel) :
       job # NoJob /\ channel[i] # Shutdown /\ job[1] = channel[i][1] =>
         job[2] < channel[i][2]
  /\ \A i \in 1 .. Len(channel) :
       channel[i] # Shutdown =>
         \A l \in received[channel[i][1]] : l < channel[i][2]
  /\ job # NoJob =>
       \A l \in received[job[1]] :
         l < job[2] \/ (l = job[2] /\ worker \in {"responding", "ending"})

\* The received event is appended once, by a submission that was handed over
\* and whose caller was told so, or that the result is unknown, or nothing yet.
RecordedOnceFor(c) ==
  /\ \A k, l \in received[c] : k = l
  /\ \A k \in received[c] :
       /\ HandedOver(<<c, k>>)
       /\ answer[<<c, k>>] \in {"none", "receipt_result_unknown", "received"}
       /\ answer[<<c, k>>] = "none" =>
            job = <<c, k>> /\ worker = "responding" /\ result = "received"

RecordedOnce == \A c \in Callers : RecordedOnceFor(c)

\* What the worker is about to answer is what the log holds.
ResultIsTrue ==
  worker = "responding" =>
    /\ result = "received" <=> job[2] \in received[job[1]]
    /\ result = "already_received" => received[job[1]] # {}

\* What the callers were told of a recorded receipt.
AnswersAreRecorded ==
  \A c \in Callers : \A k \in 1 .. MaxTries :
    /\ answer[<<c, k>>] = "received" => k \in received[c]
    /\ answer[<<c, k>>] = "already_received" =>
         \E l \in received[c] : l < k

\* The channel, the counter and the pause.
ControlInv ==
  /\ TypeOK
  /\ LoopState
  /\ OwnerState
  /\ HasTried
  /\ ShutdownIsLast
  /\ QueuedCounts
  /\ PausedStaysIdle

\* The submissions and what was told of them.
ReceiptInv ==
  /\ AnswersFollowTries
  /\ ChannelHolds
  /\ JobHeld
  /\ InOrder
  /\ RecordedOnce
  /\ ResultIsTrue
  /\ AnswersAreRecorded

IInv == ControlInv /\ ReceiptInv

-----------------------------------------------------------------------------
(* Operators.                                                              *)

\* Where Shutdown can only be last, Jobs counts the jobs of the channel.
LEMMA JobsCount ==
  ASSUME TypeOK, ShutdownIsLast
  PROVE  Jobs \in Nat /\ Cardinality(Waiting) = Jobs
<1>1. channel \in Seq(Submissions \cup {Shutdown}) /\ Len(channel) \in Nat
  BY DEF TypeOK
<1>2. Jobs \in Nat
  BY <1>1 DEF Jobs
<1>3. Waiting = 1 .. Jobs
  BY <1>1 DEF Waiting, Jobs, ShutdownIsLast
<1> QED
  BY <1>2, <1>3, FS_Interval

\* Admitted is a finite set.
LEMMA AdmittedFinite ==
  IsFiniteSet(Admitted) /\ Cardinality(Admitted) \in Nat
BY CallersAssumption, FS_Subset, FS_CardinalityType DEF Admitted

\* A caller that is admitted counts once more.
LEMMA AdmittedAdd ==
  ASSUME TypeOK, NEW c \in Callers, caller[c] # "admitted",
         caller' = [caller EXCEPT ![c] = "admitted"]
  PROVE  Cardinality(Admitted') = Cardinality(Admitted) + 1
<1>1. Admitted' = Admitted \cup {c} /\ c \notin Admitted
  BY DEF TypeOK, Admitted
<1> QED
  BY <1>1, AdmittedFinite, FS_AddElement

\* A caller that is no longer admitted counts once less.
LEMMA AdmittedRemove ==
  ASSUME TypeOK, NEW c \in Callers, caller[c] = "admitted", NEW v,
         v # "admitted", caller' = [caller EXCEPT ![c] = v]
  PROVE  /\ Cardinality(Admitted') = Cardinality(Admitted) - 1
         /\ Cardinality(Admitted) > 0
<1>1. Admitted' = Admitted \ {c} /\ c \in Admitted
  BY DEF TypeOK, Admitted
<1>2. Cardinality(Admitted') = Cardinality(Admitted) - 1
  BY <1>1, AdmittedFinite, FS_RemoveElement
<1>3. Cardinality(Admitted) # 0
  BY <1>1, AdmittedFinite, FS_EmptySet
<1> QED
  BY <1>2, <1>3, AdmittedFinite

\* Any other step of a caller leaves the admitted ones as they are.
LEMMA AdmittedSame ==
  ASSUME TypeOK, NEW c \in Callers, caller[c] # "admitted", NEW v,
         v # "admitted", caller' = [caller EXCEPT ![c] = v]
  PROVE  Admitted' = Admitted
BY DEF TypeOK, Admitted

-----------------------------------------------------------------------------
(* The control.                                                            *)

\* The initial states satisfy the inductive invariant.
LEMMA InitIInv == Init => IInv
<1> SUFFICES ASSUME Init PROVE IInv
  OBVIOUS
<1> USE QueueCapAssumption, MaxTriesAssumption, SentinelAssumption
    DEF Init, PauseInit
<1>0. /\ tries \in [Callers -> 0 .. MaxTries]
      /\ answer \in [Submissions -> Answers]
      /\ received \in [Callers -> SUBSET (1 .. MaxTries)]
  BY DEF Answers
<1>1. PauseTypeOK
  BY DEF PauseTypeOK
<1>a. channel \in Seq(Submissions \cup {Shutdown})
  OBVIOUS
<1>2. TypeOK
  BY <1>0, <1>1, <1>a DEF TypeOK, Results
<1>3. QueuedCounts
  <2>1. Admitted = {}
    BY DEF Admitted
  <2> QED
    BY <2>1, FS_EmptySet DEF QueuedCounts, Jobs
<1>4. LoopState /\ OwnerState /\ HasTried /\ ShutdownIsLast
        /\ PausedStaysIdle
  BY DEF LoopState, OwnerState, HasTried, ShutdownIsLast,
           PausedStaysIdle
<1>5. AnswersFollowTries /\ ChannelHolds /\ JobHeld
  BY DEF AnswersFollowTries, FollowsTries, ChannelHolds, JobHeld,
         Submissions
<1>6. InOrder /\ RecordedOnce /\ ResultIsTrue /\ AnswersAreRecorded
  BY DEF InOrder, RecordedOnce, RecordedOnceFor, ResultIsTrue,
         AnswersAreRecorded, Submissions
<1> QED
  BY <1>2, <1>3, <1>4, <1>5, <1>6 DEF IInv, ControlInv, ReceiptInv

\* The facts of the type invariant that counting needs.
LEMMA CountTypes ==
  ASSUME TypeOK
  PROVE  /\ queued \in Nat
         /\ channel \in Seq(Submissions \cup {Shutdown})
         /\ Len(channel) \in Nat
BY DEF TypeOK, PauseTypeOK

\* What a step of a caller does to the control.
LEMMA CallerControl ==
  ASSUME ControlInv, NEW c \in Callers, CallerStep(c)
  PROVE  ControlInv'
<1> USE MaxTriesAssumption, SentinelAssumption, AdmittedFinite, CountTypes,
        JobsCount
    DEF ControlInv
<1>0. /\ tries[c] \in 0 .. MaxTries
      /\ tries[c] > 0 => Current(c) \in Submissions
  BY DEF TypeOK, Current, Submissions
<1>1. CASE Admit(c)
  <2> USE <1>1 DEF Admit, CanSubmit, TryEnqueue, Accepting, workerVars
  <2>1. TypeOK'
    BY DEF TypeOK, PauseTypeOK
  <2>2. QueuedCounts'
    <3>1. Cardinality(Admitted') = Cardinality(Admitted) + 1
      BY AdmittedAdd
    <3>2. Jobs' = Jobs
      BY DEF Jobs
    <3> QED
      BY <3>1, <3>2 DEF QueuedCounts
  <2>3. LoopState' /\ OwnerState' /\ HasTried'
        /\ ShutdownIsLast' /\ PausedStaysIdle'
    BY DEF LoopState, OwnerState, HasTried, ShutdownIsLast,
           PausedStaysIdle, TypeOK
  <2> QED
    BY <2>1, <2>2, <2>3
<1>2. CASE RefusePaused(c)
  <2> USE <1>2 DEF RefusePaused, CanSubmit, Answer, Accepting, workerVars,
                   pauseVars
  <2>1. TypeOK'
    BY DEF TypeOK, PauseTypeOK, Submissions, Answers
  <2>2. QueuedCounts'
    BY DEF QueuedCounts, Jobs, Admitted
  <2>3. LoopState' /\ OwnerState' /\ HasTried'
        /\ ShutdownIsLast' /\ PausedStaysIdle'
    BY DEF LoopState, OwnerState, HasTried, ShutdownIsLast,
           PausedStaysIdle
  <2> QED
    BY <2>1, <2>2, <2>3
<1>3. CASE Enqueue(c)
  <2> USE <1>3 DEF Enqueue, workerVars, pauseVars
  <2>0. closed = FALSE /\ tries[c] > 0 /\ Current(c) # Shutdown
    BY <1>0 DEF HasTried, OwnerState, TypeOK, Submissions
  <2>1. TypeOK'
    <3>1. channel' \in Seq(Submissions \cup {Shutdown})
      BY <1>0, <2>0
    <3>2. PauseTypeOK' 
      BY DEF TypeOK, PauseTypeOK
    <3> QED
      BY <3>1, <3>2 DEF TypeOK
  <2>2. QueuedCounts'
    <3>1. Cardinality(Admitted') = Cardinality(Admitted) - 1
      BY AdmittedRemove
    <3>2. Jobs = Len(channel) /\ Jobs' = Len(channel) + 1
      BY <1>0, <2>0 DEF Jobs, ShutdownIsLast
    <3> QED
      BY <3>1, <3>2 DEF QueuedCounts
  <2>3. LoopState' /\ OwnerState' /\ HasTried' /\ PausedStaysIdle'
    BY DEF LoopState, OwnerState, HasTried, PausedStaysIdle
  <2>4. ShutdownIsLast'
    BY <1>0, <2>0 DEF ShutdownIsLast
  <2> QED
    BY <2>1, <2>2, <2>3, <2>4
<1>4. CASE RefuseFull(c)
  <2> USE <1>4 DEF RefuseFull, Answer, Unenqueue, Decremented, workerVars
  <2>1. TypeOK'
    <3>1. PauseTypeOK'
      BY DEF TypeOK, PauseTypeOK
    <3>2. answer' \in [Submissions -> Answers]
      BY DEF TypeOK, Answers
    <3> QED
      BY <3>1, <3>2 DEF TypeOK
  <2>2. QueuedCounts'
    <3>1. /\ Cardinality(Admitted') = Cardinality(Admitted) - 1
          /\ Cardinality(Admitted) > 0
      BY AdmittedRemove
    <3>2. Jobs' = Jobs
      BY DEF Jobs
    <3> QED
      BY <3>1, <3>2 DEF QueuedCounts
  <2>3. LoopState' /\ OwnerState' /\ HasTried'
        /\ ShutdownIsLast' /\ PausedStaysIdle'
    BY DEF LoopState, OwnerState, HasTried, ShutdownIsLast,
           PausedStaysIdle
  <2> QED
    BY <2>1, <2>2, <2>3
<1>5. CASE TimeOut(c)
  <2> USE <1>5 DEF TimeOut, Answer, workerVars, pauseVars
  <2>1. TypeOK'
    <3>1. PauseTypeOK'
      BY DEF TypeOK, PauseTypeOK
    <3>2. answer' \in [Submissions -> Answers]
      BY DEF TypeOK, Answers
    <3> QED
      BY <3>1, <3>2 DEF TypeOK
  <2>2. QueuedCounts'
    BY AdmittedSame DEF QueuedCounts, Jobs
  <2>3. LoopState' /\ OwnerState' /\ HasTried'
        /\ ShutdownIsLast' /\ PausedStaysIdle'
    BY DEF LoopState, OwnerState, HasTried, ShutdownIsLast,
           PausedStaysIdle, TypeOK
  <2> QED
    BY <2>1, <2>2, <2>3
<1> QED
  BY <1>1, <1>2, <1>3, <1>4, <1>5 DEF CallerStep

\* What a step of the worker loop does to it.
LEMMA WorkerControl ==
  ASSUME ControlInv, WorkerStep
  PROVE  ControlInv'
<1> USE SentinelAssumption, AdmittedFinite, CountTypes, JobsCount
    DEF ControlInv
<1>1. CASE ReportIdle
  <2> USE <1>1 DEF ReportIdle, SetIdle, callerVars
  <2>1. TypeOK'
    BY DEF TypeOK, PauseTypeOK
  <2>2. QueuedCounts'
    BY DEF QueuedCounts, Jobs, Admitted
  <2>3. LoopState' /\ OwnerState' /\ HasTried'
        /\ ShutdownIsLast' /\ PausedStaysIdle'
    BY DEF LoopState, OwnerState, HasTried, ShutdownIsLast,
           PausedStaysIdle
  <2> QED
    BY <2>1, <2>2, <2>3
<1>2. CASE TakeJob
  <2> USE <1>2 DEF TakeJob, callerVars, pauseVars
  <2>1. TypeOK'
    BY DEF TypeOK, PauseTypeOK
  <2>2. QueuedCounts'
    <3>1. Admitted' = Admitted
      BY DEF Admitted
    <3>2. Jobs' = Jobs - 1
      <4>1. channel' = Tail(channel) /\ Len(channel') = Len(channel) - 1
        OBVIOUS
      <4>2. CASE Len(channel) = 1
        BY <4>1, <4>2 DEF Jobs
      <4>3. CASE Len(channel) > 1
        <5>1. channel'[Len(channel')] = channel[Len(channel)]
          BY <4>1, <4>3
        <5> QED
          BY <4>1, <4>3, <5>1 DEF Jobs
      <4> QED
        BY <4>1, <4>2, <4>3
    <3> QED
      BY <3>1, <3>2 DEF QueuedCounts
  <2>3. LoopState' /\ OwnerState' /\ HasTried' /\ PausedStaysIdle'
    BY DEF LoopState, OwnerState, HasTried, PausedStaysIdle, TypeOK, Submissions
  <2>4. ShutdownIsLast'
    BY DEF ShutdownIsLast, TypeOK
  <2> QED
    BY <2>1, <2>2, <2>3, <2>4
<1>3. CASE StartJob
  <2> USE <1>3 DEF StartJob, BeginWork, Decremented, callerVars
  <2>1. TypeOK'
    <3>1. queued' \in Nat
      OBVIOUS
    <3> QED
      BY <3>1 DEF TypeOK, PauseTypeOK
  <2>2. QueuedCounts'
    BY DEF QueuedCounts, Jobs, Admitted
  <2>3. LoopState' /\ OwnerState' /\ HasTried'
        /\ ShutdownIsLast' /\ PausedStaysIdle'
    BY DEF LoopState, OwnerState, HasTried, ShutdownIsLast,
           PausedStaysIdle, QueuedCounts
  <2> QED
    BY <2>1, <2>2, <2>3
<1>4. CASE RunJob
  <2> USE <1>4 DEF RunJob, callerVars, pauseVars
  <2>0. job \in Submissions
    BY DEF TypeOK, LoopState
  <2>1. TypeOK'
    <3>1. received' \in [Callers -> SUBSET (1 .. MaxTries)]
      BY <2>0 DEF TypeOK, Submissions
    <3>2. PauseTypeOK' /\ open' \in BOOLEAN
      BY DEF TypeOK, PauseTypeOK
    <3> QED
      BY <3>1, <3>2 DEF TypeOK, Results
  <2>2. QueuedCounts'
    BY DEF QueuedCounts, Jobs, Admitted
  <2>3. LoopState' /\ OwnerState' /\ HasTried'
        /\ ShutdownIsLast' /\ PausedStaysIdle'
    BY DEF LoopState, OwnerState, HasTried, ShutdownIsLast,
           PausedStaysIdle
  <2> QED
    BY <2>1, <2>2, <2>3
<1>5. CASE Respond
  <2> USE <1>5 DEF Respond, Answer, pauseVars
  <2>0. job \in Submissions /\ job[1] \in Callers
    BY DEF TypeOK, LoopState, Submissions
  <2>1. TypeOK'
    BY <2>0 DEF TypeOK, PauseTypeOK, Answers, Results
  <2>2. QueuedCounts'
    BY <2>0, AdmittedSame DEF QueuedCounts, Jobs, Admitted
  <2>3. LoopState' /\ OwnerState' /\ HasTried'
        /\ ShutdownIsLast' /\ PausedStaysIdle'
    BY <2>0 DEF LoopState, OwnerState, HasTried, ShutdownIsLast,
           PausedStaysIdle, TypeOK
  <2> QED
    BY <2>1, <2>2, <2>3
<1>6. CASE EndJob
  <2> USE <1>6 DEF EndJob, SetIdle, callerVars
  <2>1. TypeOK'
    BY DEF TypeOK, PauseTypeOK
  <2>2. QueuedCounts'
    BY DEF QueuedCounts, Jobs, Admitted
  <2>3. LoopState' /\ OwnerState' /\ HasTried'
        /\ ShutdownIsLast' /\ PausedStaysIdle'
    BY DEF LoopState, OwnerState, HasTried, ShutdownIsLast,
           PausedStaysIdle
  <2> QED
    BY <2>1, <2>2, <2>3
<1>7. CASE ExitLoop
  <2> USE <1>7 DEF ExitLoop, callerVars, pauseVars
  <2>1. TypeOK'
    BY DEF TypeOK, PauseTypeOK
  <2>2. QueuedCounts'
    BY DEF QueuedCounts, Jobs, Admitted
  <2>3. LoopState' /\ OwnerState' /\ HasTried'
        /\ ShutdownIsLast' /\ PausedStaysIdle'
    BY DEF LoopState, OwnerState, HasTried, ShutdownIsLast,
           PausedStaysIdle, TypeOK
  <2> QED
    BY <2>1, <2>2, <2>3
<1> QED
  BY <1>1, <1>2, <1>3, <1>4, <1>5, <1>6, <1>7 DEF WorkerStep

\* What a step of the owner does to it.
LEMMA OwnerControl ==
  ASSUME ControlInv, OwnerStep
  PROVE  ControlInv'
<1> USE SentinelAssumption, AdmittedFinite, CountTypes, JobsCount
    DEF ControlInv
<1>1. CASE BeginPause \/ AckPause \/ RefusePause \/ ResumeWorker
  <2> USE <1>1 DEF BeginPause, AckPause, RefusePause, ResumeWorker, SetPaused,
        Resume, Quiescent, callerVars, workerVars, pauseVars
  <2>1. TypeOK'
    BY DEF TypeOK, PauseTypeOK
  <2>2. QueuedCounts'
    BY DEF QueuedCounts, Jobs, Admitted
  <2>3. LoopState' /\ OwnerState' /\ HasTried'
        /\ ShutdownIsLast' /\ PausedStaysIdle'
    BY DEF LoopState, OwnerState, HasTried, ShutdownIsLast, PausedStaysIdle
  <2> QED
    BY <2>1, <2>2, <2>3
<1>2. CASE DropHandle
  <2> USE <1>2 DEF DropHandle, Stop, callerVars, workerVars
  <2>0. closed = FALSE
    BY DEF OwnerState, TypeOK
  <2>1. TypeOK'
    <3>1. channel' \in Seq(Submissions \cup {Shutdown})
      OBVIOUS
    <3>2. PauseTypeOK'
      BY DEF TypeOK, PauseTypeOK
    <3> QED
      BY <3>1, <3>2 DEF TypeOK
  <2>2. QueuedCounts'
    <3>1. Jobs = Len(channel)
      BY <2>0 DEF Jobs, ShutdownIsLast
    <3>2. Jobs' = Len(channel)
      BY <2>0 DEF Jobs, ShutdownIsLast
    <3>3. Admitted' = Admitted
      BY DEF Admitted
    <3> QED
      BY <3>1, <3>2, <3>3 DEF QueuedCounts
  <2>3. LoopState' /\ OwnerState' /\ HasTried' /\ PausedStaysIdle'
    BY DEF LoopState, OwnerState, HasTried, PausedStaysIdle
  <2>4. ShutdownIsLast'
    BY <2>0 DEF ShutdownIsLast
  <2> QED
    BY <2>1, <2>2, <2>3, <2>4
<1>3. CASE Join
  <2> USE <1>3 DEF Join, callerVars, workerVars, pauseVars
  <2>1. TypeOK'
    BY DEF TypeOK, PauseTypeOK
  <2>2. QueuedCounts'
    BY DEF QueuedCounts, Jobs, Admitted
  <2>3. LoopState' /\ OwnerState' /\ HasTried'
        /\ ShutdownIsLast' /\ PausedStaysIdle'
    BY DEF LoopState, OwnerState, HasTried, ShutdownIsLast, PausedStaysIdle
  <2> QED
    BY <2>1, <2>2, <2>3
<1>4. CASE Respawn
  <2> USE <1>4 DEF Respawn, NewControl, callerVars
  <2>0. Admitted' = {} /\ worker = "exited"
    BY DEF Admitted, OwnerState, LoopState, TypeOK
  <2>1. TypeOK'
    <3>1. channel' \in Seq(Submissions \cup {Shutdown})
      OBVIOUS
    <3>2. PauseTypeOK'
      BY DEF TypeOK, PauseTypeOK
    <3> QED
      BY <3>1, <3>2 DEF TypeOK
  <2>2. QueuedCounts'
    BY <2>0, FS_EmptySet DEF QueuedCounts, Jobs
  <2>3. LoopState' /\ OwnerState' /\ HasTried' /\ PausedStaysIdle'
    BY <2>0 DEF LoopState, OwnerState, HasTried, PausedStaysIdle
  <2>4. ShutdownIsLast'
    BY DEF ShutdownIsLast
  <2> QED
    BY <2>1, <2>2, <2>3, <2>4
<1> QED
  BY <1>1, <1>2, <1>3, <1>4 DEF OwnerStep

\* The control part is inductive on its own.
LEMMA NextControl == ControlInv /\ [Next]_vars => ControlInv'
<1> SUFFICES ASSUME ControlInv, [Next]_vars PROVE ControlInv'
  OBVIOUS
<1>1. CASE UNCHANGED vars
  BY <1>1 DEF vars, ControlInv, TypeOK, PauseTypeOK, LoopState, OwnerState,
       HasTried, ShutdownIsLast, QueuedCounts, Jobs, Admitted, PausedStaysIdle
<1> QED
  BY <1>1, CallerControl, WorkerControl, OwnerControl DEF Next

-----------------------------------------------------------------------------
(* The receipts.                                                           *)

\* Submissions are pairs.
LEMMA Pairs ==
  /\ \A s \in Submissions :
       s = <<s[1], s[2]>> /\ s[1] \in Callers /\ s[2] \in 1 .. MaxTries
  /\ \A c \in Callers, k \in 1 .. MaxTries :
       <<c, k>> \in Submissions /\ <<c, k>>[1] = c /\ <<c, k>>[2] = k
BY DEF Submissions

\* The facts of the type invariant that the receipts need.
LEMMA ReceiptTypes ==
  ASSUME TypeOK
  PROVE  /\ caller \in [Callers -> {"out", "admitted", "awaiting"}]
         /\ tries \in [Callers -> 0 .. MaxTries]
         /\ answer \in [Submissions -> Answers]
         /\ received \in [Callers -> SUBSET (1 .. MaxTries)]
         /\ job \in Submissions \cup {NoJob}
         /\ channel \in Seq(Submissions \cup {Shutdown})
         /\ Len(channel) \in Nat
         /\ \A i \in 1 .. Len(channel) :
              channel[i] # Shutdown => channel[i] \in Submissions
BY DEF TypeOK

\* Only steps that end or begin a submission bear on its answer.
LEMMA AnswersFrame ==
  ASSUME AnswersFollowTries, UNCHANGED <<caller, tries, answer>>
  PROVE  AnswersFollowTries'
BY DEF AnswersFollowTries, FollowsTries

\* Steps that leave the submissions alone, and the worker or its answer.
LEMMA ReceiptFrame ==
  ASSUME ReceiptInv,
         UNCHANGED <<caller, tries, answer, channel, job, received>>,
         result' = result,
         worker' = worker \/ (/\ worker \notin {"responding", "ending"}
                              /\ worker' \notin {"responding", "ending"})
  PROVE  ReceiptInv'
BY DEF ReceiptInv, AnswersFollowTries, ChannelHolds, JobHeld, InOrder,
       RecordedOnce, RecordedOnceFor, ResultIsTrue, AnswersAreRecorded,
       FollowsTries, HandedOver

\* What a step of a caller does to the receipts.
LEMMA CallerReceipts ==
  ASSUME IInv, NEW c \in Callers, CallerStep(c)
  PROVE  ReceiptInv'
<1> USE MaxTriesAssumption, SentinelAssumption, ReceiptTypes, Pairs
    DEF IInv, ControlInv, ReceiptInv, HandedOver
<1>0. /\ tries[c] \in 0 .. MaxTries
      /\ tries[c] > 0 => Current(c) \in Submissions
  BY DEF Current
<1>1. CASE Admit(c)
  <2> USE <1>1 DEF Admit, CanSubmit, workerVars
  <2>1. AnswersFollowTries'
    <3> SUFFICES ASSUME NEW d \in Callers, NEW k \in 1 .. MaxTries
                 PROVE  FollowsTries(d, k)'
      BY DEF AnswersFollowTries
    <3>1. FollowsTries(d, k)
      BY DEF AnswersFollowTries
    <3>2. CASE d = c
      <4>1. /\ tries[c] < MaxTries
            /\ tries[c] > 0 => answer[<<c, tries[c]>>] \in
                 {"refused", "receipt_worker_busy", "receipt_result_unknown"}
        BY DEF Current
      <4>2. /\ tries'[c] = tries[c] + 1 /\ caller'[c] = "admitted"
            /\ answer'[<<c, k>>] = answer[<<c, k>>]
        BY <1>0
      <4>3. k = tries[c] => answer[<<c, k>>] = answer[<<c, tries[c]>>]
        OBVIOUS
      <4>4. FollowsTries(c, k)
        BY <3>1, <3>2
      <4> HIDE <1>1
      <4>5. FollowsTries(c, k)'
        BY <1>0, <4>1, <4>2, <4>3, <4>4 DEF FollowsTries
      <4> QED
        BY <3>2, <4>5
    <3>3. CASE d # c
      BY <1>0, <3>1, <3>3 DEF FollowsTries
    <3> QED
      BY <3>2, <3>3
  <2>2. ChannelHolds'
    BY DEF ChannelHolds
  <2>3. JobHeld'
    BY DEF JobHeld
  <2>4. InOrder'
    BY DEF InOrder
  <2>5. RecordedOnce'
    BY DEF RecordedOnce, RecordedOnceFor
  <2>6. ResultIsTrue' /\ AnswersAreRecorded'
    BY DEF ResultIsTrue, AnswersAreRecorded
  <2> QED
    BY <2>1, <2>2, <2>3, <2>4, <2>5, <2>6
<1>2. CASE RefusePaused(c)
  <2> USE <1>2 DEF RefusePaused, CanSubmit, Answer, workerVars
  <2>1. AnswersFollowTries'
    <3> SUFFICES ASSUME NEW d \in Callers, NEW k \in 1 .. MaxTries
                 PROVE  FollowsTries(d, k)'
      BY DEF AnswersFollowTries
    <3>1. FollowsTries(d, k)
      BY DEF AnswersFollowTries
    <3>2. CASE d = c
      <4>1. /\ tries[c] < MaxTries
            /\ tries[c] > 0 => answer[<<c, tries[c]>>] \in
                 {"refused", "receipt_worker_busy", "receipt_result_unknown"}
        BY DEF Current
      <4>2. /\ tries'[c] = tries[c] + 1 /\ caller'[c] = "out"
            /\ answer'[<<c, k>>] = IF k = tries[c] + 1
                                  THEN "receipt_worker_busy"
                                  ELSE answer[<<c, k>>]
        BY <1>0
      <4>3. k = tries[c] => answer[<<c, k>>] = answer[<<c, tries[c]>>]
        OBVIOUS
      <4>4. FollowsTries(c, k)
        BY <3>1, <3>2
      <4> HIDE <1>2
      <4>5. FollowsTries(c, k)'
        BY <1>0, <4>1, <4>2, <4>3, <4>4 DEF FollowsTries
      <4> QED
        BY <3>2, <4>5
    <3>3. CASE d # c
      BY <1>0, <3>1, <3>3 DEF FollowsTries
    <3> QED
      BY <3>2, <3>3
  <2>2. ChannelHolds'
    BY DEF ChannelHolds
  <2>3. JobHeld'
    BY DEF JobHeld
  <2>4. InOrder'
    BY DEF InOrder
  <2>5. RecordedOnce'
    BY DEF RecordedOnce, RecordedOnceFor
  <2>6. ResultIsTrue' /\ AnswersAreRecorded'
    BY DEF ResultIsTrue, AnswersAreRecorded
  <2> QED
    BY <2>1, <2>2, <2>3, <2>4, <2>5, <2>6
<1>3. CASE Enqueue(c)
  <2> USE <1>3 DEF Enqueue, workerVars
  <2>1. AnswersFollowTries'
    <3> SUFFICES ASSUME NEW d \in Callers, NEW k \in 1 .. MaxTries
                 PROVE  FollowsTries(d, k)'
      BY DEF AnswersFollowTries
    <3>1. FollowsTries(d, k)
      BY DEF AnswersFollowTries
    <3>2. CASE d = c
      BY <1>0, <3>1, <3>2 DEF FollowsTries
    <3>3. CASE d # c
      BY <1>0, <3>1, <3>3 DEF FollowsTries
    <3> QED
      BY <3>2, <3>3
  <2>2. ChannelHolds'
    <3>1. /\ Current(c) \in Submissions
          /\ answer[Current(c)] = "none"
          /\ tries'[c] = tries[c] /\ caller'[c] = "awaiting"
      BY <1>0 DEF HasTried, AnswersFollowTries, FollowsTries, Current
    <3> SUFFICES ASSUME NEW i \in 1 .. Len(channel'), channel'[i] # Shutdown
                 PROVE  /\ HandedOver(channel[i])'
                        /\ answer'[channel'[i]] \in
                             {"none", "receipt_result_unknown"}
      BY DEF ChannelHolds
    <3>2. CASE i = Len(channel) + 1
      <4>1. channel'[i] = <<c, tries[c]>>
        BY <3>2 DEF Current
      <4>2. HandedOver(<<c, tries[c]>>)'
        BY <1>0, <3>1
      <4> QED
        BY <3>1, <4>1, <4>2 DEF Current
    <3>3. CASE i \in 1 .. Len(channel)
      <4>1. channel'[i] = channel[i]
        BY <3>3
      <4> QED
        BY <3>1, <3>3, <4>1 DEF ChannelHolds
    <3> QED
      BY <3>2, <3>3
  <2>3. JobHeld'
    BY DEF JobHeld
  <2>4. InOrder'
    <3>1. /\ \A i \in 1 .. Len(channel) : channel'[i] = channel[i]
          /\ channel'[Len(channel) + 1] = <<c, tries[c]>>
          /\ Len(channel') = Len(channel) + 1
      BY DEF Current
    <3>2. /\ \A i \in 1 .. Len(channel) :
               channel[i] # Shutdown /\ channel[i][1] = c =>
                 channel[i][2] < tries[c]
          /\ job # NoJob /\ job[1] = c => job[2] < tries[c]
          /\ \A l \in received[c] : l < tries[c]
      <4>1. ASSUME NEW i \in 1 .. Len(channel), channel[i] # Shutdown,
                   channel[i][1] = c
            PROVE  channel[i][2] < tries[c]
        BY <1>0, <4>1 DEF ChannelHolds
      <4>2. ASSUME job # NoJob, job[1] = c
            PROVE  job[2] < tries[c]
        BY <1>0, <4>2 DEF JobHeld
      <4>3. ASSUME NEW l \in received[c]
            PROVE  l < tries[c]
        <5>1. l \in 1 .. MaxTries /\ HandedOver(<<c, l>>)
          BY <4>3 DEF RecordedOnce, RecordedOnceFor
        <5> QED
          BY <1>0, <5>1
      <4> QED
        BY <4>1, <4>2, <4>3
    <3> HIDE DEF Enqueue
    <3>3. UNCHANGED <<job, received, worker>>
      BY DEF Enqueue
    <3>4. ASSUME NEW i \in 1 .. Len(channel'), NEW j \in 1 .. Len(channel'),
                 i < j, channel'[i] # Shutdown, channel'[j] # Shutdown,
                 channel'[i][1] = channel'[j][1]
          PROVE  channel'[i][2] < channel'[j][2]
      <4>1. i \in 1 .. Len(channel) /\ channel'[i] = channel[i]
        BY <3>1, <3>4
      <4>2. CASE j = Len(channel) + 1
        BY <3>1, <3>2, <3>4, <4>1, <4>2
      <4>3. CASE j \in 1 .. Len(channel)
        BY <3>1, <3>4, <4>1, <4>3 DEF InOrder
      <4> QED
        BY <3>1, <4>2, <4>3
    <3>5. ASSUME NEW i \in 1 .. Len(channel'), channel'[i] # Shutdown
          PROVE  /\ job # NoJob /\ job[1] = channel'[i][1] =>
                      job[2] < channel'[i][2]
                 /\ \A l \in received[channel'[i][1]] : l < channel'[i][2]
      <4>1. CASE i = Len(channel) + 1
        BY <3>1, <3>2, <4>1
      <4>2. CASE i \in 1 .. Len(channel)
        BY <3>1, <3>5, <4>2 DEF InOrder
      <4> QED
        BY <3>1, <4>1, <4>2
    <3> QED
      BY <3>3, <3>4, <3>5 DEF InOrder
  <2>5. RecordedOnce'
    BY DEF RecordedOnce, RecordedOnceFor
  <2>6. ResultIsTrue' /\ AnswersAreRecorded'
    BY DEF ResultIsTrue, AnswersAreRecorded
  <2> QED
    BY <2>1, <2>2, <2>3, <2>4, <2>5, <2>6
<1>4. CASE RefuseFull(c)
  <2> USE <1>4 DEF RefuseFull, Answer, workerVars, Current
  <2>1. AnswersFollowTries'
    <3> SUFFICES ASSUME NEW d \in Callers, NEW k \in 1 .. MaxTries
                 PROVE  FollowsTries(d, k)'
      BY DEF AnswersFollowTries
    <3>1. FollowsTries(d, k)
      BY DEF AnswersFollowTries
    <3>2. CASE d = c
      BY <1>0, <3>1, <3>2 DEF FollowsTries, HasTried
    <3>3. CASE d # c
      BY <1>0, <3>1, <3>3 DEF FollowsTries
    <3> QED
      BY <3>2, <3>3
  <2>2. ChannelHolds'
    BY DEF ChannelHolds
  <2>3. JobHeld'
    BY DEF JobHeld
  <2>4. InOrder'
    BY DEF InOrder
  <2>5. RecordedOnce'
    BY DEF RecordedOnce, RecordedOnceFor
  <2>6. ResultIsTrue' /\ AnswersAreRecorded'
    BY DEF ResultIsTrue, AnswersAreRecorded
  <2> QED
    BY <2>1, <2>2, <2>3, <2>4, <2>5, <2>6
<1>5. CASE TimeOut(c)
  <2> USE <1>5 DEF TimeOut, Answer, workerVars, Current
  <2>1. AnswersFollowTries'
    <3> SUFFICES ASSUME NEW d \in Callers, NEW k \in 1 .. MaxTries
                 PROVE  FollowsTries(d, k)'
      BY DEF AnswersFollowTries
    <3>1. FollowsTries(d, k)
      BY DEF AnswersFollowTries
    <3>2. CASE d = c
      BY <1>0, <3>1, <3>2 DEF FollowsTries, HasTried
    <3>3. CASE d # c
      BY <1>0, <3>1, <3>3 DEF FollowsTries
    <3> QED
      BY <3>2, <3>3
  <2>2. ChannelHolds'
    BY DEF ChannelHolds
  <2>3. JobHeld'
    BY DEF JobHeld
  <2>4. InOrder'
    BY DEF InOrder
  <2>5. RecordedOnce'
    BY DEF RecordedOnce, RecordedOnceFor
  <2>6. ResultIsTrue' /\ AnswersAreRecorded'
    BY DEF ResultIsTrue, AnswersAreRecorded
  <2> QED
    BY <2>1, <2>2, <2>3, <2>4, <2>5, <2>6
<1> QED
  BY <1>1, <1>2, <1>3, <1>4, <1>5 DEF CallerStep

\* What a step of the worker loop does to them.
LEMMA WorkerReceipts ==
  ASSUME IInv, WorkerStep
  PROVE  ReceiptInv'
<1> USE SentinelAssumption, ReceiptTypes, Pairs
    DEF IInv, ControlInv, ReceiptInv
<1>1. CASE ReportIdle \/ StartJob \/ ExitLoop
  BY <1>1, ReceiptFrame DEF ReportIdle, StartJob, ExitLoop, callerVars
<1>2. CASE TakeJob
  <2> USE <1>2 DEF TakeJob, callerVars
  <2>0. /\ Len(channel) > 0 /\ job = NoJob
        /\ job' = channel[1] /\ job' # Shutdown /\ job' \in Submissions
        /\ Len(channel') = Len(channel) - 1
        /\ \A i \in 1 .. Len(channel') : channel'[i] = channel[i + 1]
    BY DEF LoopState
  <2>1. AnswersFollowTries'
    BY AnswersFrame
  <2>2. ChannelHolds'
    BY <2>0 DEF ChannelHolds, HandedOver
  <2>3. JobHeld'
    BY <2>0 DEF ChannelHolds, JobHeld, HandedOver
  <2>4. InOrder'
    BY <2>0 DEF InOrder
  <2>5. RecordedOnce'
    BY <2>0 DEF RecordedOnce, RecordedOnceFor, HandedOver
  <2>6. ResultIsTrue' /\ AnswersAreRecorded'
    BY DEF ResultIsTrue, AnswersAreRecorded
  <2> QED
    BY <2>1, <2>2, <2>3, <2>4, <2>5, <2>6
<1>3. CASE RunJob
  <2> USE <1>3 DEF RunJob, callerVars
  <2>0. /\ job \in Submissions /\ job # NoJob
        /\ answer[job] \in {"none", "receipt_result_unknown"}
        /\ HandedOver(job)
        /\ \A l \in received[job[1]] : l < job[2]
    BY DEF LoopState, JobHeld, InOrder
  <2>1. AnswersFollowTries'
    BY AnswersFrame
  <2>2. ChannelHolds'
    BY DEF ChannelHolds, HandedOver
  <2>3. JobHeld'
    BY <2>0 DEF JobHeld, HandedOver
  <2>a. \/ received' = received /\ result' # "received"
        \/ /\ received[job[1]] = {} /\ result' = "received"
           /\ received'[job[1]] = {job[2]}
           /\ \A c \in Callers \ {job[1]} : received'[c] = received[c]
    BY <2>0
  <2>b. UNCHANGED <<caller, tries, answer, channel, job>>
        /\ worker' = "responding"
    OBVIOUS
  <2>4. InOrder'
    <3> HIDE <1>3
    <3>1. CASE received' = received
      BY <2>0, <2>b, <3>1 DEF InOrder
    <3>2. CASE received' # received
      <4>1. ASSUME NEW i \in 1 .. Len(channel), channel[i] # Shutdown,
                   NEW l \in received'[channel[i][1]]
            PROVE  l < channel[i][2]
        <5>1. CASE channel[i][1] = job[1]
          BY <2>0, <2>a, <3>2, <4>1, <5>1 DEF InOrder
        <5>2. CASE channel[i][1] # job[1]
          BY <2>a, <3>2, <4>1, <5>2 DEF InOrder
        <5> QED
          BY <5>1, <5>2
      <4>2. \A l \in received'[job[1]] : l = job[2]
        BY <2>0, <2>a, <3>2
      <4> QED
        BY <2>0, <2>b, <4>1, <4>2 DEF InOrder
    <3> QED
      BY <3>1, <3>2
  <2>5. RecordedOnce'
    <3> HIDE <1>3
    <3> SUFFICES ASSUME NEW c \in Callers
                 PROVE  RecordedOnceFor(c)'
      BY DEF RecordedOnce
    <3>1. RecordedOnceFor(c)
      BY DEF RecordedOnce
    <3>2. CASE received'[c] = received[c]
      <4>1. ASSUME NEW k \in received[c]
            PROVE  answer[<<c, k>>] # "none"
        BY <1>3, <3>1, <4>1 DEF RecordedOnceFor, RunJob
      <4> QED
        BY <2>b, <3>1, <3>2, <4>1 DEF RecordedOnceFor, HandedOver
    <3>3. CASE received'[c] # received[c]
      <4>1. c = job[1] /\ received'[c] = {job[2]} /\ result' = "received"
        BY <2>0, <2>a, <3>3
      <4>2. job = <<c, job[2]>>
        BY <2>0, <4>1
      <4> QED
        BY <2>0, <2>b, <4>1, <4>2 DEF RecordedOnceFor, HandedOver
    <3> QED
      BY <3>2, <3>3
  <2>6. ResultIsTrue'
    BY <2>0 DEF ResultIsTrue
  <2>7. AnswersAreRecorded'
    BY <2>0 DEF AnswersAreRecorded
  <2> QED
    BY <2>1, <2>2, <2>3, <2>4, <2>5, <2>6, <2>7
<1>4. CASE Respond
  <2> USE <1>4 DEF Respond, Answer, Current
  <2>0. /\ job \in Submissions /\ job # NoJob /\ HandedOver(job)
        /\ result \in Results
    BY DEF LoopState, JobHeld, TypeOK
  <2>a. \/ UNCHANGED <<answer, caller>> /\ answer[job] # "none"
        \/ /\ answer' = [answer EXCEPT ![job] = result]
           /\ caller' = [caller EXCEPT ![job[1]] = "out"]
           /\ tries[job[1]] = job[2] /\ caller[job[1]] = "awaiting"
    <3>1. CASE caller[job[1]] = "awaiting" /\ Current(job[1]) = job
      BY <2>0, <3>1
    <3>2. CASE ~(caller[job[1]] = "awaiting" /\ Current(job[1]) = job)
      <4>1. job[1] \in Callers /\ job[2] \in 1 .. MaxTries
            /\ job = <<job[1], job[2]>> /\ tries[job[1]] \in 0 .. MaxTries
        BY <2>0
      <4>2. FollowsTries(job[1], job[2])
        BY <4>1 DEF AnswersFollowTries
      <4>3. ~(job[2] = tries[job[1]] /\ caller[job[1]] # "out")
        BY <2>0, <3>2, <4>1 DEF HandedOver
      <4> QED
        <5>1. ~(job[2] > tries[job[1]])
          BY <2>0, <4>1 DEF HandedOver
        <5>2. answer[<<job[1], job[2]>>] # "none"
          BY <4>2, <4>3, <5>1 DEF FollowsTries
        <5> QED
          BY <3>2, <4>1, <5>2
    <3> QED
      BY <3>1, <3>2
  <2>1. AnswersFollowTries'
    <3>1. CASE UNCHANGED <<answer, caller>>
      BY <3>1, AnswersFrame
    <3>2. CASE ~UNCHANGED <<answer, caller>>
      <4> SUFFICES ASSUME NEW c \in Callers, NEW k \in 1 .. MaxTries
                   PROVE  FollowsTries(c, k)'
        BY DEF AnswersFollowTries
      <4>1. FollowsTries(c, k) /\ tries' = tries
        BY DEF AnswersFollowTries
      <4> HIDE <1>4
      <4>2. CASE c = job[1] /\ k = job[2]
        <5>1. /\ <<c, k>> = job /\ answer'[job] = result
              /\ k = tries[c] /\ caller'[c] = "out"
          BY <2>0, <2>a, <3>2, <4>2
        <5> QED
          <6>1. answer'[<<c, k>>] # "none"
            BY <2>0, <5>1 DEF Results
          <6>2. tries'[c] = k
            BY <4>1, <5>1
          <6> QED
            BY <5>1, <6>1, <6>2 DEF FollowsTries
      <4>3. CASE c = job[1] /\ k # job[2]
        BY <2>0, <2>a, <3>2, <4>1, <4>3 DEF FollowsTries, Results
      <4>4. CASE c # job[1]
        BY <2>0, <2>a, <3>2, <4>1, <4>4 DEF FollowsTries, Results
      <4> QED
        BY <4>2, <4>3, <4>4
    <3> QED
      BY <3>1, <3>2
  <2>2. ChannelHolds'
    BY <2>0 DEF ChannelHolds, HandedOver, InOrder
  <2>3. JobHeld'
    BY <2>0 DEF JobHeld, HandedOver, Results
  <2>4. InOrder'
    BY <2>0 DEF InOrder
  <2>5. RecordedOnce'
    <3> SUFFICES ASSUME NEW c \in Callers
                 PROVE  RecordedOnceFor(c)'
      BY DEF RecordedOnce
    <3>1. RecordedOnceFor(c) /\ received' = received /\ tries' = tries
      BY DEF RecordedOnce
    <3>2. ASSUME NEW k \in received[c]
          PROVE  /\ HandedOver(<<c, k>>)'
                 /\ answer'[<<c, k>>] \in {"receipt_result_unknown", "received"}
      <4>1. k \in 1 .. MaxTries
        BY <3>2
      <4>2. CASE <<c, k>> = job
        <5>1. result = "received" /\ c = job[1] /\ k = job[2]
          BY <2>0, <3>2, <4>2 DEF ResultIsTrue
        <5> QED
          BY <2>0, <2>a, <3>1, <3>2, <4>2, <5>1
             DEF RecordedOnceFor, HandedOver
      <4>3. CASE <<c, k>> # job
        BY <2>0, <2>a, <3>1, <3>2, <4>1, <4>3 DEF RecordedOnceFor, HandedOver
      <4> QED
        BY <4>2, <4>3
    <3> QED
      BY <3>1, <3>2 DEF RecordedOnceFor
  <2>6. ResultIsTrue'
    BY <2>0 DEF ResultIsTrue
  <2>7. AnswersAreRecorded'
    <3> SUFFICES ASSUME NEW c \in Callers, NEW k \in 1 .. MaxTries
                 PROVE  /\ answer'[<<c, k>>] = "received" => k \in received[c]
                        /\ answer'[<<c, k>>] = "already_received" =>
                             \E l \in received[c] : l < k
      BY DEF AnswersAreRecorded
    <3>1. CASE answer'[<<c, k>>] = answer[<<c, k>>]
      BY <3>1 DEF AnswersAreRecorded
    <3>2. CASE answer'[<<c, k>>] # answer[<<c, k>>]
      <4>1. <<c, k>> = job /\ answer'[<<c, k>>] = result
        BY <2>0, <2>a, <3>2
      <4>2. c = job[1] /\ k = job[2]
        BY <2>0, <4>1
      <4>3. \A l \in received[c] : l <= k
        <5> SUFFICES ASSUME NEW l \in received[c] PROVE l <= k
          OBVIOUS
        <5>1. l \in 1 .. MaxTries
          OBVIOUS
        <5> QED
          BY <2>0, <4>2, <5>1 DEF InOrder
      <4> QED
        BY <4>1, <4>2, <4>3 DEF ResultIsTrue
    <3> QED
      BY <3>1, <3>2
  <2> QED
    BY <2>1, <2>2, <2>3, <2>4, <2>5, <2>6, <2>7
<1>5. CASE EndJob
  <2> USE <1>5 DEF EndJob, callerVars
  <2>1. AnswersFollowTries' /\ ChannelHolds' /\ JobHeld'
    BY DEF AnswersFollowTries, FollowsTries, ChannelHolds, JobHeld, HandedOver
  <2>2. InOrder' /\ RecordedOnce'
    BY DEF InOrder, RecordedOnce, RecordedOnceFor, HandedOver
  <2>3. ResultIsTrue' /\ AnswersAreRecorded'
    BY DEF ResultIsTrue, AnswersAreRecorded
  <2> QED
    BY <2>1, <2>2, <2>3
<1> QED
  BY <1>1, <1>2, <1>3, <1>4, <1>5 DEF WorkerStep

\* What a step of the owner does to them.
LEMMA OwnerReceipts ==
  ASSUME IInv, OwnerStep
  PROVE  ReceiptInv'
<1> USE DEF IInv, ControlInv
<1>1. CASE BeginPause \/ AckPause \/ RefusePause \/ ResumeWorker \/ Join
  BY <1>1, ReceiptFrame
     DEF BeginPause, AckPause, RefusePause, ResumeWorker, Join, callerVars,
         workerVars
<1>2. CASE DropHandle
  <2> USE <1>2 DEF DropHandle, callerVars, workerVars, ReceiptInv
  <2>0. \A i \in 1 .. Len(channel') :
          channel'[i] # Shutdown =>
            i \in 1 .. Len(channel) /\ channel'[i] = channel[i]
    BY ReceiptTypes
  <2>1. AnswersFollowTries' /\ JobHeld'
    BY AnswersFrame DEF JobHeld, HandedOver
  <2>2. ChannelHolds'
    BY <2>0 DEF ChannelHolds, HandedOver
  <2>3. InOrder'
    BY <2>0, ReceiptTypes DEF InOrder
  <2>4. RecordedOnce' /\ ResultIsTrue' /\ AnswersAreRecorded'
    BY DEF RecordedOnce, RecordedOnceFor, HandedOver, ResultIsTrue,
           AnswersAreRecorded
  <2> QED
    BY <2>1, <2>2, <2>3, <2>4
<1>3. CASE Respawn
  <2> USE <1>3 DEF Respawn, callerVars, ReceiptInv
  <2>0. job = NoJob /\ worker = "exited"
    BY DEF LoopState
  <2>1. AnswersFollowTries' /\ ChannelHolds' /\ JobHeld'
    BY <2>0 DEF AnswersFollowTries, FollowsTries, ChannelHolds, JobHeld,
                HandedOver
  <2>2. InOrder' /\ RecordedOnce'
    BY <2>0 DEF InOrder, RecordedOnce, RecordedOnceFor, HandedOver
  <2>3. ResultIsTrue' /\ AnswersAreRecorded'
    BY <2>0 DEF ResultIsTrue, AnswersAreRecorded
  <2> QED
    BY <2>1, <2>2, <2>3
<1> QED
  BY <1>1, <1>2, <1>3 DEF OwnerStep

\* Every step preserves the inductive invariant.
LEMMA NextIInv == IInv /\ [Next]_vars => IInv'
<1> SUFFICES ASSUME IInv, [Next]_vars PROVE IInv'
  OBVIOUS
<1>1. ControlInv'
  BY NextControl DEF IInv
<1>2. CASE UNCHANGED vars
  BY <1>1, <1>2, ReceiptFrame DEF vars, IInv
<1> QED
  BY <1>1, <1>2, CallerReceipts, WorkerReceipts, OwnerReceipts DEF Next, IInv

\* The inductive invariant holds in every reachable state.
THEOREM Invariance == Spec => []IInv
BY InitIInv, NextIInv, PTL DEF Spec

-----------------------------------------------------------------------------
(* What follows from it.                                                   *)

\* The counter a pause waits for is the truth, and an acknowledged pause is
\* quiescent.
LEMMA IInvPause == IInv => PauseIsQuiescent
<1> SUFFICES ASSUME IInv PROVE PauseIsQuiescent
  OBVIOUS
<1> USE DEF IInv, ControlInv
<1>1. QueuedCountsOutstanding
  BY JobsCount DEF QueuedCounts, QueuedCountsOutstanding
<1>2. AcknowledgedMeansQuiescent
  <2> SUFFICES ASSUME owner = "paused"
               PROVE  worker = "receiving" /\ channel = <<>> /\ Admitted = {}
    BY DEF AcknowledgedMeansQuiescent
  <2>1. /\ Cardinality(Admitted) = 0 /\ Jobs = 0 /\ worker # "taken"
    BY JobsCount, AdmittedFinite DEF PausedStaysIdle, QueuedCounts
  <2>2. Admitted = {}
    BY <2>1, AdmittedFinite, FS_EmptySet
  <2>3. closed = FALSE
    BY DEF OwnerState, TypeOK
  <2>4. worker = "receiving"
    BY <2>1, <2>3 DEF PausedStaysIdle, LoopState
  <2>5. Len(channel) = 0
    BY <2>1, <2>3, CountTypes DEF Jobs, ShutdownIsLast
  <2>6. channel = <<>>
    BY <2>5, CountTypes
  <2> QED
    BY <2>2, <2>4, <2>6
<1> QED
  BY <1>1, <1>2 DEF PauseIsQuiescent

\* What the callers were told is true.
LEMMA IInvTold == IInv => ToldIsTrue
<1> SUFFICES ASSUME IInv PROVE ToldIsTrue
  OBVIOUS
<1> USE ReceiptTypes, Pairs DEF IInv, ControlInv, ReceiptInv
<1>1. BusyNeverWrites
  <2> SUFFICES ASSUME NEW s \in Submissions,
                      answer[s] = "receipt_worker_busy"
               PROVE  /\ s[2] \notin received[s[1]]
                      /\ job # s
                      /\ \A i \in 1 .. Len(channel) : channel[i] # s
    BY DEF BusyNeverWrites
  <2>1. s[2] \notin received[s[1]]
    <3>1. s[1] \in Callers /\ s = <<s[1], s[2]>>
      OBVIOUS
    <3> QED
      BY <3>1 DEF RecordedOnce, RecordedOnceFor
  <2>2. job # s
    BY SentinelAssumption DEF JobHeld, Submissions
  <2>3. \A i \in 1 .. Len(channel) : channel[i] # s
    BY SentinelAssumption DEF ChannelHolds, Submissions
  <2> QED
    BY <2>1, <2>2, <2>3
<1>2. ReceiptRecordedOnce
  <2> SUFFICES ASSUME NEW c \in Callers, NEW k \in 1 .. MaxTries
               PROVE  /\ answer[<<c, k>>] = "received" => received[c] = {k}
                      /\ answer[<<c, k>>] = "already_received" =>
                           \E l \in 1 .. k - 1 :
                              /\ l \in received[c]
                              /\ answer[<<c, l>>] = "receipt_result_unknown"
    BY DEF ReceiptRecordedOnce, RecordedOnce, RecordedOnceFor
  <2>1. ASSUME answer[<<c, k>>] = "received"
        PROVE  received[c] = {k}
    BY <2>1 DEF AnswersAreRecorded, RecordedOnce, RecordedOnceFor
  <2>2. ASSUME answer[<<c, k>>] = "already_received"
        PROVE  \E l \in 1 .. k - 1 :
                  /\ l \in received[c]
                  /\ answer[<<c, l>>] = "receipt_result_unknown"
    <3>1. PICK l \in received[c] : l < k
      BY <2>2 DEF AnswersAreRecorded
    <3>2. l \in 1 .. MaxTries /\ l \in 1 .. k - 1
      BY <3>1
    <3>3. answer[<<c, l>>] \in {"none", "receipt_result_unknown", "received"}
      BY <3>1 DEF RecordedOnce, RecordedOnceFor
    <3>4. k = tries[c]
      BY <2>2 DEF AnswersFollowTries, FollowsTries
    <3>5. answer[<<c, l>>] \notin {"none", "received"}
      <4>1. FollowsTries(c, l) /\ l < tries[c] /\ tries[c] \in Nat
        BY <3>2, <3>4 DEF AnswersFollowTries
      <4> QED
        BY <3>2, <4>1 DEF FollowsTries
    <3> QED
      BY <3>1, <3>2, <3>3, <3>5
  <2> QED
    BY <2>1, <2>2
<1> QED
  BY <1>1, <1>2 DEF ToldIsTrue

\* The receipt worker is well typed, with any callers, any capacity and any
\* number of tries.
THEOREM TypeCorrect == Spec => []TypeOK
<1>1. IInv => TypeOK
  BY DEF IInv, ControlInv
<1> QED
  BY <1>1, Invariance, PTL

\* pause returns true only when no receipt is on its way to the database: the
\* queued counter agrees with callers, channel and worker, and behind an
\* acknowledged pause nothing is taken, handed over or run.
THEOREM PauseHolds == Spec => []PauseIsQuiescent
BY Invariance, IInvPause, PTL

\* Busy means never written, received means written by that submission, and
\* already received means written by an earlier one whose caller was told the
\* result is unknown; the event is appended once however often it is retried.
THEOREM TellsTheTruth == Spec => []ToldIsTrue
BY Invariance, IInvTold, PTL

=============================================================================
