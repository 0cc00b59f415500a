------------------------- MODULE EmbeddingJobsProofs ------------------------
(***************************************************************************)
(* Proofs about EmbeddingJobs, for any number of jobs and workers and any  *)
(* attempt cap.                                                            *)
(***************************************************************************)
EXTENDS EmbeddingJobs, TLAPS

-----------------------------------------------------------------------------
(* The inductive invariant.                                                *)

\* A worker past its claim holds a job, under a token the job's attempts
\* counter has reached: a later claim always draws a larger token.
ClaimHeld ==
  \A w \in Workers :
    Executing(w) => /\ claim[w] \in Jobs
                    /\ token[w] <= attempts[claim[w]]

\* Where the attempts bound is strict: a job that may be claimed again, or be
\* recovered without a further lease expiry, has an attempt to spare.
AttemptToSpare ==
  \A j \in Jobs :
    /\ status[j] = "absent" => attempts[j] = 0
    /\ status[j] = "pending" => attempts[j] < MaxAttempts + leases[j]
    /\ status[j] = "running" /\ stale[j] =>
         attempts[j] < MaxAttempts + leases[j]

IInv ==
  /\ TypeOK
  /\ VectorIffDone
  /\ AttemptsBounded
  /\ AttemptToSpare
  /\ ClaimHeld
  /\ ClaimTokensDistinct

-----------------------------------------------------------------------------
\* The initial states satisfy the inductive invariant.
LEMMA InitIInv == Init => IInv
BY MaxAttemptsAssumption, NoJobAssumption
   DEF Init, IInv, TypeOK, VectorIffDone, AttemptsBounded, AttemptToSpare,
       ClaimHeld, ClaimTokensDistinct, Executing, Phases

\* What recover_running_jobs does to the invariant, whoever runs it.
LEMMA ResetStaleIInv ==
  ASSUME IInv, ResetStale, UNCHANGED <<claim, token>>,
         \A w \in Workers : Executing(w)' => Executing(w),
         phase' \in [Workers -> Phases], batch' \in [Workers -> SUBSET Jobs]
  PROVE  IInv'
<1> USE MaxAttemptsAssumption DEF IInv, ResetStale
<1>1. TypeOK'
  BY DEF TypeOK
<1>2. VectorIffDone'
  BY DEF TypeOK, VectorIffDone
<1>3. AttemptsBounded' /\ AttemptToSpare'
  BY DEF TypeOK, AttemptsBounded, AttemptToSpare
<1>4. ClaimHeld' /\ ClaimTokensDistinct'
  BY DEF ClaimHeld, ClaimTokensDistinct
<1> QED
  BY <1>1, <1>2, <1>3, <1>4

\* Steps that leave the jobs alone and start no execution.
LEMMA QuietIInv ==
  ASSUME IInv, UNCHANGED jobVars,
         \A w \in Workers :
           Executing(w)' => /\ Executing(w)
                            /\ claim'[w] = claim[w]
                            /\ token'[w] = token[w],
         phase' \in [Workers -> Phases], batch' \in [Workers -> SUBSET Jobs],
         claim' \in [Workers -> Jobs \cup {NoJob}], token' \in [Workers -> Nat]
  PROVE  IInv'
<1> USE DEF IInv, jobVars
<1>1. TypeOK' /\ VectorIffDone' /\ AttemptsBounded' /\ AttemptToSpare'
  BY DEF TypeOK, VectorIffDone, AttemptsBounded, AttemptToSpare
<1>2. ClaimHeld' /\ ClaimTokensDistinct'
  BY DEF ClaimHeld, ClaimTokensDistinct
<1> QED
  BY <1>1, <1>2

\* Claiming a runnable job.
LEMMA ClaimIInv ==
  ASSUME IInv, NEW w \in Workers, NEW j \in Jobs, Claim(w, j)
  PROVE  IInv'
<1> USE MaxAttemptsAssumption DEF IInv, Claim, Runnable, Goto
<1>1. TypeOK'
  BY DEF TypeOK, Phases
<1>2. VectorIffDone'
  BY DEF TypeOK, VectorIffDone
<1>3. AttemptsBounded' /\ AttemptToSpare'
  BY DEF TypeOK, AttemptsBounded, AttemptToSpare
<1>4. ClaimHeld'
  BY DEF TypeOK, ClaimHeld, Executing
<1>5. ClaimTokensDistinct'
  BY DEF TypeOK, ClaimHeld, ClaimTokensDistinct, Executing
<1> QED
  BY <1>1, <1>2, <1>3, <1>4, <1>5

\* Completing or failing a claim: only the current claim changes its job.
LEMMA CompletionIInv ==
  ASSUME IInv, NEW w \in Workers, WriteEmbedding(w) \/ MarkJobFailed(w)
  PROVE  IInv'
<1> USE DEF IInv, WriteEmbedding, MarkJobFailed, Release, Goto, Owns
<1>0. claim[w] \in Jobs
  BY DEF ClaimHeld, Executing
<1>1. TypeOK'
  BY <1>0 DEF TypeOK, Phases
<1>2. VectorIffDone'
  <2> SUFFICES ASSUME NEW j \in Jobs
               PROVE  vectors'[j] = IF status'[j] = "done"
                                    THEN {attempts'[j]} ELSE {}
    BY DEF VectorIffDone
  <2>1. CASE j = claim[w] /\ Owns(w)
    <3>1. /\ vectors[j] = {} /\ token[w] = attempts[j]
          /\ attempts'[j] = attempts[j]
      BY <2>1 DEF VectorIffDone
    <3>2. CASE WriteEmbedding(w)
      <4>1. status'[j] = "done" /\ vectors'[j] = vectors[j] \cup {token[w]}
        BY <1>0, <2>1, <3>2 DEF TypeOK
      <4> QED
        BY <3>1, <4>1
    <3>3. CASE MarkJobFailed(w)
      BY <1>0, <2>1, <3>1, <3>3 DEF TypeOK
    <3> QED
      BY <3>2, <3>3
  <2>2. CASE ~(j = claim[w] /\ Owns(w))
    BY <1>0, <2>2 DEF TypeOK, VectorIffDone
  <2> QED
    BY <2>1, <2>2
<1>3. AttemptsBounded' /\ AttemptToSpare'
  BY <1>0 DEF TypeOK, AttemptsBounded, AttemptToSpare
<1>4. ClaimHeld' /\ ClaimTokensDistinct'
  BY DEF TypeOK, ClaimHeld, ClaimTokensDistinct, Executing
<1> QED
  BY <1>1, <1>2, <1>3, <1>4

\* Every step preserves the inductive invariant.
LEMMA NextIInv == IInv /\ [Next]_vars => IInv'
<1> SUFFICES ASSUME IInv, [Next]_vars
             PROVE  IInv'
  OBVIOUS
<1> USE DEF Goto, Executing, Phases
<1>1. ASSUME NEW w \in Workers, StartWorker(w)
      PROVE  IInv'
  BY <1>1, QuietIInv DEF StartWorker, IInv, TypeOK
<1>2. ASSUME NEW w \in Workers, StartupRecover(w)
      PROVE  IInv'
  <2>1. CASE ResetStale
    BY <1>2, <2>1, ResetStaleIInv DEF StartupRecover, IInv, TypeOK, Missing
  <2>2. CASE UNCHANGED jobVars
    BY <1>2, <2>2, QuietIInv DEF StartupRecover, IInv, TypeOK, Missing
  <2> QED
    BY <1>2, <2>1, <2>2 DEF StartupRecover
<1>3. ASSUME NEW w \in Workers, NEW j \in Jobs, BackfillOne(w, j)
      PROVE  IInv'
  <2> USE <1>3, MaxAttemptsAssumption DEF IInv, BackfillOne
  <2>1. TypeOK'
    BY DEF TypeOK
  <2>2. VectorIffDone'
    BY DEF TypeOK, VectorIffDone
  <2>3. AttemptsBounded' /\ AttemptToSpare'
    BY DEF TypeOK, AttemptsBounded, AttemptToSpare
  <2>4. ClaimHeld' /\ ClaimTokensDistinct'
    BY DEF ClaimHeld, ClaimTokensDistinct
  <2> QED
    BY <2>1, <2>2, <2>3, <2>4
<1>4. ASSUME NEW w \in Workers, EndBackfill(w)
      PROVE  IInv'
  BY <1>4, QuietIInv DEF EndBackfill, IInv, TypeOK
<1>5. ASSUME NEW w \in Workers, PollRecover(w)
      PROVE  IInv'
  BY <1>5, ResetStaleIInv DEF PollRecover, workerVars, IInv, TypeOK
<1>6. ASSUME NEW w \in Workers, SelectBatch(w)
      PROVE  IInv'
  BY <1>6, QuietIInv DEF SelectBatch, IInv, TypeOK
<1>7. ASSUME NEW w \in Workers, NEW j \in Jobs, Claim(w, j)
      PROVE  IInv'
  BY <1>7, ClaimIInv
<1>8. ASSUME NEW w \in Workers, NEW j \in Jobs, SkipTaken(w, j)
      PROVE  IInv'
  BY <1>8, QuietIInv DEF SkipTaken, IInv, TypeOK
<1>9. ASSUME NEW w \in Workers, EndBatch(w) \/ AbortBatch(w)
      PROVE  IInv'
  BY <1>9, QuietIInv DEF EndBatch, AbortBatch, IInv, TypeOK
<1>10. ASSUME NEW w \in Workers, WriteEmbedding(w) \/ MarkJobFailed(w)
       PROVE  IInv'
  BY <1>10, CompletionIInv
<1>11. ASSUME NEW w \in Workers, JobFails(w)
       PROVE  IInv'
  BY <1>11, QuietIInv DEF JobFails, IInv, TypeOK
<1>12. ASSUME NEW w \in Workers, MarkJobFailedLost(w)
       PROVE  IInv'
  BY <1>12, QuietIInv DEF MarkJobFailedLost, Release, IInv, TypeOK
<1>13. ASSUME NEW w \in Workers, CrashWorker(w)
       PROVE  IInv'
  BY <1>13, QuietIInv DEF CrashWorker, IInv, TypeOK
<1>14. ASSUME NEW j \in Jobs, LeaseExpires(j)
       PROVE  IInv'
  <2> USE <1>14, MaxAttemptsAssumption DEF IInv, LeaseExpires, workerVars
  <2>1. TypeOK' /\ VectorIffDone'
    BY DEF TypeOK, VectorIffDone
  <2>2. AttemptsBounded' /\ AttemptToSpare'
    BY DEF TypeOK, AttemptsBounded, AttemptToSpare
  <2>3. ClaimHeld' /\ ClaimTokensDistinct'
    BY DEF ClaimHeld, ClaimTokensDistinct
  <2> QED
    BY <2>1, <2>2, <2>3
<1>15. CASE UNCHANGED vars
  BY <1>15, QuietIInv DEF vars, jobVars, IInv, TypeOK
<1> QED
  BY <1>1, <1>2, <1>3, <1>4, <1>5, <1>6, <1>7, <1>8, <1>9, <1>10, <1>11,
     <1>12, <1>13, <1>14, <1>15
  DEF Next, WorkerStep

-----------------------------------------------------------------------------
(* The theorems.                                                           *)

\* The inductive invariant holds in every reachable state.
LEMMA SpecIInv == Spec => []IInv
BY InitIInv, NextIInv, PTL DEF Spec

\* Type correctness.
THEOREM TypeCorrect == Spec => []TypeOK
<1>1. IInv => TypeOK
  BY DEF IInv
<1> QED
  BY <1>1, SpecIInv, PTL

\* However many workers share the store, and however long one of them stalls,
\* a job's vector is the one of its completing claim, and nothing else is ever
\* stored for it.
THEOREM VectorsMatchJobs == Spec => []VectorIffDone
<1>1. IInv => VectorIffDone
  BY DEF IInv
<1> QED
  BY <1>1, SpecIInv, PTL

\* The attempts column is a sound ownership token.
THEOREM TokensDistinct == Spec => []ClaimTokensDistinct
<1>1. IInv => ClaimTokensDistinct
  BY DEF IInv
<1> QED
  BY <1>1, SpecIInv, PTL

\* The attempt cap holds, one extra attempt per expired lease included.
THEOREM AttemptCap == Spec => []AttemptsBounded
<1>1. IInv => AttemptsBounded
  BY DEF IInv
<1> QED
  BY <1>1, SpecIInv, PTL

\* A claim inside its lease is ended by its holder only: nobody else's late
\* completion, failure or recovery reaches it.
THEOREM LeaseIsExclusive == Spec => LeaseProtectsClaim
<1>1. ASSUME IInv, [Next]_vars
      PROVE  ClaimStaysOrIsReleased
  <2> SUFFICES ASSUME NEW w \in Workers, Executing(w), Owns(w),
                      ~stale[claim[w]], claim'[w] = claim[w]
               PROVE  status'[claim[w]] = "running"
    BY DEF ClaimStaysOrIsReleased
  <2> DEFINE j == claim[w]
  <2>0. j \in Jobs /\ status[j] = "running" /\ j # NoJob
    BY <1>1, NoJobAssumption DEF IInv, ClaimHeld, Owns
  <2>1. ASSUME NEW v \in Workers, StartWorker(v) \/ EndBackfill(v)
                 \/ SelectBatch(v) \/ EndBatch(v) \/ AbortBatch(v)
                 \/ JobFails(v) \/ MarkJobFailedLost(v) \/ CrashWorker(v)
        PROVE  status'[j] = "running"
    BY <2>0, <2>1 DEF StartWorker, EndBackfill, SelectBatch, EndBatch,
       AbortBatch, JobFails, MarkJobFailedLost, CrashWorker, jobVars
  <2>2. ASSUME NEW v \in Workers, StartupRecover(v) \/ PollRecover(v)
        PROVE  status'[j] = "running"
    BY <2>0, <2>2 DEF StartupRecover, PollRecover, ResetStale, jobVars
  <2>3. ASSUME NEW v \in Workers, NEW k \in Jobs,
               BackfillOne(v, k) \/ Claim(v, k) \/ SkipTaken(v, k)
        PROVE  status'[j] = "running"
    BY <1>1, <2>0, <2>3
       DEF BackfillOne, Claim, SkipTaken, jobVars, IInv, TypeOK
  <2>4. ASSUME NEW v \in Workers, WriteEmbedding(v) \/ MarkJobFailed(v)
        PROVE  status'[j] = "running"
    <3>1. CASE v = w
      BY <1>1, <2>0, <2>4, <3>1
         DEF WriteEmbedding, MarkJobFailed, Release, IInv, TypeOK
    <3>2. CASE v # w /\ claim[v] = claim[w]
      <4>1. ~Owns(v)
        BY <1>1, <2>4, <3>2 DEF IInv, ClaimTokensDistinct, Executing, Owns,
           WriteEmbedding, MarkJobFailed
      <4> QED
        BY <2>0, <2>4, <4>1 DEF WriteEmbedding, MarkJobFailed
    <3>3. CASE claim[v] # claim[w]
      BY <1>1, <2>0, <2>4, <3>3
         DEF WriteEmbedding, MarkJobFailed, IInv, TypeOK
    <3> QED
      BY <3>1, <3>2, <3>3
  <2>5. ASSUME NEW k \in Jobs, LeaseExpires(k)
        PROVE  status'[j] = "running"
    BY <2>0, <2>5 DEF LeaseExpires
  <2>6. CASE UNCHANGED vars
    BY <2>0, <2>6 DEF vars
  <2> QED
    BY <1>1, <2>1, <2>2, <2>3, <2>4, <2>5, <2>6 DEF Next, WorkerStep
<1> QED
  BY <1>1, SpecIInv, PTL DEF Spec, LeaseProtectsClaim

\* Done, and failed at the cap, are final: no recovery, backfill, retry or late
\* result touches such a job again.
THEOREM FinalIsFinal == Spec => FinalJobsStay
<1>1. ASSUME IInv, [Next]_vars
      PROVE  FinalJobsUnchanged
  <2> SUFFICES ASSUME NEW j \in Jobs,
                      \/ status[j] = "done"
                      \/ status[j] = "failed" /\ attempts[j] >= MaxAttempts
               PROVE  status'[j] = status[j] /\ attempts'[j] = attempts[j]
    BY DEF FinalJobsUnchanged
  <2> USE <1>1 DEF IInv
  <2>1. ASSUME NEW v \in Workers, StartWorker(v) \/ EndBackfill(v)
                 \/ SelectBatch(v) \/ EndBatch(v) \/ AbortBatch(v)
                 \/ JobFails(v) \/ MarkJobFailedLost(v) \/ CrashWorker(v)
        PROVE  status'[j] = status[j] /\ attempts'[j] = attempts[j]
    BY <2>1 DEF StartWorker, EndBackfill, SelectBatch, EndBatch,
       AbortBatch, JobFails, MarkJobFailedLost, CrashWorker, jobVars
  <2>2. ASSUME NEW v \in Workers, StartupRecover(v) \/ PollRecover(v)
        PROVE  status'[j] = status[j] /\ attempts'[j] = attempts[j]
    BY <2>2 DEF StartupRecover, PollRecover, ResetStale, jobVars
  <2>3. ASSUME NEW v \in Workers, NEW k \in Jobs,
               BackfillOne(v, k) \/ Claim(v, k) \/ SkipTaken(v, k)
        PROVE  status'[j] = status[j] /\ attempts'[j] = attempts[j]
    BY <2>3, MaxAttemptsAssumption
       DEF BackfillOne, Claim, SkipTaken, Runnable, jobVars, TypeOK
  <2>4. ASSUME NEW v \in Workers, WriteEmbedding(v) \/ MarkJobFailed(v)
        PROVE  status'[j] = status[j] /\ attempts'[j] = attempts[j]
    BY <2>4 DEF WriteEmbedding, MarkJobFailed, Owns, TypeOK
  <2>5. ASSUME NEW k \in Jobs, LeaseExpires(k)
        PROVE  status'[j] = status[j] /\ attempts'[j] = attempts[j]
    BY <2>5 DEF LeaseExpires
  <2>6. CASE UNCHANGED vars
    BY <2>6 DEF vars
  <2> QED
    BY <2>1, <2>2, <2>3, <2>4, <2>5, <2>6 DEF Next, WorkerStep
<1> QED
  BY <1>1, SpecIInv, PTL DEF Spec, FinalJobsStay

=============================================================================
