--------------------------- MODULE EmbeddingJobs ----------------------------
(***************************************************************************)
(* The embedding queue of the global store.  Every zynk server runs its    *)
(* own embedding worker on the one shared database, so claims, completions *)
(* and stale-claim recovery of several workers interleave, and a worker    *)
(* may crash or stall inside a provider call for longer than its lease.    *)
(* A job's attempts column doubles as the ownership token of a claim.      *)
(* One job per message: the model id is fixed and (message_id, model_id)   *)
(* is UNIQUE.                                                              *)
(***************************************************************************)
EXTENDS Naturals

CONSTANTS Jobs,         \* messages, each with at most one embedding job
          Workers,      \* one embedding worker per server process
          NoJob,        \* the claim of a worker that holds none
          MaxAttempts,  \* MAX_ATTEMPTS
          MaxLeases     \* bound: how often a job's lease runs out

ASSUME NoJobAssumption == NoJob \notin Jobs
ASSUME MaxAttemptsAssumption == MaxAttempts \in Nat \ {0}
ASSUME MaxLeasesAssumption == MaxLeases \in Nat

VARIABLES
  status,    \* embedding_jobs.status, or "absent" without a row
  attempts,  \* embedding_jobs.attempts
  stale,     \* started_at is older than RUNNING_LEASE
  vectors,   \* vectors[j]: tokens of the claims whose vector was committed
  phase,     \* phase[w]: where the worker loop is
  batch,     \* batch[w]: job ids a SELECT returned and the loop has left
  claim,     \* claim[w]: the job w is executing
  token,     \* token[w]: the attempts value w's claim returned
  leases     \* history: leases[j] counts the leases of j that ran out

jobVars == <<status, attempts, stale, vectors, leases>>
workerVars == <<phase, batch, claim, token>>
vars == <<status, attempts, stale, vectors, phase, batch, claim, token, leases>>

Phases == {"down", "starting", "backfill", "idle", "batch", "embedding",
           "failing"}

\* Inside process_one_job, past the claim.
Executing(w) == phase[w] \in {"embedding", "failing"}

Missing == {j \in Jobs : status[j] = "absent"}

RunnableUncapped(j) == status[j] \in {"pending", "failed"}

\* The predicate of the runnable SELECT and, again, of the claiming UPDATE.
Runnable(j) ==
  \/ status[j] = "pending"
  \/ status[j] = "failed" /\ attempts[j] < MaxAttempts

\* The fence of every terminal update: the job is running under this claim.
Owns(w) == status[claim[w]] = "running" /\ attempts[claim[w]] = token[w]

-----------------------------------------------------------------------------
\* A job of a fresh message is enqueued in the send's own transaction; a
\* message of an older store has none until backfill.
Init ==
  /\ status \in [Jobs -> {"absent", "pending"}]
  /\ attempts = [j \in Jobs |-> 0]
  /\ stale = [j \in Jobs |-> FALSE]
  /\ vectors = [j \in Jobs |-> {}]
  /\ leases = [j \in Jobs |-> 0]
  /\ phase = [w \in Workers |-> "down"]
  /\ batch = [w \in Workers |-> {}]
  /\ claim = [w \in Workers |-> NoJob]
  /\ token = [w \in Workers |-> 0]

Goto(w, p) == phase' = [phase EXCEPT ![w] = p]

-----------------------------------------------------------------------------
(* Startup: recover stale claims, then backfill, then poll.                *)

\* spawn: the embedder, the connection and the vec0 table are ready.
StartWorker(w) ==
  /\ phase[w] = "down"
  /\ Goto(w, "starting")
  /\ UNCHANGED <<jobVars, batch, claim, token>>

ResetStaleAll ==
  /\ status' = [j \in Jobs |-> IF status[j] = "running" THEN "pending"
                                                        ELSE status[j]]
  /\ stale' = [j \in Jobs |-> stale[j] /\ status[j] # "running"]
  /\ UNCHANGED <<attempts, vectors, leases>>

ResetStaleToken ==
  /\ status' = [j \in Jobs |->
                  IF status[j] = "running" /\ stale[j] THEN "pending"
                                                       ELSE status[j]]
  /\ stale' = [j \in Jobs |-> stale[j] /\ status[j] # "running"]
  /\ attempts' = [j \in Jobs |->
                  IF status[j] = "running" /\ stale[j] THEN attempts[j] - 1
                                                       ELSE attempts[j]]
  /\ UNCHANGED <<vectors, leases>>

ResetStaleOrFailed ==
  /\ status' = [j \in Jobs |->
                  IF \/ status[j] = "running" /\ stale[j]
                     \/ status[j] = "failed"
                  THEN "pending" ELSE status[j]]
  /\ stale' = [j \in Jobs |-> stale[j] /\ status[j] # "running"]
  /\ UNCHANGED <<attempts, vectors, leases>>

\* recover_running_jobs: one UPDATE resets every stale running job.
ResetStale ==
  /\ status' = [j \in Jobs |->
                  IF status[j] = "running" /\ stale[j] THEN "pending"
                                                       ELSE status[j]]
  /\ stale' = [j \in Jobs |-> stale[j] /\ status[j] # "running"]
  /\ UNCHANGED <<attempts, vectors, leases>>

\* Startup recovery is best-effort; either way backfill selects next.
StartupRecover(w) ==
  /\ phase[w] = "starting"
  /\ ResetStale \/ UNCHANGED jobVars
  /\ Goto(w, "backfill")
  /\ batch' = [batch EXCEPT ![w] = Missing']
  /\ UNCHANGED <<claim, token>>

\* INSERT OR IGNORE of one selected message; a peer may have enqueued it.
BackfillOne(w, j) ==
  /\ phase[w] = "backfill"
  /\ j \in batch[w]
  /\ batch' = [batch EXCEPT ![w] = @ \ {j}]
  /\ status' = [status EXCEPT ![j] = IF @ = "absent" THEN "pending" ELSE @]
  /\ UNCHANGED <<attempts, stale, vectors, leases, phase, claim, token>>

\* A pass enqueued nothing more, or failed: the poll loop begins.
EndBackfill(w) ==
  /\ phase[w] = "backfill"
  /\ Goto(w, "idle")
  /\ batch' = [batch EXCEPT ![w] = {}]
  /\ UNCHANGED <<jobVars, claim, token>>

-----------------------------------------------------------------------------
(* The poll loop.                                                          *)

PollRecoverNothing(w) ==
  /\ phase[w] = "idle"
  /\ UNCHANGED vars

\* RECOVERY_INTERVAL elapsed before this poll.
PollRecover(w) ==
  /\ phase[w] = "idle"
  /\ ResetStale
  /\ UNCHANGED workerVars

\* process_pending_batch selects the runnable jobs.  PROCESS_BATCH is taken to
\* be no smaller than Jobs, and the order within a batch is left open.
SelectBatch(w) ==
  /\ phase[w] = "idle"
  /\ \E j \in Jobs : Runnable(j)
  /\ Goto(w, "batch")
  /\ batch' = [batch EXCEPT ![w] = {j \in Jobs : Runnable(j)}]
  /\ UNCHANGED <<jobVars, claim, token>>

ClaimOldToken(w, j) ==
  /\ phase[w] = "batch"
  /\ j \in batch[w]
  /\ batch' = [batch EXCEPT ![w] = @ \ {j}]
  /\ Runnable(j)
  /\ status' = [status EXCEPT ![j] = "running"]
  /\ attempts' = [attempts EXCEPT ![j] = @ + 1]
  /\ stale' = [stale EXCEPT ![j] = FALSE]
  /\ claim' = [claim EXCEPT ![w] = j]
  /\ token' = [token EXCEPT ![w] = attempts[j] - 1]
  /\ Goto(w, "embedding")
  /\ UNCHANGED <<vectors, leases>>

\* The claiming UPDATE found the job still runnable.
Claim(w, j) ==
  /\ phase[w] = "batch"
  /\ j \in batch[w]
  /\ batch' = [batch EXCEPT ![w] = @ \ {j}]
  /\ Runnable(j)
  /\ status' = [status EXCEPT ![j] = "running"]
  /\ attempts' = [attempts EXCEPT ![j] = @ + 1]
  /\ stale' = [stale EXCEPT ![j] = FALSE]
  /\ claim' = [claim EXCEPT ![w] = j]
  /\ token' = [token EXCEPT ![w] = attempts[j] + 1]
  /\ Goto(w, "embedding")
  /\ UNCHANGED <<vectors, leases>>

\* The claiming UPDATE matched no row: another worker has the job.
SkipTaken(w, j) ==
  /\ phase[w] = "batch"
  /\ j \in batch[w]
  /\ ~Runnable(j)
  /\ batch' = [batch EXCEPT ![w] = @ \ {j}]
  /\ UNCHANGED <<jobVars, phase, claim, token>>

\* The batch is exhausted.
EndBatch(w) ==
  /\ phase[w] = "batch"
  /\ batch[w] = {}
  /\ Goto(w, "idle")
  /\ UNCHANGED <<jobVars, batch, claim, token>>

\* A claiming UPDATE failed on a store error: the rest waits for the next poll.
AbortBatch(w) ==
  /\ phase[w] = "batch"
  /\ Goto(w, "idle")
  /\ batch' = [batch EXCEPT ![w] = {}]
  /\ UNCHANGED <<jobVars, claim, token>>

Release(w) ==
  /\ Goto(w, "batch")
  /\ claim' = [claim EXCEPT ![w] = NoJob]
  /\ token' = [token EXCEPT ![w] = 0]
  /\ UNCHANGED batch

WriteEmbeddingUnfenced(w) ==
  /\ phase[w] = "embedding"
  /\ vectors' = [vectors EXCEPT ![claim[w]] = @ \cup {token[w]}]
  /\ IF Owns(w)
     THEN status' = [status EXCEPT ![claim[w]] = "done"]
     ELSE UNCHANGED status
  /\ UNCHANGED <<attempts, stale, leases>>
  /\ Release(w)

\* The provider answered and the write transaction committed, or found the
\* claim stale and rolled back.
WriteEmbedding(w) ==
  /\ phase[w] = "embedding"
  /\ IF Owns(w)
     THEN /\ status' = [status EXCEPT ![claim[w]] = "done"]
          /\ vectors' = [vectors EXCEPT ![claim[w]] = @ \cup {token[w]}]
     ELSE UNCHANGED <<status, vectors>>
  /\ UNCHANGED <<attempts, stale, leases>>
  /\ Release(w)

\* A missing message, a provider error, a bad vector or a store error.
JobFails(w) ==
  /\ phase[w] = "embedding"
  /\ Goto(w, "failing")
  /\ UNCHANGED <<jobVars, batch, claim, token>>

\* mark_job_failed: fenced like the completion.
MarkJobFailed(w) ==
  /\ phase[w] = "failing"
  /\ IF Owns(w)
     THEN status' = [status EXCEPT ![claim[w]] = "failed"]
     ELSE UNCHANGED status
  /\ UNCHANGED <<attempts, stale, vectors, leases>>
  /\ Release(w)

\* mark_job_failed swallows a store error of its own.
MarkJobFailedLost(w) ==
  /\ phase[w] = "failing"
  /\ UNCHANGED jobVars
  /\ Release(w)

CrashWorker(w) ==
  /\ phase[w] # "down"
  /\ Goto(w, "down")
  /\ batch' = [batch EXCEPT ![w] = {}]
  /\ claim' = [claim EXCEPT ![w] = NoJob]
  /\ token' = [token EXCEPT ![w] = 0]
  /\ UNCHANGED jobVars

\* RUNNING_LEASE passes after started_at, whether or not the worker lives.
LeaseExpires(j) ==
  /\ status[j] = "running"
  /\ ~stale[j]
  /\ leases[j] < MaxLeases
  /\ stale' = [stale EXCEPT ![j] = TRUE]
  /\ leases' = [leases EXCEPT ![j] = @ + 1]
  /\ UNCHANGED <<status, attempts, vectors, workerVars>>

-----------------------------------------------------------------------------
WorkerStep(w) ==
  \/ StartupRecover(w) \/ EndBackfill(w)
  \/ PollRecover(w) \/ SelectBatch(w) \/ EndBatch(w) \/ AbortBatch(w)
  \/ WriteEmbedding(w) \/ JobFails(w)
  \/ MarkJobFailed(w) \/ MarkJobFailedLost(w)
  \/ \E j \in Jobs : BackfillOne(w, j) \/ Claim(w, j) \/ SkipTaken(w, j)

Next ==
  \/ \E w \in Workers : StartWorker(w) \/ WorkerStep(w) \/ CrashWorker(w)
  \/ \E j \in Jobs : LeaseExpires(j)

Spec == Init /\ [][Next]_vars

-----------------------------------------------------------------------------
(* Fairness.  A live worker keeps stepping, time passes, the recovery      *)
(* timer comes due in some poll, and a claim that is retried at every poll *)
(* is not defeated by a store error each time.  Starts, crashes and errors *)
(* are never required.                                                     *)

Fairness ==
  /\ \A w \in Workers : /\ WF_vars(WorkerStep(w))
                         /\ SF_vars(PollRecover(w))
                         /\ \A j \in Jobs : SF_vars(Claim(w, j))
  /\ \A j \in Jobs : WF_vars(LeaseExpires(j))

FairSpec == Spec /\ Fairness

-----------------------------------------------------------------------------
(* Properties.                                                             *)

\* Every variable has its type.
TypeOK ==
  /\ status \in [Jobs -> {"absent", "pending", "running", "done", "failed"}]
  /\ attempts \in [Jobs -> Nat]
  /\ stale \in [Jobs -> BOOLEAN]
  /\ vectors \in [Jobs -> SUBSET Nat]
  /\ leases \in [Jobs -> Nat]
  /\ phase \in [Workers -> Phases]
  /\ batch \in [Workers -> SUBSET Jobs]
  /\ claim \in [Workers -> Jobs \cup {NoJob}]
  /\ token \in [Workers -> Nat]

\* No two workers ever hold the same claim of a job, even when one of them
\* stalled past its lease and the job was recovered and claimed again: the
\* attempts token tells every pair of executions apart.
ClaimTokensDistinct ==
  \A v, w \in Workers :
    v # w /\ Executing(v) /\ Executing(w) /\ claim[v] = claim[w]
      => token[v] # token[w]

\* A job is done exactly when one vector was committed for it, by the claim
\* that was current at the time: a late result of a stale claim leaves no
\* vector behind, and no failed or re-queued job sits beside a live vector.
VectorIffDone ==
  \A j \in Jobs :
    vectors[j] = IF status[j] = "done" THEN {attempts[j]} ELSE {}

\* The provider is called for a job at most MaxAttempts times plus once for
\* every lease that ran out (the bound ADR 0011 states for the attempt cap).
AttemptsBounded == \A j \in Jobs : attempts[j] <= MaxAttempts + leases[j]

\* A current claim inside its lease keeps its job running in this step, or its
\* own holder gives it up.
ClaimStaysOrIsReleased ==
  \A w \in Workers :
    Executing(w) /\ Owns(w) /\ ~stale[claim[w]]
      => status'[claim[w]] = "running" \/ claim'[w] # claim[w]

\* A job inside its lease is never taken from the worker that executes it: as
\* long as the lease holds, only the claim's own holder ends the running state.
LeaseProtectsClaim == [][ClaimStaysOrIsReleased]_vars

\* This step leaves the finished jobs alone.
FinalJobsUnchanged ==
  \A j \in Jobs :
    status[j] = "done" \/ (status[j] = "failed" /\ attempts[j] >= MaxAttempts)
      => status'[j] = status[j] /\ attempts'[j] = attempts[j]

\* Done is final, and so is failed at the attempt cap, whatever a stalled
\* worker, a recovery or a backfill that selected the job earlier still does.
FinalJobsStay == [][FinalJobsUnchanged]_vars

\* If some worker stays up, every enqueued job is eventually embedded or fails
\* for good, whatever crashed, stalled or lost its failure record on the way
\* (unless the job used up the modelled lease expiries).
JobSettles ==
  (\E w \in Workers : <>[](phase[w] # "down"))
    => \A j \in Jobs :
         status[j] = "pending" ~>
           \/ status[j] = "done"
           \/ status[j] = "failed" /\ attempts[j] >= MaxAttempts
           \/ leases[j] = MaxLeases

=============================================================================
