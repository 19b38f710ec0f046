------------------------------ MODULE JobQueue ------------------------------
(***************************************************************************)
(* The durable run queue of CloudService (packages/cloud-core): a          *)
(* benchmark run, the one job that executes it, the runners that lease     *)
(* jobs, and the credential a claim issues.  Every operation is one        *)
(* PostgreSQL transaction at READ COMMITTED.  The row locks taken make     *)
(* each of them atomic, with one exception: claimJob reads the runner      *)
(* without locking it, so a claim is two steps here, the SELECT that       *)
(* locks the job row and the writes that commit.                           *)
(*                                                                         *)
(* Time is abstract.  lease_expires_at, available_at and the expiry of a   *)
(* credential are compared with the clock and nothing else, so each is     *)
(* kept as the outcome of that comparison and a step of its own makes it   *)
(* pass.  attempt_count is only compared with max_attempts and saturates   *)
(* there.  Requirements are {} for every job created here and match every  *)
(* runner; HostedCompute adds the ones that do not.                        *)
(***************************************************************************)
EXTENDS Naturals, FiniteSets

CONSTANTS
  MaxRuns,      \* how many runs may be created; run ids are in creation order
  Runners,      \* identities a runner may register under
  Keys,         \* idempotency keys of create-run requests
  Results,      \* canonical results, told apart by their content hash
  MaxAttempts,  \* jobs.max_attempts
  None          \* SQL NULL

Runs == 1 .. MaxRuns

ASSUME ConstantsAssumption ==
  /\ MaxRuns \in Nat
  /\ MaxAttempts \in Nat \ {0}
  /\ None \notin Runners \cup Results \cup Runs
  /\ "action" \notin Runners \cup {None}

VARIABLES
  runState,     \* benchmark_runs.state, "ABSENT" before the row is inserted
  runRunner,    \* benchmark_runs.runner_id
  runResult,    \* benchmark_runs.result_hash
  jobState,     \* jobs.state of the run's job
  leaseOwner,   \* jobs.lease_owner
  leaseLive,    \* jobs.lease_expires_at > now
  extended,     \* the lease was moved past the expiry of its credential
  available,    \* jobs.available_at <= now
  attempts,     \* jobs.attempt_count, saturated at MaxAttempts
  credential,   \* runners with an unexpired job credential for the run's job
  runnerState,  \* runners.state, "ABSENT" before registration
  idempotency,  \* the run a key's idempotency row names, None without a row
  claiming,     \* the run whose job row a runner's open claim has locked
  author,       \* auxiliary: who delivered the stored result
  failures      \* auxiliary: how often failJob accepted a report for the job

runVars == <<runState, runRunner, runResult, author>>
leaseVars == <<leaseOwner, leaseLive, extended>>
jobVars == <<jobState, leaseVars, available, attempts, credential, failures>>
vars == <<runVars, jobVars, runnerState, idempotency, claiming>>

RunStates == {"ABSENT", "QUEUED", "RUNNING", "COMPLETED", "CANCELLED"}
JobStates == {"ABSENT", "QUEUED", "LEASED", "SUCCEEDED", "CANCELLED",
              "DEAD_LETTER"}

TypeOK ==
  /\ runState \in [Runs -> RunStates]
  /\ runRunner \in [Runs -> Runners \cup {None}]
  /\ runResult \in [Runs -> Results \cup {None}]
  /\ jobState \in [Runs -> JobStates]
  /\ leaseOwner \in [Runs -> Runners \cup {None}]
  /\ leaseLive \in [Runs -> BOOLEAN]
  /\ extended \in [Runs -> BOOLEAN]
  /\ available \in [Runs -> BOOLEAN]
  /\ attempts \in [Runs -> 0 .. MaxAttempts]
  /\ credential \in [Runs -> SUBSET Runners]
  /\ runnerState \in [Runners -> {"ABSENT", "ACTIVE", "REVOKED"}]
  /\ idempotency \in [Keys -> Runs \cup {None}]
  /\ claiming \in [Runners -> Runs \cup {None}]
  /\ author \in [Runs -> Runners \cup {None, "action"}]
  /\ failures \in [Runs -> Nat]

Init ==
  /\ runState = [r \in Runs |-> "ABSENT"]
  /\ runRunner = [r \in Runs |-> None]
  /\ runResult = [r \in Runs |-> None]
  /\ jobState = [r \in Runs |-> "ABSENT"]
  /\ leaseOwner = [r \in Runs |-> None]
  /\ leaseLive = [r \in Runs |-> FALSE]
  /\ extended = [r \in Runs |-> FALSE]
  /\ available = [r \in Runs |-> FALSE]
  /\ attempts = [r \in Runs |-> 0]
  /\ credential = [r \in Runs |-> {}]
  /\ runnerState = [w \in Runners |-> "ABSENT"]
  /\ idempotency = [k \in Keys |-> None]
  /\ claiming = [w \in Runners |-> None]
  /\ author = [r \in Runs |-> None]
  /\ failures = [r \in Runs |-> 0]

-----------------------------------------------------------------------------
RunOpen(r) == runState[r] \in {"QUEUED", "RUNNING"}
JobOpen(r) == jobState[r] \in {"QUEUED", "LEASED"}

\* No open claim holds the job's row lock; every other transaction that
\* writes the row waits for the claim to end.
Unlocked(r) == \A w \in Runners : claiming[w] # r

\* A slip in that clause: no look at expired leases.
Claimable_QueuedOnly(r) ==
  jobState[r] = "QUEUED" /\ available[r] /\ Unlocked(r)

\* The WHERE clause of claimJob's SELECT, SKIP LOCKED included.
Claimable(r) ==
  /\ JobOpen(r)
  /\ available[r]
  /\ jobState[r] = "LEASED" => ~leaseLive[r]
  /\ Unlocked(r)

\* lease_owner and lease_expires_at become NULL in the job rows of S.
DropLease(S) ==
  /\ leaseOwner' = [r \in Runs |-> IF r \in S THEN None ELSE leaseOwner[r]]
  /\ leaseLive' = [r \in Runs |-> leaseLive[r] /\ r \notin S]
  /\ extended' = [r \in Runs |-> extended[r] /\ r \notin S]

\* The lookup authenticateJobCredential does for a credential of w.
CredentialAccepted(w, r) ==
  /\ w \in credential[r]
  /\ jobState[r] = "LEASED"
  /\ leaseOwner[r] = w
  /\ runnerState[w] = "ACTIVE"

-----------------------------------------------------------------------------
\* A create-run request whose key has no row yet: run, job and key row are
\* inserted together.  With a row the request is a replay, a conflict or (an
\* expired row keeps its primary key) an error, and changes nothing.
CreateRun(k, r) ==
  /\ idempotency[k] = None
  /\ runState[r] = "ABSENT"
  /\ \A q \in Runs : q < r => runState[q] # "ABSENT"
  /\ idempotency' = [idempotency EXCEPT ![k] = r]
  /\ runState' = [runState EXCEPT ![r] = "QUEUED"]
  /\ jobState' = [jobState EXCEPT ![r] = "QUEUED"]
  /\ available' = [available EXCEPT ![r] = TRUE]
  /\ UNCHANGED <<runRunner, runResult, author, leaseVars, attempts,
                 credential, failures, runnerState, claiming>>

RegisterRunner(w) ==
  /\ runnerState[w] = "ABSENT"
  /\ runnerState' = [runnerState EXCEPT ![w] = "ACTIVE"]
  /\ UNCHANGED <<runVars, jobVars, idempotency, claiming>>

\* claimJob, first statement: the oldest claimable job whose row nobody has
\* locked is locked; the runner's state is read from the snapshot.
ClaimSelect(w, r) ==
  /\ claiming[w] = None
  /\ runnerState[w] = "ACTIVE"
  /\ Claimable(r)
  /\ \A q \in Runs : q < r => ~Claimable(q)
  /\ claiming' = [claiming EXCEPT ![w] = r]
  /\ UNCHANGED <<runVars, jobVars, runnerState, idempotency>>

\* The claim's writes, with the new value of attempt_count and runner_id.
ClaimWrites(w, r, count, assignee) ==
  /\ claiming[w] = r
  /\ claiming' = [claiming EXCEPT ![w] = None]
  /\ jobState' = [jobState EXCEPT ![r] = "LEASED"]
  /\ leaseOwner' = [leaseOwner EXCEPT ![r] = w]
  /\ leaseLive' = [leaseLive EXCEPT ![r] = TRUE]
  /\ extended' = [extended EXCEPT ![r] = FALSE]
  /\ attempts' = [attempts EXCEPT ![r] = count]
  /\ runState' = [runState EXCEPT ![r] = "RUNNING"]
  /\ runRunner' = [runRunner EXCEPT ![r] = assignee]
  /\ credential' = [credential EXCEPT ![r] = @ \cup {w}]
  /\ UNCHANGED <<runResult, author, available, failures, runnerState,
                 idempotency>>

NextAttempt(r) == IF attempts[r] < MaxAttempts THEN attempts[r] + 1
                  ELSE attempts[r]

\* claimJob, the writes and the commit.  The run is set RUNNING whatever its
\* state is, and neither the runner nor max_attempts is looked at.
ClaimCommit(w, r) == ClaimWrites(w, r, NextAttempt(r), w)

\* The claim's transaction is rolled back: a deadlock with cancelRun (which
\* locks the run before the job), a lost connection, a crash.
ClaimAbort(w) ==
  /\ claiming[w] # None
  /\ claiming' = [claiming EXCEPT ![w] = None]
  /\ UNCHANGED <<runVars, jobVars, runnerState, idempotency>>

\* extendLease moves lease_expires_at and leaves the credential's expiry.
ExtendLease(w, r) ==
  /\ Unlocked(r)
  /\ jobState[r] = "LEASED"
  /\ leaseOwner[r] = w
  /\ leaseLive[r]
  /\ extended' = [extended EXCEPT ![r] = TRUE]
  /\ UNCHANGED <<runVars, jobState, leaseOwner, leaseLive, available, attempts,
                 credential, failures, runnerState, idempotency, claiming>>

\* Time passes lease_expires_at; a credential never outlives the lease.
LeaseExpires(r) ==
  /\ leaseLive[r]
  /\ leaseLive' = [leaseLive EXCEPT ![r] = FALSE]
  /\ credential' = [credential EXCEPT ![r] = @ \ {leaseOwner[r]}]
  /\ UNCHANGED <<runVars, jobState, leaseOwner, extended, available, attempts,
                 failures, runnerState, idempotency, claiming>>

\* Time passes a credential's expiry: that of an earlier claim, or of the
\* current one when its lease was extended.
CredentialExpires(w, r) ==
  /\ w \in credential[r]
  /\ leaseOwner[r] = w /\ leaseLive[r] => extended[r]
  /\ credential' = [credential EXCEPT ![r] = @ \ {w}]
  /\ UNCHANGED <<runVars, jobState, leaseVars, available, attempts, failures,
                 runnerState, idempotency, claiming>>

\* Time passes available_at.
BackoffElapses(r) ==
  /\ jobState[r] = "QUEUED"
  /\ ~available[r]
  /\ available' = [available EXCEPT ![r] = TRUE]
  /\ UNCHANGED <<runVars, jobState, leaseVars, attempts, credential, failures,
                 runnerState, idempotency, claiming>>

-----------------------------------------------------------------------------
\* A result enters the run and closes the job.
Complete(r, v, by, job) ==
  /\ runState' = [runState EXCEPT ![r] = "COMPLETED"]
  /\ runResult' = [runResult EXCEPT ![r] = v]
  /\ author' = [author EXCEPT ![r] = by]
  /\ jobState' = [jobState EXCEPT ![r] = job]
  /\ DropLease({r})
  /\ UNCHANGED <<runRunner, available, attempts, credential, failures,
                 runnerState, idempotency, claiming>>

\* A slip: the lease's owner is not looked at.
SubmitResult_AnyRunner(w, r, v) ==
  /\ Unlocked(r)
  /\ jobState[r] = "LEASED"
  /\ runnerState[w] = "ACTIVE"
  /\ Complete(r, v, w, "SUCCEEDED")

\* submitResult's write.  The request was authenticated earlier, so any runner
\* may send one for any job; replays and conflicts change nothing.  An
\* expired lease is no obstacle as long as nobody took it over.
SubmitResult(w, r, v) ==
  /\ Unlocked(r)
  /\ jobState[r] = "LEASED"
  /\ leaseOwner[r] = w
  /\ runnerState[w] = "ACTIVE"
  /\ Complete(r, v, w, "SUCCEEDED")

\* The report of the lease's owner: the job is requeued with a backoff, or
\* ends in the state given.
Fail(w, r, terminal, end) ==
  /\ Unlocked(r)
  /\ jobState[r] = "LEASED"
  /\ leaseOwner[r] = w
  /\ jobState' = [jobState EXCEPT ![r] = IF terminal THEN end ELSE "QUEUED"]
  /\ available' = [available EXCEPT ![r] = terminal /\ @]
  /\ DropLease({r})
  /\ failures' = [failures EXCEPT ![r] = @ + 1]
  /\ UNCHANGED <<runVars, attempts, credential, runnerState, idempotency,
                 claiming>>

\* Slips: off by one in the attempt limit; a state no transaction handles.
FailJob_OffByOne(w, r, retryable) ==
  Fail(w, r, ~retryable \/ attempts[r] > MaxAttempts, "DEAD_LETTER")

\* failJob: back to the queue with a backoff, or to the dead letters when the
\* error is final or the attempts are used up.  The run row is not touched.
FailJob(w, r, retryable) ==
  Fail(w, r, ~retryable \/ attempts[r] >= MaxAttempts, "DEAD_LETTER")

\* The jobs a revocation requeues: its second statement waits for claims that
\* hold one of these rows, but does not see the runner's own open claim, which
\* then leaves the job leased to a revoked runner until the lease expires.
LeasedTo(w) == {r \in Runs : jobState[r] = "LEASED" /\ leaseOwner[r] = w}

RevokeRunner(w) ==
  /\ runnerState[w] = "ACTIVE"
  /\ \A r \in LeasedTo(w) : Unlocked(r)
  /\ runnerState' = [runnerState EXCEPT ![w] = "REVOKED"]
  /\ jobState' = [r \in Runs |-> IF r \in LeasedTo(w) THEN "QUEUED"
                                 ELSE jobState[r]]
  /\ available' = [r \in Runs |-> available[r] \/ r \in LeasedTo(w)]
  /\ DropLease(LeasedTo(w))
  /\ UNCHANGED <<runVars, attempts, credential, failures, idempotency,
                 claiming>>

\* cancelRun: a queued or running run, and its job when that is still open.
CancelRun(r) ==
  /\ RunOpen(r)
  /\ Unlocked(r)
  /\ runState' = [runState EXCEPT ![r] = "CANCELLED"]
  /\ jobState' = [jobState EXCEPT ![r] = IF JobOpen(r) THEN "CANCELLED" ELSE @]
  /\ DropLease({r})
  /\ UNCHANGED <<runRunner, runResult, author, available, attempts, credential,
                 failures, runnerState, idempotency, claiming>>

\* The GitHub Action's submitResult (github-integration/oidc): it completes
\* the run itself, whoever holds the lease of the job.
ActionSubmitResult(r, v) ==
  /\ RunOpen(r)
  /\ Unlocked(r)
  /\ Complete(r, v, "action", IF JobOpen(r) THEN "SUCCEEDED" ELSE jobState[r])

-----------------------------------------------------------------------------
\* The requests of a runner, and of the client that owns a run.
RunnerStep(w) ==
  \/ RegisterRunner(w)
  \/ RevokeRunner(w)
  \/ ClaimAbort(w)
  \/ \E r \in Runs : \/ ClaimSelect(w, r)
                     \/ ClaimCommit(w, r)
                     \/ ExtendLease(w, r)
                     \/ CredentialExpires(w, r)
                     \/ \E v \in Results : SubmitResult(w, r, v)
                     \/ \E retryable \in BOOLEAN : FailJob(w, r, retryable)

RunStep(r) ==
  \/ \E k \in Keys : CreateRun(k, r)
  \/ CancelRun(r)
  \/ \E v \in Results : ActionSubmitResult(r, v)
  \/ LeaseExpires(r)
  \/ BackoffElapses(r)

Next ==
  \/ \E w \in Runners : RunnerStep(w)
  \/ \E r \in Runs : RunStep(r)

Spec == Init /\ [][Next]_vars

\* The runner reports a result or a failure before its lease expires.
ReportInTime(w, r) ==
  /\ leaseLive[r]
  /\ \/ \E v \in Results : SubmitResult(w, r, v)
     \/ \E retryable \in BOOLEAN : FailJob(w, r, retryable)

\* A registered runner keeps polling and a claim is not the deadlock victim
\* for ever; clocks advance; no worker extends its lease for ever; and a
\* runner that is given the same job again and again reports in time once.
Fairness ==
  /\ \A w \in Runners :
       /\ SF_vars(\E r \in Runs : ClaimSelect(w, r))
       /\ SF_vars(\E r \in Runs : ClaimCommit(w, r))
       /\ \A r \in Runs : SF_vars(ReportInTime(w, r))
  /\ \A r \in Runs : WF_vars(LeaseExpires(r)) /\ WF_vars(BackoffElapses(r))

FairSpec == Spec /\ Fairness
-----------------------------------------------------------------------------
\* The job table and the run table agree: an open job has an open run (so a
\* claim's unconditional UPDATE to RUNNING never reopens a finished run), a
\* finished job has a run that finished the same way, and only a dead letter
\* may outlive, or be outlived by, its run.
RunJobAgreement ==
  \A r \in Runs :
    /\ jobState[r] = "ABSENT" <=> runState[r] = "ABSENT"
    /\ JobOpen(r) => RunOpen(r)
    /\ jobState[r] = "SUCCEEDED" => runState[r] = "COMPLETED"
    /\ jobState[r] = "CANCELLED" => runState[r] = "CANCELLED"
    /\ jobState[r] = "DEAD_LETTER" =>
         runState[r] \in {"RUNNING", "COMPLETED", "CANCELLED"}

\* jobs.lease_owner and benchmark_runs.runner_id name the same runner while
\* the job is leased, so every credential authenticateJobCredential accepts
\* is one of the runner the run itself is assigned to.
LeaseNamesRunRunner ==
  \A r \in Runs :
    /\ jobState[r] = "LEASED" =>
         runState[r] = "RUNNING" /\ runRunner[r] = leaseOwner[r]
    /\ jobState[r] # "LEASED" => leaseOwner[r] = None /\ ~leaseLive[r]
    /\ \A w \in Runners :
         CredentialAccepted(w, r) => runRunner[r] = w /\ runState[r] = "RUNNING"

\* A stored result is complete, and its author is the runner the replay check
\* of submitResult will compare a repeated request with.
ReplayRecognisesAuthor ==
  \A r \in Runs :
    /\ runState[r] = "COMPLETED" <=> runResult[r] # None
    /\ runState[r] = "COMPLETED" <=> author[r] # None
    /\ author[r] \in Runners => runRunner[r] = author[r]

\* The row a claim has locked stays the row it selected, and no two claims
\* hold the same one: SKIP LOCKED hands a job to one runner at a time.
LockedRowIsClaimable ==
  \A w \in Runners : \A r \in Runs :
    claiming[w] = r =>
      /\ JobOpen(r) /\ available[r] /\ ~leaseLive[r]
      /\ \A x \in Runners : claiming[x] = r => x = w

\* failJob accepts at most max_attempts reports for a job, and a job that is
\* still in the queue has reports left, also after lost leases.
FailureBudget ==
  \A r \in Runs :
    /\ failures[r] <= MaxAttempts
    /\ JobOpen(r) => failures[r] < MaxAttempts

\* What the code keeps without stating it, and the invariants above rest on:
\* rows start empty, a leased job stays available, and each report failJob
\* accepted was preceded by a claim that counted an attempt.
Bookkeeping ==
  \A r \in Runs :
    /\ runState[r] = "ABSENT" =>
         failures[r] = 0 /\ \A k \in Keys : idempotency[k] # r
    /\ jobState[r] = "LEASED" => available[r] /\ failures[r] < attempts[r]
    /\ jobState[r] = "QUEUED" => failures[r] <= attempts[r]

\* Each run created by a request belongs to the one idempotency key of that
\* request, and each key names one run.
OneRunPerKey ==
  /\ \A r \in Runs :
       runState[r] # "ABSENT" => \E k \in Keys : idempotency[k] = r
  /\ \A k, l \in Keys :
       idempotency[k] = idempotency[l] /\ idempotency[k] # None => k = l

\* All of them, which need each other: the inductive invariant of the queue,
\* which no transaction of any caller breaks.
QueueInv ==
  /\ TypeOK
  /\ RunJobAgreement
  /\ LeaseNamesRunRunner
  /\ ReplayRecognisesAuthor
  /\ LockedRowIsClaimable
  /\ FailureBudget
  /\ Bookkeeping
  /\ OneRunPerKey

\* A finished run is final: no later claim, submission or cancellation
\* changes its state, its result, its author or its runner.
FinishedRunIsFrozen ==
  [][\A r \in Runs :
       runState[r] \in {"COMPLETED", "CANCELLED"} =>
         /\ runState'[r] = runState[r]
         /\ runRunner'[r] = runRunner[r]
         /\ runResult'[r] = runResult[r]
         /\ author'[r] = author[r]]_vars

\* As long as some runner stays active, every job in the queue or leased
\* eventually leaves both states, whoever crashed or was revoked on the way.
EveryJobSettles ==
  (<>[](\E w \in Runners : runnerState[w] = "ACTIVE")) =>
    \A r \in Runs : JobOpen(r) ~> ~JobOpen(r)

\* The contract each run follows, read off the run table and the job table.
runStatus == [r \in Runs |->
  CASE runState[r] = "ABSENT" -> "absent"
    [] runState[r] = "COMPLETED" -> "delivered"
    [] runState[r] = "CANCELLED" -> "cancelled"
    [] RunOpen(r) /\ jobState[r] = "QUEUED" -> "waiting"
    [] RunOpen(r) /\ jobState[r] = "LEASED" -> "assigned"
    [] RunOpen(r) /\ jobState[r] = "DEAD_LETTER" -> "parked"
    [] OTHER -> "lost"]

runWorker == [r \in Runs |->
  IF RunOpen(r) /\ jobState[r] = "LEASED" THEN runRunner[r] ELSE None]

Contract == INSTANCE RunContract
              WITH status <- runStatus, worker <- runWorker,
                   result <- runResult

\* The queue implements the contract.
ContractSpec == Contract!Spec
=============================================================================
