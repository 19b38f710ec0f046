--------------------------- MODULE GitHubDelivery ---------------------------
(***************************************************************************)
(* GitHubIntegration (packages/github-integration): the webhook deliveries *)
(* of one installation of the GitHub App, the GITHUB_WEBHOOK job of each,  *)
(* and the workers that process them.  A delivery suspends, removes or     *)
(* synchronizes the installation and its repository, or it is a push (or a *)
(* pull request) that makes a benchmark run and a check at GitHub.  Each   *)
(* statement and each call of GitHub is a step; between them other workers *)
(* and GitHub go on.                                                       *)
(*                                                                         *)
(* The installation has one repository here, whose trigger policy lets     *)
(* every push run.  Tokens and the contents of payloads, checks and runs   *)
(* are not modelled; a run has the key of its delivery, so it is a member  *)
(* of the set of runs.  Whatever GitHub is asked may fail, with an error   *)
(* that the code retries or with another one.                              *)
(***************************************************************************)
EXTENDS Integers, Sequences, FiniteSets

CONSTANTS
  Workers,      \* processes that call processQueued
  Kinds,        \* the changes that happen at GitHub
  MaxAttempts,  \* jobs.max_attempts: three in the code
  BatchLimit,   \* how many jobs processQueued reads: 25 in the code
  MaxEvents,    \* bound: changes at GitHub
  MayCrash,     \* may a worker die?
  None

AllKinds == {"synchronize", "suspend", "unsuspend", "deleted", "push"}

ASSUME GitHubAssumption ==
  /\ Kinds \subseteq AllKinds
  /\ MaxAttempts \in Nat \ {0} /\ BatchLimit \in Nat \ {0} /\ MaxEvents \in Nat \ {0}
  /\ MayCrash \in BOOLEAN
  /\ None \notin Nat

VARIABLES
  sent,          \* the changes at GitHub, each of which has a delivery
  app,           \* the installation at GitHub
  listed,        \* does GitHub list the repository?
  delivery,      \* github_webhook_deliveries.state, by change
  job,           \* jobs.state of the delivery's job
  attempts,      \* jobs.attempt_count
  waiting,       \* jobs whose available_at lies ahead
  received,      \* the deliveries in the order of their jobs
  at,            \* where each worker is
  batch,         \* the positions in received that it has read and not come to
  taken,         \* the delivery it works on
  seen,          \* what GitHub's list told it
  installation,  \* github_installations.state
  repository,    \* repositories.state
  runs,          \* deliveries that have a benchmark run
  checks,        \* how many checks at GitHub a delivery has
  recorded       \* deliveries with a row in github_check_runs

gitHubVars == <<sent, app, listed>>
deliveryVars == <<delivery, job, attempts, waiting, received>>
workerVars == <<at, batch, taken, seen>>
rowVars == <<installation, repository, runs, recorded>>
vars == <<gitHubVars, deliveryVars, workerVars, rowVars, checks>>

Deliveries == 1 .. MaxEvents
Kind(d) == sent[d]

TypeOK ==
  /\ sent \in Seq(AllKinds) /\ Len(sent) <= MaxEvents
  /\ app \in {"installed", "suspended", "removed"} /\ listed \in BOOLEAN
  /\ delivery \in [Deliveries -> {"none", "QUEUED", "PROCESSING", "PROCESSED",
                                  "IGNORED", "FAILED"}]
  /\ job \in [Deliveries -> {"none", "QUEUED", "SUCCEEDED", "DEAD_LETTER"}]
  /\ attempts \in [Deliveries -> 0 .. MaxAttempts]
  /\ waiting \in SUBSET Deliveries
  /\ received \in Seq(Deliveries)
  /\ at \in [Workers -> {"idle", "batch", "apply", "sync", "list", "write", "push",
                         "create", "check", "record", "PROCESSED", "IGNORED"}]
  /\ batch \in [Workers -> SUBSET DOMAIN received]
  /\ taken \in [Workers -> Deliveries \cup {None}]
  /\ seen \in [Workers -> BOOLEAN]
  /\ installation \in {"absent", "PENDING", "ACTIVE", "SUSPENDED", "UNINSTALLED"}
  /\ repository \in {"absent", "ACTIVE", "ARCHIVED"}
  /\ runs \in SUBSET Deliveries /\ recorded \in SUBSET Deliveries
  /\ checks \in [Deliveries -> Nat]

\* The App has just been installed.
Init ==
  /\ sent = <<"synchronize">> /\ app = "installed" /\ listed = TRUE
  /\ delivery = [d \in Deliveries |-> "none"]
  /\ job = [d \in Deliveries |-> "none"]
  /\ attempts = [d \in Deliveries |-> 0]
  /\ waiting = {} /\ received = <<>>
  /\ at = [w \in Workers |-> "idle"]
  /\ batch = [w \in Workers |-> {}]
  /\ taken = [w \in Workers |-> None]
  /\ seen = [w \in Workers |-> FALSE]
  /\ installation = "absent" /\ repository = "absent"
  /\ runs = {} /\ recorded = {}
  /\ checks = [d \in Deliveries |-> 0]
-----------------------------------------------------------------------------
(***************************************************************************)
(* GitHub, the webhook endpoint and the owner.                             *)
(***************************************************************************)
\* What happens at GitHub: the selection of repositories changes, somebody
\* suspends or removes the installation, somebody pushes.
Happens(kind) ==
  CASE kind = "synchronize" -> app = "installed" /\ listed' = ~listed /\ app' = app
    [] kind = "suspend" -> app = "installed" /\ app' = "suspended"
    [] kind = "unsuspend" -> app = "suspended" /\ app' = "installed"
    [] kind = "deleted" -> app # "removed" /\ app' = "removed"
    [] kind = "push" -> app = "installed" /\ listed /\ app' = app

GitHubChanges ==
  /\ Len(sent) < MaxEvents
  /\ \E kind \in Kinds : /\ Happens(kind)
                         /\ kind # "synchronize" => listed' = listed
                         /\ sent' = Append(sent, kind)
  /\ UNCHANGED <<deliveryVars, workerVars, rowVars, checks>>

\* linkInstallation: an owner links the installation, once.
Link ==
  /\ installation = "absent"
  /\ installation' = "PENDING"
  /\ UNCHANGED <<gitHubVars, deliveryVars, workerVars, repository, runs, recorded,
                 checks>>

\* ingest: a delivery is inserted with its job, or without one when nobody
\* has linked the installation yet.  A repeated delivery changes nothing.
Receive(d) ==
  /\ d <= Len(sent) /\ delivery[d] = "none"
  /\ IF installation = "absent"
     THEN /\ delivery' = [delivery EXCEPT ![d] = "IGNORED"]
          /\ UNCHANGED <<job, received>>
     ELSE /\ delivery' = [delivery EXCEPT ![d] = "QUEUED"]
          /\ job' = [job EXCEPT ![d] = "QUEUED"]
          /\ received' = Append(received, d)
  /\ UNCHANGED <<gitHubVars, attempts, waiting, workerVars, rowVars, checks>>

BackoffElapses(d) ==
  /\ d \in waiting
  /\ waiting' = waiting \ {d}
  /\ UNCHANGED <<gitHubVars, delivery, job, attempts, received, workerVars, rowVars,
                 checks>>
-----------------------------------------------------------------------------
(***************************************************************************)
(* The workers.                                                            *)
(***************************************************************************)
Ready(d) == job[d] = "QUEUED" /\ d \notin waiting

\* processQueued reads the oldest jobs that are ready, without a lock and
\* without looking at their deliveries.
Select(w) ==
  LET ready == {i \in DOMAIN received : Ready(received[i])}
      Older(i) == {k \in ready : k < i}
  IN /\ at[w] = "idle" /\ ready # {}
     /\ at' = [at EXCEPT ![w] = "batch"]
     /\ batch' = [batch EXCEPT
          ![w] = {i \in ready : Cardinality(Older(i)) < BatchLimit}]
     /\ UNCHANGED <<gitHubVars, deliveryVars, taken, seen, rowVars, checks>>

\* Where the processing of a delivery begins.
First(kind) ==
  CASE kind = "push" -> "push"
    [] kind = "synchronize" -> "sync"
    [] OTHER -> "apply"

\* Where a worker goes when the rest of its batch is this.
NextOfBatch(rest) == IF rest = {} THEN "idle" ELSE "batch"

\* A slip: a failed delivery stays one.
Processable_QueuedOnly(d) == delivery[d] = "QUEUED"

\* A slip: what is being processed is taken again.
Processable_Processing(d) == delivery[d] \in {"QUEUED", "FAILED", "PROCESSING"}

Processable(d) == delivery[d] \in {"QUEUED", "FAILED"}

\* The batch is worked off from its oldest position on.
IsNext(w, i) == at[w] = "batch" /\ i \in batch[w] /\ \A k \in batch[w] : i <= k

\* processDelivery takes the next delivery of the batch ...
TakeAt(w, i) ==
  LET d == received[i]
  IN /\ IsNext(w, i) /\ Processable(d)
     /\ delivery' = [delivery EXCEPT ![d] = "PROCESSING"]
     /\ taken' = [taken EXCEPT ![w] = d]
     /\ at' = [at EXCEPT ![w] = First(Kind(d))]
     /\ batch' = [batch EXCEPT ![w] = @ \ {i}]
     /\ UNCHANGED <<gitHubVars, job, attempts, waiting, received, seen, rowVars,
                    checks>>

\* ... or throws because another worker has it or is through with it.
SkipAt(w, i) ==
  /\ IsNext(w, i) /\ ~Processable(received[i])
  /\ at' = [at EXCEPT ![w] = NextOfBatch(batch[w] \ {i})]
  /\ batch' = [batch EXCEPT ![w] = @ \ {i}]
  /\ UNCHANGED <<gitHubVars, deliveryVars, taken, seen, rowVars, checks>>

Take(w) == \E i \in batch[w] : TakeAt(w, i)
Skip(w) == \E i \in batch[w] : SkipAt(w, i)

Goes(w, to) == at' = [at EXCEPT ![w] = to] /\ UNCHANGED <<batch, taken>>

StateAfter(kind) ==
  CASE kind = "deleted" -> "UNINSTALLED"
    [] kind = "suspend" -> "SUSPENDED"
    [] kind = "unsuspend" -> "ACTIVE"

\* A slip: the repositories of a removed installation stay.
Apply_KeepsRepository(w) ==
  /\ at[w] = "apply"
  /\ installation' = StateAfter(Kind(taken[w]))
  /\ Goes(w, "PROCESSED")
  /\ UNCHANGED <<gitHubVars, deliveryVars, seen, repository, runs, recorded, checks>>

\* handleInstallation, but for synchronizations: whatever state the
\* installation is in.  A removal archives the repositories with it.
Apply(w) ==
  /\ at[w] = "apply"
  /\ installation' = StateAfter(Kind(taken[w]))
  /\ repository' = IF Kind(taken[w]) = "deleted" /\ repository # "absent"
                   THEN "ARCHIVED" ELSE repository
  /\ Goes(w, "PROCESSED")
  /\ UNCHANGED <<gitHubVars, deliveryVars, seen, runs, recorded, checks>>

\* syncInstallation reads the installation ...
SyncRead(w) ==
  /\ at[w] = "sync" /\ installation \in {"PENDING", "ACTIVE"}
  /\ Goes(w, "list")
  /\ UNCHANGED <<gitHubVars, deliveryVars, seen, rowVars, checks>>

\* ... asks GitHub for its repositories ...
SyncList(w) ==
  /\ at[w] = "list" /\ app = "installed"
  /\ seen' = [seen EXCEPT ![w] = listed]
  /\ Goes(w, "write")
  /\ UNCHANGED <<gitHubVars, deliveryVars, rowVars, checks>>

\* ... and writes both, whatever has become of the installation.
SyncWrite(w) ==
  /\ at[w] = "write"
  /\ installation' = "ACTIVE"
  /\ repository' = IF seen[w] THEN "ACTIVE"
                   ELSE IF repository = "absent" THEN "absent" ELSE "ARCHIVED"
  /\ seen' = [seen EXCEPT ![w] = FALSE]
  /\ Goes(w, "PROCESSED")
  /\ UNCHANGED <<gitHubVars, deliveryVars, runs, recorded, checks>>

\* handleTrigger: pushes to a repository that is not active are ignored.
ReadRepository(w) ==
  /\ at[w] = "push"
  /\ Goes(w, IF repository = "ACTIVE" THEN "create" ELSE "IGNORED")
  /\ UNCHANGED <<gitHubVars, deliveryVars, seen, rowVars, checks>>

\* createRun with the key of the delivery: the run it made before, if any.
CreateRun(w) ==
  /\ at[w] = "create"
  /\ runs' = runs \cup {taken[w]}
  /\ Goes(w, "check")
  /\ UNCHANGED <<gitHubVars, deliveryVars, seen, installation, repository, recorded,
                 checks>>

MakesCheck(w) ==
  /\ at[w] = "check" /\ app = "installed"
  /\ checks' = [checks EXCEPT ![taken[w]] = @ + 1]

CreateCheck(w) ==
  /\ MakesCheck(w)
  /\ Goes(w, "record")
  /\ UNCHANGED <<gitHubVars, deliveryVars, seen, rowVars>>

\* A slip: the check is not recorded.
RecordCheck_Forgotten(w) ==
  /\ at[w] = "record"
  /\ Goes(w, "PROCESSED")
  /\ UNCHANGED <<gitHubVars, deliveryVars, seen, rowVars, checks>>

RecordCheck(w) ==
  /\ at[w] = "record" /\ taken[w] \notin recorded
  /\ recorded' = recorded \cup {taken[w]}
  /\ Goes(w, "PROCESSED")
  /\ UNCHANGED <<gitHubVars, deliveryVars, seen, installation, repository, runs,
                 checks>>
-----------------------------------------------------------------------------
\* The worker is through with its delivery.
Leaves(w) ==
  /\ at' = [at EXCEPT ![w] = NextOfBatch(batch[w])]
  /\ taken' = [taken EXCEPT ![w] = None]
  /\ seen' = [seen EXCEPT ![w] = FALSE]
  /\ UNCHANGED batch

\* finishDelivery: only a job that is still queued succeeds.
Finish(w) ==
  LET d == taken[w]
  IN /\ at[w] \in {"PROCESSED", "IGNORED"}
     /\ delivery' = [delivery EXCEPT ![d] = at[w]]
     /\ job' = [job EXCEPT ![d] = IF @ = "QUEUED" THEN "SUCCEEDED" ELSE @]
     /\ Leaves(w)
     /\ UNCHANGED <<gitHubVars, attempts, waiting, received, rowVars, checks>>

\* The delivery has failed.  Its job, if it is still queued, is retried
\* when the error allows it and attempts are left.
Fails(w, retryable) ==
  LET d == taken[w]
      again == retryable /\ attempts[d] + 1 < MaxAttempts
  IN /\ delivery' = [delivery EXCEPT ![d] = "FAILED"]
     /\ IF job[d] = "QUEUED"
        THEN /\ attempts' = [attempts EXCEPT ![d] = @ + 1]
             /\ job' = [job EXCEPT ![d] = IF again THEN "QUEUED" ELSE "DEAD_LETTER"]
             /\ waiting' = IF again THEN waiting \cup {d} ELSE waiting
        ELSE UNCHANGED <<attempts, job, waiting>>
     /\ Leaves(w)
     /\ UNCHANGED <<gitHubVars, received, rowVars>>

\* A statement fails, or the installation cannot be synchronized: dead letter.
FailForGood(w) ==
  /\ taken[w] # None
  /\ Fails(w, FALSE)
  /\ UNCHANGED checks

\* A call of GitHub fails with an error that the code retries.
FailForNow(w) ==
  /\ at[w] \in {"list", "check"}
  /\ Fails(w, TRUE)
  /\ UNCHANGED checks

\* GitHub has made the check and its answer is lost.
LoseAnswer(w) ==
  /\ MakesCheck(w)
  /\ Fails(w, TRUE)

\* The worker dies, or the statements that record a failure fail.
Crash(w) ==
  /\ MayCrash /\ at[w] # "idle"
  /\ at' = [at EXCEPT ![w] = "idle"]
  /\ batch' = [batch EXCEPT ![w] = {}]
  /\ taken' = [taken EXCEPT ![w] = None]
  /\ seen' = [seen EXCEPT ![w] = FALSE]
  /\ UNCHANGED <<gitHubVars, deliveryVars, rowVars, checks>>
-----------------------------------------------------------------------------
Synchronize(w) == SyncRead(w) \/ SyncList(w) \/ SyncWrite(w)
Trigger(w) == ReadRepository(w) \/ CreateRun(w) \/ CreateCheck(w) \/ RecordCheck(w)
Fail(w) == FailForGood(w) \/ FailForNow(w) \/ LoseAnswer(w)

WorkerStep(w) ==
  \/ Select(w) \/ Take(w) \/ Skip(w) \/ Apply(w) \/ Synchronize(w) \/ Trigger(w)
  \/ Finish(w) \/ Fail(w)

Next ==
  \/ GitHubChanges \/ Link
  \/ \E d \in Deliveries : Receive(d) \/ BackoffElapses(d)
  \/ \E w \in Workers : WorkerStep(w) \/ Crash(w)

Spec == Init /\ [][Next]_vars

\* GitHub delivers in the end, time passes, the workers loop, and a worker
\* does not die each time before it takes a delivery or goes on to the next.
Fairness ==
  /\ \A d \in Deliveries : WF_vars(Receive(d)) /\ WF_vars(BackoffElapses(d))
  /\ \A w \in Workers : WF_vars(WorkerStep(w)) /\ SF_vars(Take(w)) /\ SF_vars(Skip(w))

FairSpec == Spec /\ Fairness
-----------------------------------------------------------------------------
\* A delivery and its job agree: a job succeeds with its delivery only, and a
\* job in the queue has a delivery that is still to be processed, by one worker
\* at most, and attempts left when it failed before.
DeliveriesAndJobsAgree ==
  /\ \A d \in Deliveries :
       /\ job[d] = "SUCCEEDED" => delivery[d] \in {"PROCESSED", "IGNORED"}
       /\ job[d] = "QUEUED" => /\ delivery[d] \in {"QUEUED", "PROCESSING", "FAILED"}
                              /\ attempts[d] < MaxAttempts
       /\ delivery[d] = "FAILED" => attempts[d] > 0
  /\ \A w \in Workers : taken[w] # None =>
       /\ delivery[taken[w]] = "PROCESSING"
       /\ \A v \in Workers : taken[v] = taken[w] => v = w

\* A push whose delivery counts as processed has its run and its check, and
\* the row that publishRun finds the check by.
PushesHaveChecks ==
  \A d \in 1 .. Len(sent) :
    /\ Kind(d) = "push" /\ delivery[d] = "PROCESSED" => d \in recorded
    /\ d \in recorded => d \in runs /\ checks[d] > 0
    /\ checks[d] > 0 => d \in runs

\* Whatever runs at the same time, an installation that is marked as removed has
\* no active repository, for which a push would make a run.  A push that has read
\* the repository before may still make one, and a synchronization that has read
\* the installation before marks both as active again.
RemovalArchives == installation = "UNINSTALLED" => repository # "ACTIVE"

\* Every delivery with a job ends, whatever GitHub answers, unless its worker
\* died.
Abandoned(d) == delivery[d] = "PROCESSING" /\ \A w \in Workers : taken[w] # d

DeliveriesEnd ==
  \A d \in Deliveries : job[d] = "QUEUED" ~> job[d] # "QUEUED" \/ Abandoned(d)
-----------------------------------------------------------------------------
(***************************************************************************)
(* What docs/github-integration.md says, and the code does not do.         *)
(***************************************************************************)
\* "Duplicate delivery processing cannot create another run or Check", and
\* "one mapped Check Run ..., preventing retry and synchronization spam".
OneCheckPerDelivery == \A d \in Deliveries : checks[d] <= 1

\* "Suspension and uninstall immediately ... prevent new operations": no run is
\* made for an installation that is known to be suspended or removed.
SuspensionStopsRuns ==
  [][runs' # runs => installation \notin {"SUSPENDED", "UNINSTALLED"}]_vars

\* The same of a removal: nothing makes the installation active again.
RemovalIsFinal ==
  [][installation = "UNINSTALLED" => installation' = "UNINSTALLED"]_vars

\* "bounded durable retry": a delivery is not kept from being processed by
\* others whose workers died.
NobodyBlocksTheQueue ==
  \A d \in Deliveries :
    job[d] = "QUEUED" /\ delivery[d] = "QUEUED" ~> delivery[d] # "QUEUED"
=============================================================================
