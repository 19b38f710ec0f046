---------------------------- MODULE HostedCompute ----------------------------
(***************************************************************************)
(* HostedComputeService (packages/hosted-compute): the durable execution   *)
(* lease of a benchmark job, the virtual machine a provider runs for it,   *)
(* and the ephemeral runner on that machine.  Provisioning, cancellation,  *)
(* completion and reconciliation are asynchronous calls.  Between two of   *)
(* their awaits any other call may run, and all of them write the lease    *)
(* row by id alone, so each call is a small process here: its position and *)
(* what it has read of the row.                                            *)
(*                                                                         *)
(* A lease has the number of its job, and so has its runner: job_id and    *)
(* the runner's hosted_execution_lease_id are unique.  The reconciler      *)
(* visits leases one by one; each visit is a process of its own, so the    *)
(* row it has read may be as old as a pass is long, and a pass that throws *)
(* is a visit abandoned.  Ages are nondeterministic.  JobQueue has the     *)
(* claims, lease renewals and failures of jobs in detail; here a claim is  *)
(* one step.  Budgets and the operator's switches are left out.            *)
(***************************************************************************)
EXTENDS Naturals, FiniteSets

CONSTANTS
  Jobs,        \* numbers of the jobs, in order of creation
  Hosted,      \* the jobs for which hosted execution may be requested
  Self,        \* self-hosted runners
  MaxActive,   \* hosted_compute_settings.global_max_active
  MaxQueued,   \* hosted_compute_settings.global_max_queued
  MaxOpen,     \* bound: calls that are between two of their awaits at once
  MayCrash,    \* may the API process die between two awaits?
  None

\* The final states of hosted_compute_usage.
FinalStates == {"COMPLETED", "CANCELLED", "FAILED", "TIMEOUT", "INFRASTRUCTURE_FAILED"}

ASSUME HostedAssumption ==
  /\ Jobs \subseteq Nat /\ Hosted \subseteq Jobs
  /\ Self \cap Jobs = {} /\ None \notin Jobs \cup Self /\ None \notin FinalStates
  /\ MaxActive \in Nat /\ MaxQueued \in Nat /\ MaxOpen \in Nat
  /\ MayCrash \in BOOLEAN

VARIABLES
  run,         \* benchmark_runs.state
  job,         \* jobs.state
  assignee,    \* benchmark_runs.runner_id; while leased, jobs.lease_owner too
  expired,     \* the job's lease has expired
  pinned,      \* jobs.requirements names the hosted lease
  lease,       \* hosted_execution_leases.state, "NONE" before the request
  bound,       \* provider_resource_id and runner_id are set in the row
  runner,      \* runners.state of the hosted runner, "ABSENT" before its insert
  resource,    \* the provider's machine, labelled with the lease
  usage,       \* hosted_compute_usage.final_state, None without a row
  prov,        \* position of provisionNext
  cancel,      \* position of cancel, and whether it has read a bound row
  complete,    \* position of complete
  visit,       \* the same as cancel, of the reconciler's visit
  claimed      \* a claim committed whose runnerClaimed has not run

queueVars == <<run, job, assignee, expired, pinned>>
rowVars == <<lease, bound, runner, usage>>
callVars == <<prov, cancel, complete, visit, claimed>>
vars == <<queueVars, rowVars, resource, callVars>>

LeaseStates == {"NONE", "REQUESTED", "PROVISIONING", "BOOTSTRAPPING", "READY",
                "RUNNING", "TERMINATING", "TERMINATED", "FAILED", "ORPHANED"}
activeStates == {"PROVISIONING", "BOOTSTRAPPING", "READY", "RUNNING",
                 "TERMINATING"}
terminalStates == {"TERMINATED", "FAILED"}
scannedStates == {"PROVISIONING", "BOOTSTRAPPING", "READY", "RUNNING"}

Call(positions) == [at : positions, bound : BOOLEAN]
Idle == [at |-> "idle", bound |-> FALSE]

TypeOK ==
  /\ run \in [Jobs -> {"QUEUED", "RUNNING", "COMPLETED", "CANCELLED"}]
  /\ job \in [Jobs -> {"QUEUED", "LEASED", "SUCCEEDED", "CANCELLED"}]
  /\ assignee \in [Jobs -> Jobs \cup Self \cup {None}]
  /\ expired \in [Jobs -> BOOLEAN]
  /\ pinned \in [Jobs -> BOOLEAN]
  /\ lease \in [Jobs -> LeaseStates]
  /\ bound \in [Jobs -> BOOLEAN]
  /\ runner \in [Jobs -> {"ABSENT", "ACTIVE", "REVOKED"}]
  /\ resource \in [Jobs -> {"none", "live", "terminated", "missing"}]
  /\ usage \in [Jobs -> FinalStates \cup {None}]
  /\ prov \in [Jobs -> {"idle", "calling", "returned", "retry", "fatal",
                        "meter"}]
  /\ cancel \in [Jobs -> Call({"idle", "read", "marked", "killed", "closed",
                               "failed"})]
  /\ complete \in [Jobs -> {"idle", "start", "read", "killed", "closed",
                           "revoked", "failed"}]
  /\ visit \in [Jobs -> Call({"idle", "kill", "overdue", "timedOut", "revoke",
                              "stuck", "fail", "meterTimeout", "meterLost"}
                             \cup scannedStates)]
  /\ claimed \in [Jobs -> BOOLEAN]

Init ==
  /\ run = [j \in Jobs |-> "QUEUED"]
  /\ job = [j \in Jobs |-> "QUEUED"]
  /\ assignee = [j \in Jobs |-> None]
  /\ expired = [j \in Jobs |-> FALSE]
  /\ pinned = [j \in Jobs |-> FALSE]
  /\ lease = [j \in Jobs |-> "NONE"]
  /\ bound = [j \in Jobs |-> FALSE]
  /\ runner = [j \in Jobs |-> "ABSENT"]
  /\ resource = [j \in Jobs |-> "none"]
  /\ usage = [j \in Jobs |-> None]
  /\ prov = [j \in Jobs |-> "idle"]
  /\ cancel = [j \in Jobs |-> Idle]
  /\ complete = [j \in Jobs |-> "idle"]
  /\ visit = [j \in Jobs |-> Idle]
  /\ claimed = [j \in Jobs |-> FALSE]

InState(S) == {l \in Jobs : lease[l] \in S}

\* The calls in flight; a new one starts while they are fewer than the bound.
Open(at) == {l \in Jobs : at[l] # "idle"}
Room ==
  Cardinality(Open(prov)) + Cardinality(Open(complete))
  + Cardinality(Open([l \in Jobs |-> cancel[l].at]))
  + Cardinality(Open([l \in Jobs |-> visit[l].at])) < MaxOpen

\* What the calls do to a row or a machine, whatever state it is in.
SetLease(l, state) == lease' = [lease EXCEPT ![l] = state]

Revoke(l, really) ==
  runner' = [runner EXCEPT ![l] = IF really THEN "REVOKED" ELSE @]

Terminate(l, really) ==
  resource' = [resource EXCEPT ![l] = IF really /\ @ = "live" THEN "terminated"
                                      ELSE @]

\* finalizeUsage: the first final state stays.
Meter(l, final) ==
  usage' = [usage EXCEPT ![l] = IF @ = None THEN final ELSE @]
-----------------------------------------------------------------------------
\* A slip: the job is pinned although another runner has it.
Request_PinsAnyJob(l) ==
  /\ lease[l] = "NONE" /\ l \in Hosted
  /\ Cardinality(InState({"REQUESTED"})) < MaxQueued
  /\ SetLease(l, "REQUESTED")
  /\ pinned' = [pinned EXCEPT ![l] = TRUE]
  /\ UNCHANGED <<run, job, assignee, expired, bound, runner, usage, resource,
                 callVars>>

\* request: one lease per job; a job that is no longer queued keeps its empty
\* requirements.  A repeated request finds the lease and changes nothing.
Request(l) ==
  /\ lease[l] = "NONE" /\ l \in Hosted
  /\ Cardinality(InState({"REQUESTED"})) < MaxQueued
  /\ SetLease(l, "REQUESTED")
  /\ pinned' = [pinned EXCEPT ![l] = job[l] = "QUEUED"]
  /\ UNCHANGED <<run, job, assignee, expired, bound, runner, usage, resource,
                 callVars>>

\* A slip: an orphaned lease is provisioned again.
ProvisionSelect_Orphan(l) ==
  /\ lease[l] \in {"REQUESTED", "ORPHANED"}
  /\ Cardinality(InState(activeStates)) < MaxActive /\ Room
  /\ SetLease(l, "PROVISIONING")
  /\ prov' = [prov EXCEPT ![l] = "calling"]
  /\ UNCHANGED <<queueVars, bound, runner, usage, resource, cancel, complete,
                 visit, claimed>>

\* provisionNext, first transaction: a requested lease takes a free place.
\* (Which of several is a matter of requested_at.)
ProvisionSelect(l) ==
  /\ lease[l] = "REQUESTED"
  /\ Cardinality(InState(activeStates)) < MaxActive /\ Room
  /\ SetLease(l, "PROVISIONING")
  /\ prov' = [prov EXCEPT ![l] = "calling"]
  /\ UNCHANGED <<queueVars, bound, runner, usage, resource, cancel, complete,
                 visit, claimed>>

\* The provider's answer.  The lease is the idempotency key, so there is one
\* machine per lease; an error may come with or without a machine.
ProviderAnswers(l) ==
  /\ prov[l] = "calling"
  /\ \/ /\ resource' = [resource EXCEPT ![l] = IF @ = "none" THEN "live" ELSE @]
        /\ \E answer \in {"returned", "retry"} :
             prov' = [prov EXCEPT ![l] = answer]
     \/ /\ \E answer \in {"retry", "fatal"} :
             prov' = [prov EXCEPT ![l] = answer]
        /\ UNCHANGED resource
  /\ UNCHANGED <<queueVars, rowVars, cancel, complete, visit, claimed>>

\* provisionNext, second transaction: the runner is inserted and the row
\* becomes BOOTSTRAPPING, whatever has become of it meanwhile.
ProvisionCommit(l) ==
  /\ prov[l] = "returned"
  /\ runner[l] = "ABSENT"
  /\ runner' = [runner EXCEPT ![l] = "ACTIVE"]
  /\ SetLease(l, "BOOTSTRAPPING")
  /\ bound' = [bound EXCEPT ![l] = TRUE]
  /\ prov' = [prov EXCEPT ![l] = "idle"]
  /\ UNCHANGED <<queueVars, usage, resource, cancel, complete, visit, claimed>>

\* That transaction is rolled back: a database error, or a second runner for
\* the lease, which the unique index refuses.
ProvisionRollback(l) ==
  /\ prov[l] = "returned"
  /\ prov' = [prov EXCEPT ![l] = "retry"]
  /\ UNCHANGED <<queueVars, rowVars, resource, cancel, complete, visit, claimed>>

\* The catch block of provisionNext.
ProvisionFails(l) ==
  /\ \/ /\ prov[l] = "retry" /\ SetLease(l, "REQUESTED")
        /\ prov' = [prov EXCEPT ![l] = "idle"]
     \/ /\ prov[l] = "fatal" /\ SetLease(l, "FAILED")
        /\ prov' = [prov EXCEPT ![l] = "meter"]
  /\ UNCHANGED <<queueVars, bound, runner, usage, resource, cancel, complete,
                 visit, claimed>>

ProvisionMeter(l) ==
  /\ prov[l] = "meter"
  /\ Meter(l, "FAILED")
  /\ prov' = [prov EXCEPT ![l] = "idle"]
  /\ UNCHANGED <<queueVars, lease, bound, runner, resource, cancel, complete,
                 visit, claimed>>

ProvisionStep(l) ==
  \/ ProvisionSelect(l) \/ ProviderAnswers(l) \/ ProvisionCommit(l)
  \/ ProvisionRollback(l) \/ ProvisionFails(l) \/ ProvisionMeter(l)
-----------------------------------------------------------------------------
\* Deleting a run that has no lease goes to CloudService.cancelRun.
CancelPlain(j) ==
  /\ lease[j] = "NONE"
  /\ run[j] \in {"QUEUED", "RUNNING"}
  /\ run' = [run EXCEPT ![j] = "CANCELLED"]
  /\ job' = [job EXCEPT ![j] = IF @ \in {"QUEUED", "LEASED"} THEN "CANCELLED"
                               ELSE @]
  /\ UNCHANGED <<assignee, expired, pinned, rowVars, resource, callVars>>

\* cancel reads the row, and is done when the lease is terminal.
CancelRead(l) ==
  /\ cancel[l].at = "idle" /\ Room
  /\ lease[l] \notin terminalStates \cup {"NONE"}
  /\ cancel' = [cancel EXCEPT ![l] = [at |-> "read", bound |-> bound[l]]]
  /\ UNCHANGED <<queueVars, rowVars, resource, prov, complete, visit, claimed>>

CancelMark(l) ==
  /\ cancel[l].at = "read"
  /\ SetLease(l, "TERMINATING")
  /\ cancel' = [cancel EXCEPT ![l].at = "marked"]
  /\ UNCHANGED <<queueVars, bound, runner, usage, resource, prov, complete,
                 visit, claimed>>

\* The machine the row named when it was read is terminated.
CancelKill(l) ==
  /\ cancel[l].at = "marked"
  /\ Terminate(l, cancel[l].bound)
  /\ cancel' = [cancel EXCEPT ![l].at = "killed"]
  /\ UNCHANGED <<queueVars, rowVars, prov, complete, visit, claimed>>

\* A slip: a finished run is cancelled too.
CancelClose_AnyRun(l) ==
  /\ cancel[l].at = "killed"
  /\ SetLease(l, "TERMINATED")
  /\ Revoke(l, cancel[l].bound)
  /\ job' = [job EXCEPT ![l] = IF @ = "SUCCEEDED" THEN @ ELSE "CANCELLED"]
  /\ run' = [run EXCEPT ![l] = "CANCELLED"]
  /\ cancel' = [cancel EXCEPT ![l].at = "closed"]
  /\ UNCHANGED <<assignee, expired, pinned, bound, usage, resource, prov,
                 complete, visit, claimed>>

\* The transaction that closes lease, runner, job and run together.
CancelClose(l) ==
  /\ cancel[l].at = "killed"
  /\ SetLease(l, "TERMINATED")
  /\ Revoke(l, cancel[l].bound)
  /\ job' = [job EXCEPT ![l] = IF @ = "SUCCEEDED" THEN @ ELSE "CANCELLED"]
  /\ run' = [run EXCEPT ![l] = IF @ = "COMPLETED" THEN @ ELSE "CANCELLED"]
  /\ cancel' = [cancel EXCEPT ![l].at = "closed"]
  /\ UNCHANGED <<assignee, expired, pinned, bound, usage, resource, prov,
                 complete, visit, claimed>>

CancelMeter(l) ==
  /\ cancel[l].at = "closed"
  /\ Meter(l, "CANCELLED")
  /\ cancel' = [cancel EXCEPT ![l] = Idle]
  /\ UNCHANGED <<queueVars, lease, bound, runner, resource, prov, complete,
                 visit, claimed>>

\* The provider or the database fails in the try block ...
CancelThrows(l) ==
  /\ cancel[l].at \in {"marked", "killed", "closed"}
  /\ cancel' = [cancel EXCEPT ![l].at = "failed"]
  /\ UNCHANGED <<queueVars, rowVars, resource, prov, complete, visit, claimed>>

\* ... and the catch block writes its state over whatever is there.
CancelFails(l) ==
  /\ cancel[l].at = "failed"
  /\ SetLease(l, "ORPHANED")
  /\ cancel' = [cancel EXCEPT ![l] = Idle]
  /\ UNCHANGED <<queueVars, bound, runner, usage, resource, prov, complete,
                 visit, claimed>>

CancelStep(l) ==
  \/ CancelMark(l) \/ CancelKill(l) \/ CancelClose(l) \/ CancelMeter(l)
  \/ CancelThrows(l) \/ CancelFails(l)
-----------------------------------------------------------------------------
\* The HTTP heartbeat of an active runner moves a fresh lease on.
Heartbeat(l) ==
  /\ runner[l] = "ACTIVE" /\ resource[l] = "live"
  /\ lease[l] = "BOOTSTRAPPING"
  /\ SetLease(l, "READY")
  /\ UNCHANGED <<queueVars, bound, runner, usage, resource, callVars>>

\* Runners whose credential is accepted.  A request of theirs may arrive after
\* their machine has gone; a claim that nobody receives would be pointless.
Accepted == Self \cup {l \in Jobs : runner[l] = "ACTIVE"}
Claimants == {w \in Accepted : w \in Jobs => resource[w] = "live"}

\* What claimJob's WHERE clause says of a job: a runner may have more
\* capabilities than the job requires.
Claimable(w, j) ==
  /\ job[j] = "QUEUED" \/ (job[j] = "LEASED" /\ expired[j])
  /\ pinned[j] => w = j

Claim(w, j) ==
  /\ w \in Claimants
  /\ Claimable(w, j)
  /\ \A i \in Jobs : i < j => ~Claimable(w, i)
  /\ job' = [job EXCEPT ![j] = "LEASED"]
  /\ run' = [run EXCEPT ![j] = "RUNNING"]
  /\ assignee' = [assignee EXCEPT ![j] = w]
  /\ expired' = [expired EXCEPT ![j] = FALSE]
  /\ claimed' = [claimed EXCEPT ![j] = w = j]
  /\ UNCHANGED <<pinned, rowVars, resource, prov, cancel, complete, visit>>

\* runnerClaimed, the second call of the claim's HTTP handler.
ClaimNotify(l) ==
  /\ claimed[l]
  /\ claimed' = [claimed EXCEPT ![l] = FALSE]
  /\ IF lease[l] = "READY" THEN SetLease(l, "RUNNING") ELSE UNCHANGED lease
  /\ UNCHANGED <<queueVars, bound, runner, usage, resource, prov, cancel,
                 complete, visit>>

JobLeaseExpires(j) ==
  /\ job[j] = "LEASED" /\ ~expired[j]
  /\ expired' = [expired EXCEPT ![j] = TRUE]
  /\ UNCHANGED <<run, job, assignee, pinned, rowVars, resource, callVars>>

\* submitResult, or its replay, followed by resultSubmitted, which completes
\* the lease when the runner is the lease's own.
Submit(w, j) ==
  /\ w \in Accepted
  /\ assignee[j] = w
  /\ job[j] \in {"LEASED", "SUCCEEDED"} /\ (w = j => Room)
  /\ job' = [job EXCEPT ![j] = "SUCCEEDED"]
  /\ run' = [run EXCEPT ![j] = "COMPLETED"]
  /\ complete' = [complete EXCEPT ![j] = IF w = j /\ bound[j] /\ @ = "idle"
                                         THEN "start" ELSE @]
  /\ UNCHANGED <<assignee, expired, pinned, rowVars, resource, prov, cancel,
                 visit, claimed>>
-----------------------------------------------------------------------------
\* complete reads the row; a terminated lease needs nothing more.
CompleteRead(l) ==
  /\ complete[l] = "start"
  /\ complete' = [complete EXCEPT ![l] = IF lease[l] = "TERMINATED" THEN "idle"
                                         ELSE "read"]
  /\ UNCHANGED <<queueVars, rowVars, resource, prov, cancel, visit, claimed>>

CompleteKill(l) ==
  /\ complete[l] = "read"
  /\ Terminate(l, TRUE)
  /\ complete' = [complete EXCEPT ![l] = "killed"]
  /\ UNCHANGED <<queueVars, rowVars, prov, cancel, visit, claimed>>

CompleteClose(l) ==
  /\ complete[l] = "killed"
  /\ SetLease(l, "TERMINATED")
  /\ complete' = [complete EXCEPT ![l] = "closed"]
  /\ UNCHANGED <<queueVars, bound, runner, usage, resource, prov, cancel,
                 visit, claimed>>

CompleteRevoke(l) ==
  /\ complete[l] = "closed"
  /\ Revoke(l, TRUE)
  /\ complete' = [complete EXCEPT ![l] = "revoked"]
  /\ UNCHANGED <<queueVars, lease, bound, usage, resource, prov, cancel, visit,
                 claimed>>

CompleteMeter(l) ==
  /\ complete[l] = "revoked"
  /\ Meter(l, "COMPLETED")
  /\ complete' = [complete EXCEPT ![l] = "idle"]
  /\ UNCHANGED <<queueVars, lease, bound, runner, resource, prov, cancel, visit,
                 claimed>>

CompleteThrows(l) ==
  /\ complete[l] \in {"read", "killed", "closed", "revoked"}
  /\ complete' = [complete EXCEPT ![l] = "failed"]
  /\ UNCHANGED <<queueVars, rowVars, resource, prov, cancel, visit, claimed>>

CompleteFails(l) ==
  /\ complete[l] = "failed"
  /\ SetLease(l, "ORPHANED")
  /\ complete' = [complete EXCEPT ![l] = "idle"]
  /\ UNCHANGED <<queueVars, bound, runner, usage, resource, prov, cancel,
                 visit, claimed>>

CompleteStep(l) ==
  \/ CompleteRead(l) \/ CompleteKill(l) \/ CompleteClose(l)
  \/ CompleteRevoke(l) \/ CompleteMeter(l)
  \/ CompleteThrows(l) \/ CompleteFails(l)
-----------------------------------------------------------------------------
VisitTo(l, position) == visit' = [visit EXCEPT ![l].at = position]
VisitOnly == UNCHANGED <<queueVars, rowVars, resource, prov, cancel, complete,
                         claimed>>

\* A slip: only failed leases are looked after.
SweepRead_FailedOnly(l) ==
  /\ visit[l].at = "idle" /\ Room
  /\ \/ resource[l] \in {"live", "missing"} /\ lease[l] = "FAILED"
        /\ VisitTo(l, "kill")
     \/ resource[l] = "missing" /\ lease[l] \notin terminalStates
        /\ VisitTo(l, "fail")
  /\ VisitOnly

\* reconcile, first loop: a machine the provider lists and the lease its label
\* names.  A machine whose lease is over is terminated, the lease of a machine
\* that is gone is failed; anything else is left alone.
SweepRead(l) ==
  /\ visit[l].at = "idle" /\ Room
  /\ \/ resource[l] \in {"live", "missing"} /\ lease[l] \in terminalStates
        /\ VisitTo(l, "kill")
     \/ resource[l] = "missing" /\ lease[l] \notin terminalStates
        /\ VisitTo(l, "fail")
  /\ VisitOnly

SweepKill(l) ==
  /\ visit[l].at = "kill"
  /\ Terminate(l, TRUE)
  /\ visit' = [visit EXCEPT ![l] = Idle]
  /\ UNCHANGED <<queueVars, rowVars, prov, cancel, complete, claimed>>

\* reconcile, second loop: the rows of its one SELECT.
ScanRead(l) ==
  /\ visit[l].at = "idle" /\ Room
  /\ lease[l] \in scannedStates
  /\ visit' = [visit EXCEPT ![l] = [at |-> lease[l], bound |-> bound[l]]]
  /\ VisitOnly

\* A slip: a machine that never came up is not looked after.
ScanInspect_RunningOnly(l) ==
  /\ visit[l].at \in scannedStates
  /\ IF visit[l].bound /\ resource[l] = "missing"
     THEN VisitTo(l, "fail")
     ELSE \/ visit[l].at = "RUNNING" /\ VisitTo(l, "overdue")
          \/ visit' = [visit EXCEPT ![l] = Idle]
  /\ VisitOnly

\* The machine is inspected, and the row as it was read decides: lost, too
\* long in execution, too long without a heartbeat, or young enough.
ScanInspect(l) ==
  /\ visit[l].at \in scannedStates
  /\ IF visit[l].bound /\ resource[l] = "missing"
     THEN VisitTo(l, "fail")
     ELSE \/ visit[l].at = "RUNNING" /\ VisitTo(l, "overdue")
          \/ visit[l].at \in {"PROVISIONING", "BOOTSTRAPPING"}
             /\ VisitTo(l, "stuck")
          \/ visit' = [visit EXCEPT ![l] = Idle]
  /\ VisitOnly

ScanKill(l) ==
  /\ visit[l].at \in {"overdue", "stuck"}
  /\ Terminate(l, visit[l].bound)
  /\ VisitTo(l, IF visit[l].at = "overdue" THEN "timedOut" ELSE "fail")
  /\ UNCHANGED <<queueVars, rowVars, prov, cancel, complete, claimed>>

VisitFail(l) ==
  /\ visit[l].at \in {"timedOut", "fail"}
  /\ SetLease(l, "FAILED")
  /\ VisitTo(l, IF visit[l].at = "timedOut" THEN "revoke" ELSE "meterLost")
  /\ UNCHANGED <<queueVars, bound, runner, usage, resource, prov, cancel,
                 complete, claimed>>

\* Only the time limit of an execution revokes the runner.
VisitRevoke(l) ==
  /\ visit[l].at = "revoke"
  /\ Revoke(l, visit[l].bound)
  /\ VisitTo(l, "meterTimeout")
  /\ UNCHANGED <<queueVars, lease, bound, usage, resource, prov, cancel,
                 complete, claimed>>

VisitMeter(l) ==
  /\ visit[l].at \in {"meterTimeout", "meterLost"}
  /\ Meter(l, IF visit[l].at = "meterLost" THEN "INFRASTRUCTURE_FAILED"
              ELSE "TIMEOUT")
  /\ visit' = [visit EXCEPT ![l] = Idle]
  /\ UNCHANGED <<queueVars, lease, bound, runner, resource, prov, cancel,
                 complete, claimed>>

\* A call of the provider throws, and with it the whole pass.
VisitThrows(l) ==
  /\ visit[l].at \in {"kill", "overdue", "stuck"} \cup scannedStates
  /\ visit' = [visit EXCEPT ![l] = Idle]
  /\ VisitOnly

VisitStep(l) ==
  \/ SweepRead(l) \/ SweepKill(l) \/ ScanRead(l) \/ ScanInspect(l)
  \/ ScanKill(l) \/ VisitFail(l) \/ VisitRevoke(l) \/ VisitMeter(l)
  \/ VisitThrows(l)
-----------------------------------------------------------------------------
\* The machine disappears.
MachineLost(l) ==
  /\ resource[l] = "live"
  /\ resource' = [resource EXCEPT ![l] = "missing"]
  /\ UNCHANGED <<queueVars, rowVars, callVars>>

\* The process that serves the open calls of a lease dies.
Crash(l) ==
  /\ MayCrash
  /\ prov' = [prov EXCEPT ![l] = "idle"]
  /\ cancel' = [cancel EXCEPT ![l] = Idle]
  /\ complete' = [complete EXCEPT ![l] = "idle"]
  /\ visit' = [visit EXCEPT ![l] = Idle]
  /\ claimed' = [claimed EXCEPT ![l] = FALSE]
  /\ UNCHANGED <<queueVars, rowVars, resource>>

Next ==
  \E l \in Jobs :
    \/ Request(l) \/ ProvisionStep(l)
    \/ CancelPlain(l) \/ CancelRead(l) \/ CancelStep(l)
    \/ Heartbeat(l) \/ ClaimNotify(l) \/ JobLeaseExpires(l)
    \/ \E w \in Jobs \cup Self : Claim(w, l) \/ Submit(w, l)
    \/ CompleteStep(l) \/ VisitStep(l) \/ MachineLost(l) \/ Crash(l)

Spec == Init /\ [][Next]_vars
-----------------------------------------------------------------------------
(***************************************************************************)
(* Fairness.  Reconciliation is a job that an operator schedules, so its   *)
(* passes never end: each lease is visited again and again.  A visit may   *)
(* be abandoned any number of times, hence strong fairness; a lease that   *)
(* stays in a state gets old in it, so some visit finds it too old.  The   *)
(* steps of an open call are taken unless the process dies.                *)
(***************************************************************************)
Inspected(l) == ScanInspect(l) /\ visit'[l].at # "idle"

CallFairness(l) ==
  /\ WF_vars(ProvisionStep(l)) /\ WF_vars(CancelStep(l))
  /\ WF_vars(CompleteStep(l)) /\ WF_vars(ClaimNotify(l))

ReconcileFairness(l) ==
  /\ WF_vars(VisitStep(l)) /\ SF_vars(SweepRead(l)) /\ SF_vars(ScanRead(l))
  /\ SF_vars(Inspected(l)) /\ SF_vars(SweepKill(l)) /\ SF_vars(ScanKill(l))
  /\ SF_vars(VisitFail(l)) /\ SF_vars(VisitRevoke(l)) /\ SF_vars(VisitMeter(l))

FairSpec ==
  Spec /\ \A l \in Jobs : CallFairness(l) /\ ReconcileFairness(l)

\* Runners go on working too: a self-hosted runner claims what it can and
\* delivers, a job lease that is not renewed expires.
WorkerFairness ==
  \A j \in Jobs : /\ WF_vars(\E w \in Self : Claim(w, j))
                  /\ WF_vars(\E w \in Self : Submit(w, j))
                  /\ WF_vars(JobLeaseExpires(j))
-----------------------------------------------------------------------------
(***************************************************************************)
(* Safety.                                                                 *)
(***************************************************************************)
\* A run is completed exactly when its job has succeeded and cancelled
\* exactly when its job is, although results, cancellations and completions
\* race without a common lock (cancel's and submitResult's WHERE clauses).
JobsAndRunsAgree ==
  \A j \in Jobs : /\ run[j] = "COMPLETED" <=> job[j] = "SUCCEEDED"
                  /\ run[j] = "CANCELLED" <=> job[j] = "CANCELLED"

\* One call of provisionNext at most works on a lease: a lease that can be
\* selected has none, and when the machine is returned there is no runner
\* yet, so the unique index on the runner's lease is never hit.
OneProvisionCall ==
  \A l \in Jobs : /\ lease[l] = "REQUESTED" => prov[l] = "idle"
                  /\ prov[l] = "returned" => runner[l] = "ABSENT"
                  /\ bound[l] <=> runner[l] # "ABSENT"

\* What is metered tells what became of the run: finalizeUsage keeps the
\* first of several final states, and that one is not a lie.
UsageTellsOutcome ==
  \A l \in Jobs : /\ usage[l] = "COMPLETED" => job[l] = "SUCCEEDED"
                  /\ usage[l] = "CANCELLED" => job[l] \in {"SUCCEEDED", "CANCELLED"}

\* Both: job, run and bill tell the same, whoever ends a lease first.
OutcomesAgree == JobsAndRunsAgree /\ UsageTellsOutcome

\* A job that was pinned in time is never in the hands of another runner, and
\* a lease whose job is pinned runs only when its own runner has the job.
PinnedJobKeepsItsRunner ==
  \A j \in Jobs :
    pinned[j] => /\ assignee[j] \in {None, j}
                 /\ lease[j] = "RUNNING" => assignee[j] = j

-----------------------------------------------------------------------------
(***************************************************************************)
(* Liveness.                                                               *)
(***************************************************************************)
\* A machine left behind by a lease that is over is found and terminated,
\* whatever crash or stale row left it there (reconcile, first loop).
ClosedMachinesStop ==
  \A l \in Jobs : (lease[l] \in terminalStates /\ resource[l] = "live")
                    ~> (lease[l] \notin terminalStates \/ resource[l] # "live")

\* A lease is not provisioned, booted or executed forever: after a crash the
\* reconciler's time limits move it on (second loop).
LeasesMoveOn ==
  \A l \in Jobs : \A state \in {"PROVISIONING", "BOOTSTRAPPING", "RUNNING"} :
    lease[l] = state ~> lease[l] # state

\* As long as no process dies, a lease that is over is metered (finalizeUsage
\* is a transaction of its own, after the one that ends the lease).
EndedLeasesAreMetered ==
  \A l \in Jobs : lease[l] \in terminalStates
                    ~> (usage[l] # None \/ lease[l] \notin terminalStates)
-----------------------------------------------------------------------------
(***************************************************************************)
(* What docs/hosted-runners.md and docs/cloud-core.md say, and the code    *)
(* does not do.                                                            *)
(***************************************************************************)
\* "Completion, cancellation, loss, or absolute timeout revokes the runner":
\* a machine that was reported lost has no accepted runner any more.
LossRevokesRunner ==
  \A l \in Jobs : usage[l] = "INFRASTRUCTURE_FAILED" /\ visit[l].at = "idle"
                    => runner[l] # "ACTIVE"

\* The same of a cancellation that has run to its end.
CancellationRevokesRunner ==
  \A l \in Jobs : usage[l] = "CANCELLED" /\ prov[l] = "idle"
                    => runner[l] # "ACTIVE"

\* "Reconcile stale leases and managed provider resources": a machine whose
\* termination failed is terminated by a later pass.
OrphansAreReclaimed ==
  \A l \in Jobs : (lease[l] = "ORPHANED" /\ bound[l] /\ resource[l] = "live")
                    ~> (lease[l] # "ORPHANED" \/ resource[l] # "live")

\* "The bootstrapped runner must heartbeat and claim the exact job".
ExactJob == \A j \in Jobs : assignee[j] \in Self \cup {None, j}

\* "Capacity ... reserved transactionally before the provider is called": no
\* more machines that the rows name run than global_max_active.
CapacityBoundsMachines ==
  Cardinality({l \in Jobs : bound[l] /\ resource[l] = "live"}) <= MaxActive

\* "Jobs recover after lease expiry": the run of a hosted job whose machine
\* was lost does not stay open forever.
WorkingSpec == FairSpec /\ WorkerFairness

LostJobRecovers ==
  \A j \in Jobs : (lease[j] = "FAILED" /\ run[j] \in {"QUEUED", "RUNNING"})
                    ~> (run[j] \notin {"QUEUED", "RUNNING"} \/ lease[j] # "FAILED")
=============================================================================
