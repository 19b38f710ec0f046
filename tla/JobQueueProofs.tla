--------------------------- MODULE JobQueueProofs ---------------------------
(***************************************************************************)
(* Machine-checked proofs about JobQueue, for any number of runs, runners, *)
(* keys and results.  QueueInv is inductive: every invariant the queue     *)
(* keeps, together with the bookkeeping it rests on, is preserved by every *)
(* step, whatever order transactions commit in.                            *)
(***************************************************************************)
EXTENDS JobQueue, TLAPS

\* Every step keeps every variable in its type: the states in the CHECK
\* constraints of the tables, attempt_count within its saturation.
LEMMA TypeStep == TypeOK /\ [Next]_vars => TypeOK'
<1> USE ConstantsAssumption
<1> SUFFICES ASSUME TypeOK, [Next]_vars
             PROVE  TypeOK'
  OBVIOUS
<1> USE DEF TypeOK, RunStates, JobStates, runVars, jobVars, leaseVars
<1>. QED
  <2>1. ASSUME NEW k \in Keys, NEW r \in Runs, CreateRun(k, r)
       PROVE  TypeOK'
    BY <2>1 DEF CreateRun
  <2>2. ASSUME NEW w \in Runners, RegisterRunner(w)
       PROVE  TypeOK'
    BY <2>2 DEF RegisterRunner
  <2>3. ASSUME NEW w \in Runners, RevokeRunner(w)
       PROVE  TypeOK'
    BY <2>3 DEF RevokeRunner, DropLease, LeasedTo
  <2>4. ASSUME NEW w \in Runners, ClaimAbort(w)
       PROVE  TypeOK'
    BY <2>4 DEF ClaimAbort
  <2>5. ASSUME NEW w \in Runners, NEW r \in Runs, ClaimSelect(w, r)
       PROVE  TypeOK'
    BY <2>5 DEF ClaimSelect
  <2>6. ASSUME NEW w \in Runners, NEW r \in Runs, ClaimCommit(w, r)
       PROVE  TypeOK'
    BY <2>6 DEF ClaimCommit, ClaimWrites, NextAttempt
  <2>7. ASSUME NEW w \in Runners, NEW r \in Runs, ExtendLease(w, r)
       PROVE  TypeOK'
    BY <2>7 DEF ExtendLease
  <2>8. ASSUME NEW w \in Runners, NEW r \in Runs, CredentialExpires(w, r)
       PROVE  TypeOK'
    BY <2>8 DEF CredentialExpires
  <2>9. ASSUME NEW w \in Runners, NEW r \in Runs, NEW v \in Results,
                SubmitResult(w, r, v)
       PROVE  TypeOK'
    BY <2>9 DEF SubmitResult, Complete, DropLease
  <2>10. ASSUME NEW w \in Runners, NEW r \in Runs, NEW retryable \in BOOLEAN,
                FailJob(w, r, retryable)
       PROVE  TypeOK'
    BY <2>10 DEF FailJob, Fail, DropLease
  <2>11. ASSUME NEW r \in Runs, CancelRun(r)
       PROVE  TypeOK'
    BY <2>11 DEF CancelRun, DropLease
  <2>12. ASSUME NEW r \in Runs, NEW v \in Results, ActionSubmitResult(r, v)
       PROVE  TypeOK'
    BY <2>12 DEF ActionSubmitResult, Complete, DropLease
  <2>13. ASSUME NEW r \in Runs, LeaseExpires(r)
       PROVE  TypeOK'
    BY <2>13 DEF LeaseExpires
  <2>14. ASSUME NEW r \in Runs, BackoffElapses(r)
       PROVE  TypeOK'
    BY <2>14 DEF BackoffElapses
  <2>15. CASE UNCHANGED vars
    BY <2>15 DEF vars, runVars, jobVars, leaseVars
  <2>. QED
    BY <2>1, <2>2, <2>3, <2>4, <2>5, <2>6, <2>7, <2>8, <2>9, <2>10, <2>11, <2>12, <2>13, <2>14, <2>15
    DEF Next, RunnerStep, RunStep

\* What dropping the leases of S does to each row.
LEMMA DropLeaseEffect ==
  ASSUME TypeOK, NEW S \in SUBSET Runs, DropLease(S)
  PROVE  \A q \in Runs :
           /\ q \in S => leaseOwner'[q] = None /\ ~leaseLive'[q]
           /\ q \notin S => /\ leaseOwner'[q] = leaseOwner[q]
                           /\ leaseLive'[q] = leaseLive[q]
BY DEF TypeOK, DropLease

\* QueueInv is inductive: one step per action, one conjunct at a time.
LEMMA InvStep == QueueInv /\ [Next]_vars => QueueInv'
<1> USE ConstantsAssumption
<1> SUFFICES ASSUME QueueInv, [Next]_vars
             PROVE  QueueInv'
  OBVIOUS
<1>1. TypeOK'
  BY TypeStep DEF QueueInv
<1> USE DEF TypeOK, RunStates, JobStates, Runs, RunOpen, JobOpen,
            Unlocked, CredentialAccepted, runVars, jobVars, leaseVars,
            RunJobAgreement, LeaseNamesRunRunner, ReplayRecognisesAuthor,
            LockedRowIsClaimable, FailureBudget, Bookkeeping, OneRunPerKey
<1>2. /\ TypeOK
      /\ RunJobAgreement
      /\ LeaseNamesRunRunner
      /\ ReplayRecognisesAuthor
      /\ LockedRowIsClaimable
      /\ FailureBudget
      /\ Bookkeeping
      /\ OneRunPerKey
  BY DEF QueueInv
<1> USE <1>2
<1>3. ASSUME Next PROVE QueueInv'
  <2>1. ASSUME NEW k \in Keys, NEW r \in Runs, CreateRun(k, r)
       PROVE  QueueInv'
    <3>1. RunJobAgreement'
      BY <2>1 DEF CreateRun
    <3>2. LeaseNamesRunRunner'
      BY <2>1 DEF CreateRun
    <3>3. LockedRowIsClaimable'
      BY <2>1 DEF CreateRun
    <3>4. Bookkeeping'
      BY <2>1 DEF CreateRun
    <3>5. OneRunPerKey'
      <4>1. \A l \in Keys : idempotency'[l] = IF l = k THEN r ELSE idempotency[l]
        BY <2>1 DEF CreateRun
      <4>2. \A l \in Keys : idempotency[l] # r
        BY <2>1 DEF CreateRun
      <4>3. \A q \in Runs : q # r => runState'[q] = runState[q]
        BY <2>1 DEF CreateRun
      <4>4. ASSUME NEW q \in Runs, runState'[q] # "ABSENT"
            PROVE  \E l \in Keys : idempotency'[l] = q
        <5>1. CASE q = r
          BY <4>1, <5>1
        <5>2. CASE q # r
          <6>1. PICK l \in Keys : idempotency[l] = q
            BY <4>3, <4>4, <5>2
          <6>2. l # k
            BY <2>1, <6>1 DEF CreateRun
          <6>. QED
            BY <4>1, <6>1, <6>2
        <5>. QED
          BY <5>1, <5>2
      <4>5. ASSUME NEW j \in Keys, NEW l \in Keys,
                   idempotency'[j] = idempotency'[l], idempotency'[j] # None
            PROVE  j = l
        <5>1. CASE j = k \/ l = k
          BY <4>1, <4>2, <4>5, <5>1
        <5>2. CASE j # k /\ l # k
          <6>1. idempotency[j] = idempotency[l] /\ idempotency[j] # None
            BY <4>1, <4>5, <5>2
          <6>. QED
            BY <6>1
        <5>. QED
          BY <5>1, <5>2
      <4>. QED
        BY <4>4, <4>5
    <3>6. ReplayRecognisesAuthor' /\ FailureBudget'
      BY <2>1 DEF CreateRun
    <3>. QED
      BY <1>1, <3>1, <3>2, <3>3, <3>4, <3>5, <3>6 DEF QueueInv
  <2>2. ASSUME NEW w \in Runners, RegisterRunner(w)
       PROVE  QueueInv'
    <3>1. LeaseNamesRunRunner'
      BY <2>2 DEF RegisterRunner
    <3>2. RunJobAgreement' /\ ReplayRecognisesAuthor' /\ LockedRowIsClaimable' /\ FailureBudget' /\ Bookkeeping' /\ OneRunPerKey'
      BY <2>2 DEF RegisterRunner
    <3>. QED
      BY <1>1, <3>1, <3>2 DEF QueueInv
  <2>3. ASSUME NEW w \in Runners, RevokeRunner(w)
       PROVE  QueueInv'
    <3>1. DropLease(LeasedTo(w)) /\ LeasedTo(w) \in SUBSET Runs
      BY <2>3 DEF RevokeRunner, LeasedTo
    <3>2. \A q \in Runs :
            /\ q \in LeasedTo(w) => leaseOwner'[q] = None /\ ~leaseLive'[q]
            /\ q \notin LeasedTo(w) => /\ leaseOwner'[q] = leaseOwner[q]
                            /\ leaseLive'[q] = leaseLive[q]
      BY <3>1, DropLeaseEffect
    <3>3. RunJobAgreement'
      BY <2>3, <3>2 DEF RevokeRunner, LeasedTo
    <3>4. LeaseNamesRunRunner'
      BY <2>3, <3>2 DEF RevokeRunner, LeasedTo
    <3>5. LockedRowIsClaimable'
      BY <2>3, <3>2 DEF RevokeRunner, LeasedTo
    <3>6. FailureBudget'
      BY <2>3, <3>2 DEF RevokeRunner, LeasedTo
    <3>7. Bookkeeping'
      BY <2>3, <3>2 DEF RevokeRunner, LeasedTo
    <3>8. ReplayRecognisesAuthor' /\ OneRunPerKey'
      BY <2>3, <3>2 DEF RevokeRunner, LeasedTo
    <3>. QED
      BY <1>1, <3>3, <3>4, <3>5, <3>6, <3>7, <3>8 DEF QueueInv
  <2>4. ASSUME NEW w \in Runners, ClaimAbort(w)
       PROVE  QueueInv'
    <3>1. LockedRowIsClaimable'
      BY <2>4 DEF ClaimAbort
    <3>2. RunJobAgreement' /\ LeaseNamesRunRunner' /\ ReplayRecognisesAuthor' /\ FailureBudget' /\ Bookkeeping' /\ OneRunPerKey'
      BY <2>4 DEF ClaimAbort
    <3>. QED
      BY <1>1, <3>1, <3>2 DEF QueueInv
  <2>5. ASSUME NEW w \in Runners, NEW r \in Runs, ClaimSelect(w, r)
       PROVE  QueueInv'
    <3>1. LockedRowIsClaimable'
      BY <2>5 DEF ClaimSelect, Claimable
    <3>2. RunJobAgreement' /\ LeaseNamesRunRunner' /\ ReplayRecognisesAuthor' /\ FailureBudget' /\ Bookkeeping' /\ OneRunPerKey'
      BY <2>5 DEF ClaimSelect, Claimable
    <3>. QED
      BY <1>1, <3>1, <3>2 DEF QueueInv
  <2>6. ASSUME NEW w \in Runners, NEW r \in Runs, ClaimCommit(w, r)
       PROVE  QueueInv'
    <3>1. JobOpen(r) /\ RunOpen(r)
      BY <2>6 DEF ClaimCommit, ClaimWrites, NextAttempt, TypeOK
    <3>2. runState[r] # "ABSENT" /\ author[r] = None /\ runResult[r] = None
      BY <3>1 DEF TypeOK
    <3>3. RunJobAgreement'
      BY <2>6, <3>1, <3>2 DEF ClaimCommit, ClaimWrites, NextAttempt
    <3>4. LeaseNamesRunRunner'
      BY <2>6, <3>1, <3>2 DEF ClaimCommit, ClaimWrites, NextAttempt
    <3>5. ReplayRecognisesAuthor'
      BY <2>6, <3>1, <3>2 DEF ClaimCommit, ClaimWrites, NextAttempt
    <3>6. LockedRowIsClaimable'
      BY <2>6, <3>1, <3>2 DEF ClaimCommit, ClaimWrites, NextAttempt
    <3>7. Bookkeeping'
      BY <2>6, <3>1, <3>2 DEF ClaimCommit, ClaimWrites, NextAttempt
    <3>8. OneRunPerKey'
      BY <2>6, <3>1, <3>2 DEF ClaimCommit, ClaimWrites, NextAttempt
    <3>9. FailureBudget'
      BY <2>6, <3>1, <3>2 DEF ClaimCommit, ClaimWrites, NextAttempt
    <3>. QED
      BY <1>1, <3>3, <3>4, <3>5, <3>6, <3>7, <3>8, <3>9 DEF QueueInv
  <2>7. ASSUME NEW w \in Runners, NEW r \in Runs, ExtendLease(w, r)
       PROVE  QueueInv'
    <3>1. RunJobAgreement' /\ LeaseNamesRunRunner' /\ ReplayRecognisesAuthor' /\ LockedRowIsClaimable' /\ FailureBudget' /\ Bookkeeping' /\ OneRunPerKey'
      BY <2>7 DEF ExtendLease
    <3>. QED
      BY <1>1, <3>1 DEF QueueInv
  <2>8. ASSUME NEW w \in Runners, NEW r \in Runs, CredentialExpires(w, r)
       PROVE  QueueInv'
    <3>1. LeaseNamesRunRunner'
      BY <2>8 DEF CredentialExpires
    <3>2. RunJobAgreement' /\ ReplayRecognisesAuthor' /\ LockedRowIsClaimable' /\ FailureBudget' /\ Bookkeeping' /\ OneRunPerKey'
      BY <2>8 DEF CredentialExpires
    <3>. QED
      BY <1>1, <3>1, <3>2 DEF QueueInv
  <2>9. ASSUME NEW w \in Runners, NEW r \in Runs, NEW v \in Results,
                SubmitResult(w, r, v)
       PROVE  QueueInv'
    <3>1. DropLease({r}) /\ {r} \in SUBSET Runs
      BY <2>9 DEF SubmitResult, Complete
    <3>2. \A q \in Runs :
            /\ q \in {r} => leaseOwner'[q] = None /\ ~leaseLive'[q]
            /\ q \notin {r} => /\ leaseOwner'[q] = leaseOwner[q]
                            /\ leaseLive'[q] = leaseLive[q]
      BY <3>1, DropLeaseEffect
    <3>3. RunJobAgreement'
      BY <2>9, <3>2 DEF SubmitResult, Complete
    <3>4. LeaseNamesRunRunner'
      BY <2>9, <3>2 DEF SubmitResult, Complete
    <3>5. ReplayRecognisesAuthor'
      BY <2>9, <3>2 DEF SubmitResult, Complete
    <3>6. LockedRowIsClaimable'
      BY <2>9, <3>2 DEF SubmitResult, Complete
    <3>7. OneRunPerKey'
      BY <2>9, <3>2 DEF SubmitResult, Complete
    <3>8. FailureBudget' /\ Bookkeeping'
      BY <2>9, <3>2 DEF SubmitResult, Complete
    <3>. QED
      BY <1>1, <3>3, <3>4, <3>5, <3>6, <3>7, <3>8 DEF QueueInv
  <2>10. ASSUME NEW w \in Runners, NEW r \in Runs, NEW retryable \in BOOLEAN,
                FailJob(w, r, retryable)
       PROVE  QueueInv'
    <3>1. DropLease({r}) /\ {r} \in SUBSET Runs
      BY <2>10 DEF FailJob, Fail
    <3>2. \A q \in Runs :
            /\ q \in {r} => leaseOwner'[q] = None /\ ~leaseLive'[q]
            /\ q \notin {r} => /\ leaseOwner'[q] = leaseOwner[q]
                            /\ leaseLive'[q] = leaseLive[q]
      BY <3>1, DropLeaseEffect
    <3>3. RunJobAgreement'
      BY <2>10, <3>2 DEF FailJob, Fail
    <3>4. LeaseNamesRunRunner'
      BY <2>10, <3>2 DEF FailJob, Fail
    <3>5. LockedRowIsClaimable'
      BY <2>10, <3>2 DEF FailJob, Fail
    <3>6. FailureBudget'
      BY <2>10, <3>2 DEF FailJob, Fail
    <3>7. Bookkeeping'
      BY <2>10, <3>2 DEF FailJob, Fail
    <3>8. ReplayRecognisesAuthor' /\ OneRunPerKey'
      BY <2>10, <3>2 DEF FailJob, Fail
    <3>. QED
      BY <1>1, <3>3, <3>4, <3>5, <3>6, <3>7, <3>8 DEF QueueInv
  <2>11. ASSUME NEW r \in Runs, CancelRun(r)
       PROVE  QueueInv'
    <3>1. DropLease({r}) /\ {r} \in SUBSET Runs
      BY <2>11 DEF CancelRun
    <3>2. \A q \in Runs :
            /\ q \in {r} => leaseOwner'[q] = None /\ ~leaseLive'[q]
            /\ q \notin {r} => /\ leaseOwner'[q] = leaseOwner[q]
                            /\ leaseLive'[q] = leaseLive[q]
      BY <3>1, DropLeaseEffect
    <3>3. RunJobAgreement'
      BY <2>11, <3>2 DEF CancelRun
    <3>4. LeaseNamesRunRunner'
      BY <2>11, <3>2 DEF CancelRun
    <3>5. ReplayRecognisesAuthor'
      BY <2>11, <3>2 DEF CancelRun
    <3>6. LockedRowIsClaimable'
      BY <2>11, <3>2 DEF CancelRun
    <3>7. OneRunPerKey'
      BY <2>11, <3>2 DEF CancelRun
    <3>8. FailureBudget' /\ Bookkeeping'
      BY <2>11, <3>2 DEF CancelRun
    <3>. QED
      BY <1>1, <3>3, <3>4, <3>5, <3>6, <3>7, <3>8 DEF QueueInv
  <2>12. ASSUME NEW r \in Runs, NEW v \in Results, ActionSubmitResult(r, v)
       PROVE  QueueInv'
    <3>1. DropLease({r}) /\ {r} \in SUBSET Runs
      BY <2>12 DEF ActionSubmitResult, Complete
    <3>2. \A q \in Runs :
            /\ q \in {r} => leaseOwner'[q] = None /\ ~leaseLive'[q]
            /\ q \notin {r} => /\ leaseOwner'[q] = leaseOwner[q]
                            /\ leaseLive'[q] = leaseLive[q]
      BY <3>1, DropLeaseEffect
    <3>3. RunJobAgreement'
      BY <2>12, <3>2 DEF ActionSubmitResult, Complete
    <3>4. LeaseNamesRunRunner'
      BY <2>12, <3>2 DEF ActionSubmitResult, Complete
    <3>5. ReplayRecognisesAuthor'
      BY <2>12, <3>2 DEF ActionSubmitResult, Complete
    <3>6. LockedRowIsClaimable'
      BY <2>12, <3>2 DEF ActionSubmitResult, Complete
    <3>7. OneRunPerKey'
      BY <2>12, <3>2 DEF ActionSubmitResult, Complete
    <3>8. FailureBudget' /\ Bookkeeping'
      BY <2>12, <3>2 DEF ActionSubmitResult, Complete
    <3>. QED
      BY <1>1, <3>3, <3>4, <3>5, <3>6, <3>7, <3>8 DEF QueueInv
  <2>13. ASSUME NEW r \in Runs, LeaseExpires(r)
       PROVE  QueueInv'
    <3>1. LeaseNamesRunRunner'
      BY <2>13 DEF LeaseExpires
    <3>2. LockedRowIsClaimable'
      BY <2>13 DEF LeaseExpires
    <3>3. RunJobAgreement' /\ ReplayRecognisesAuthor' /\ FailureBudget' /\ Bookkeeping' /\ OneRunPerKey'
      BY <2>13 DEF LeaseExpires
    <3>. QED
      BY <1>1, <3>1, <3>2, <3>3 DEF QueueInv
  <2>14. ASSUME NEW r \in Runs, BackoffElapses(r)
       PROVE  QueueInv'
    <3>1. LockedRowIsClaimable'
      BY <2>14 DEF BackoffElapses
    <3>2. Bookkeeping'
      BY <2>14 DEF BackoffElapses
    <3>3. RunJobAgreement' /\ LeaseNamesRunRunner' /\ ReplayRecognisesAuthor' /\ FailureBudget' /\ OneRunPerKey'
      BY <2>14 DEF BackoffElapses
    <3>. QED
      BY <1>1, <3>1, <3>2, <3>3 DEF QueueInv
  <2> HIDE <1>2 DEF TypeOK, RunStates, JobStates, Runs
  <2>. QED
    BY <1>3, <2>1, <2>2, <2>3, <2>4, <2>5, <2>6, <2>7, <2>8, <2>9, <2>10, <2>11, <2>12, <2>13, <2>14
    DEF Next, RunnerStep, RunStep
<1>4. CASE UNCHANGED vars
  BY <1>4 DEF vars, QueueInv
<1>. QED
  BY <1>3, <1>4

\* The queue's invariant: the run table, the job table, the locks and the key
\* table agree in every state the transactions can reach.
THEOREM QueueInvariant == Spec => []QueueInv
<1>1. Init => QueueInv
  BY ConstantsAssumption
  DEF Init, QueueInv, TypeOK, RunStates, JobStates, RunOpen, JobOpen, Runs,
      CredentialAccepted, RunJobAgreement, LeaseNamesRunRunner,
      ReplayRecognisesAuthor, LockedRowIsClaimable, FailureBudget, Bookkeeping,
      OneRunPerKey
<1>. QED
  BY <1>1, InvStep, PTL DEF Spec

\* Type correctness of the queue.
THEOREM TypeCorrect == Spec => []TypeOK
BY QueueInvariant, PTL DEF QueueInv

\* A claim never reopens a finished run, and a finished job has a run that
\* finished the same way.
THEOREM RunsAndJobsAgree == Spec => []RunJobAgreement
BY QueueInvariant, PTL DEF QueueInv

\* The lease and the run name the same runner, and no credential of another
\* runner is accepted.
THEOREM LeasesNameTheRunner == Spec => []LeaseNamesRunRunner
BY QueueInvariant, PTL DEF QueueInv

\* failJob never lets a job exceed its max_attempts failures.
THEOREM FailuresAreBounded == Spec => []FailureBudget
BY QueueInvariant, PTL DEF QueueInv

\* A step that rewrites the rows of one run only moves that run.
LEMMA OneRunMoves ==
  ASSUME NEW r \in Runs, NEW to, NEW w,
         \A q \in Runs \ {r} : /\ runState'[q] = runState[q]
                               /\ jobState'[q] = jobState[q]
                               /\ runRunner'[q] = runRunner[q],
         runStatus'[r] = to, runWorker'[r] = w
  PROVE  Contract!Move(r, to, w)
<1>1. runStatus' = [q \in Runs |-> IF q = r THEN to ELSE runStatus[q]]
  BY DEF runStatus, RunOpen
<1>2. runWorker' = [q \in Runs |-> IF q = r THEN w ELSE runWorker[q]]
  BY DEF runWorker, RunOpen
<1>3. runStatus = [q \in Runs |-> runStatus[q]] /\ runWorker = [q \in Runs |-> runWorker[q]]
  BY DEF runStatus, runWorker
<1>4. runStatus' = [runStatus EXCEPT ![r] = to]
  BY <1>1, <1>3
<1>5. runWorker' = [runWorker EXCEPT ![r] = w]
  BY <1>2, <1>3
<1>. QED
  BY <1>4, <1>5 DEF Contract!Move

\* Every step of the queue is a step of the contract or leaves it alone.
LEMMA StepRefines ==
  ASSUME QueueInv, QueueInv', Next
  PROVE  [Contract!Next]_(Contract!cvars)
<1> USE ConstantsAssumption
    DEF QueueInv, TypeOK, RunOpen, JobOpen, RunJobAgreement,
        LeaseNamesRunRunner, LockedRowIsClaimable
<1>1. ASSUME NEW k \in Keys, NEW r \in Runs, CreateRun(k, r)
      PROVE  Contract!Admit(r)
  <2>1. \A q \in Runs \ {r} : /\ runState'[q] = runState[q]
                              /\ jobState'[q] = jobState[q]
                              /\ runRunner'[q] = runRunner[q]
    BY <1>1 DEF CreateRun
  <2>2. runStatus[r] = "absent"
    BY <1>1 DEF CreateRun, runStatus, runWorker
  <2>3. runStatus'[r] = "waiting" /\ runWorker'[r] = None
    BY <1>1 DEF CreateRun, runStatus, runWorker
  <2>4. UNCHANGED <<runResult, author>>
    BY <1>1 DEF CreateRun
  <2>5. Contract!Move(r, "waiting", None)
    BY <2>1, <2>3, OneRunMoves
  <2>. QED
    BY <2>2, <2>4, <2>5 DEF Contract!Admit
<1>2. ASSUME NEW w \in Runners, NEW r \in Runs, ClaimCommit(w, r)
      PROVE  Contract!Assign(r, w)
  <2>1. \A q \in Runs \ {r} : /\ runState'[q] = runState[q]
                              /\ jobState'[q] = jobState[q]
                              /\ runRunner'[q] = runRunner[q]
    BY <1>2 DEF ClaimCommit, ClaimWrites, NextAttempt
  <2>2. runStatus[r] \in {"waiting", "assigned"}
    BY <1>2 DEF ClaimCommit, ClaimWrites, NextAttempt, runStatus, runWorker
  <2>3. runStatus'[r] = "assigned" /\ runWorker'[r] = w
    BY <1>2 DEF ClaimCommit, ClaimWrites, NextAttempt, runStatus, runWorker
  <2>4. UNCHANGED <<runResult, author>>
    BY <1>2 DEF ClaimCommit, ClaimWrites, NextAttempt
  <2>5. Contract!Move(r, "assigned", w)
    BY <2>1, <2>3, OneRunMoves
  <2>. QED
    BY <2>2, <2>4, <2>5 DEF Contract!Assign
<1>3. ASSUME NEW w \in Runners, NEW r \in Runs, NEW v \in Results,
             SubmitResult(w, r, v)
      PROVE  Contract!Deliver(r, w, v)
  <2>1. \A q \in Runs \ {r} : /\ runState'[q] = runState[q]
                              /\ jobState'[q] = jobState[q]
                              /\ runRunner'[q] = runRunner[q]
    BY <1>3 DEF SubmitResult, Complete
  <2>2. runStatus[r] = "assigned" /\ runWorker[r] = w
    BY <1>3 DEF SubmitResult, Complete, runStatus, runWorker
  <2>3. runStatus'[r] = "delivered" /\ runWorker'[r] = None
    BY <1>3 DEF SubmitResult, Complete, runStatus, runWorker
  <2>4. /\ runResult' = [runResult EXCEPT ![r] = v]
        /\ author' = [author EXCEPT ![r] = w]
    BY <1>3 DEF SubmitResult, Complete
  <2>5. Contract!Move(r, "delivered", None)
    BY <2>1, <2>3, OneRunMoves
  <2>. QED
    BY <2>2, <2>4, <2>5 DEF Contract!Deliver
<1>4. ASSUME NEW r \in Runs, CancelRun(r)
      PROVE  Contract!Cancel(r)
  <2>1. \A q \in Runs \ {r} : /\ runState'[q] = runState[q]
                              /\ jobState'[q] = jobState[q]
                              /\ runRunner'[q] = runRunner[q]
    BY <1>4 DEF CancelRun
  <2>2. runStatus[r] \in {"waiting", "assigned", "parked"}
    BY <1>4 DEF CancelRun, JobStates, runStatus, runWorker
  <2>3. runStatus'[r] = "cancelled" /\ runWorker'[r] = None
    BY <1>4 DEF CancelRun, runStatus, runWorker
  <2>4. UNCHANGED <<runResult, author>>
    BY <1>4 DEF CancelRun
  <2>5. Contract!Move(r, "cancelled", None)
    BY <2>1, <2>3, OneRunMoves
  <2>. QED
    BY <2>2, <2>4, <2>5 DEF Contract!Cancel
<1>5. ASSUME NEW r \in Runs, NEW v \in Results, ActionSubmitResult(r, v)
      PROVE  Contract!Deliver(r, "action", v)
  <2>1. \A q \in Runs \ {r} : /\ runState'[q] = runState[q]
                              /\ jobState'[q] = jobState[q]
                              /\ runRunner'[q] = runRunner[q]
    BY <1>5 DEF ActionSubmitResult, Complete
  <2>2. runStatus[r] \in {"waiting", "assigned", "parked"}
    BY <1>5 DEF ActionSubmitResult, Complete, JobStates, runStatus, runWorker
  <2>3. runStatus'[r] = "delivered" /\ runWorker'[r] = None
    BY <1>5 DEF ActionSubmitResult, Complete, runStatus, runWorker
  <2>4. /\ runResult' = [runResult EXCEPT ![r] = v]
        /\ author' = [author EXCEPT ![r] = "action"]
    BY <1>5 DEF ActionSubmitResult, Complete
  <2>5. Contract!Move(r, "delivered", None)
    BY <2>1, <2>3, OneRunMoves
  <2>. QED
    BY <2>2, <2>4, <2>5 DEF Contract!Deliver
<1>6. ASSUME NEW w \in Runners, NEW r \in Runs, NEW retryable \in BOOLEAN,
             FailJob(w, r, retryable)
      PROVE  Contract!GiveBack(r)
  <2>0. PICK to \in {"waiting", "parked"} :
          jobState'[r] = IF to = "parked" THEN "DEAD_LETTER" ELSE "QUEUED"
    BY <1>6 DEF FailJob, Fail
  <2>1. \A q \in Runs \ {r} : /\ runState'[q] = runState[q]
                              /\ jobState'[q] = jobState[q]
                              /\ runRunner'[q] = runRunner[q]
    BY <1>6 DEF FailJob, Fail, runVars
  <2>2. runStatus[r] = "assigned"
    BY <1>6 DEF FailJob, Fail, runStatus
  <2>3. runStatus'[r] = to /\ runWorker'[r] = None
    BY <1>6, <2>0 DEF FailJob, Fail, runStatus, runWorker, runVars
  <2>4. UNCHANGED <<runResult, author>>
    BY <1>6 DEF FailJob, Fail, runVars
  <2>5. Contract!Move(r, to, None)
    BY <2>1, <2>3, OneRunMoves
  <2>. QED
    BY <2>2, <2>4, <2>5 DEF Contract!GiveBack
<1>7. ASSUME NEW w \in Runners, RevokeRunner(w)
      PROVE  Contract!Recall(w)
  BY <1>7 DEF RevokeRunner, LeasedTo, DropLease, runVars, Contract!Recall,
              runStatus, runWorker
<1>8. ASSUME UNCHANGED <<runVars, jobState>>
      PROVE  UNCHANGED Contract!cvars
  BY <1>8 DEF runVars, runStatus, runWorker, Contract!cvars
<1>9. ASSUME NEW w \in Runners, RegisterRunner(w) \/ ClaimAbort(w)
      PROVE  UNCHANGED <<runVars, jobState>>
  BY <1>9 DEF RegisterRunner, ClaimAbort, jobVars
<1>10. ASSUME NEW w \in Runners, NEW r \in Runs,
              \/ ClaimSelect(w, r) \/ ExtendLease(w, r)
              \/ CredentialExpires(w, r)
       PROVE  UNCHANGED <<runVars, jobState>>
  BY <1>10 DEF ClaimSelect, ExtendLease, CredentialExpires, jobVars
<1>11. ASSUME NEW r \in Runs, LeaseExpires(r) \/ BackoffElapses(r)
       PROVE  UNCHANGED <<runVars, jobState>>
  BY <1>11 DEF LeaseExpires, BackoffElapses, jobVars
<1> HIDE DEF QueueInv, TypeOK
<1>12. ASSUME NEW w \in Runners, RunnerStep(w)
       PROVE  [Contract!Next]_(Contract!cvars)
  BY <1>2, <1>3, <1>6, <1>7, <1>8, <1>9, <1>10, <1>12
  DEF RunnerStep, Contract!Next
<1>13. ASSUME NEW r \in Runs, RunStep(r)
       PROVE  [Contract!Next]_(Contract!cvars)
  BY <1>1, <1>4, <1>5, <1>8, <1>11, <1>13 DEF RunStep, Contract!Next
<1>. QED
  BY <1>12, <1>13 DEF Next

\* The run queue implements the contract of RunContract: a run is assigned to
\* one runner at a time and delivered once, by that runner or by the Action.
THEOREM QueueImplementsContract == Spec => ContractSpec
<1>1. Init => Contract!Init
  BY DEF Init, Contract!Init, runStatus, runWorker, RunOpen
<1>2. QueueInv /\ QueueInv' /\ [Next]_vars => [Contract!Next]_(Contract!cvars)
  <2>1. CASE Next
    BY <2>1, StepRefines
  <2>2. CASE UNCHANGED vars
    BY <2>2 DEF vars, runVars, jobVars, runStatus, runWorker, RunOpen,
                Contract!cvars
  <2>. QED
    BY <2>1, <2>2
<1>. QED
  BY <1>1, <1>2, QueueInvariant, PTL DEF Spec, ContractSpec, Contract!Spec

\* A finished run is final.
THEOREM FinishedRunsStayFinished == Spec => FinishedRunIsFrozen
<1>1. QueueInv /\ [Next]_vars =>
        [\A r \in Runs :
           runState[r] \in {"COMPLETED", "CANCELLED"} =>
             /\ runState'[r] = runState[r]
             /\ runRunner'[r] = runRunner[r]
             /\ runResult'[r] = runResult[r]
             /\ author'[r] = author[r]]_vars
  <2> USE DEF QueueInv, TypeOK, RunJobAgreement, RunOpen, JobOpen,
              LeaseNamesRunRunner, LockedRowIsClaimable, runVars
  <2>1. ASSUME QueueInv, Next, NEW q \in Runs,
               runState[q] \in {"COMPLETED", "CANCELLED"}
        PROVE  /\ runState'[q] = runState[q]
               /\ runRunner'[q] = runRunner[q]
               /\ runResult'[q] = runResult[q]
               /\ author'[q] = author[q]
    <3>1. ASSUME NEW r \in Runs, \E k \in Keys : CreateRun(k, r)
          PROVE  UNCHANGED <<runState[q], runRunner[q], runResult[q], author[q]>>
      BY <2>1, <3>1 DEF CreateRun
    <3>2. ASSUME NEW w \in Runners, NEW r \in Runs, ClaimCommit(w, r)
          PROVE  UNCHANGED <<runState[q], runRunner[q], runResult[q], author[q]>>
      BY <2>1, <3>2 DEF ClaimCommit, ClaimWrites, NextAttempt
    <3>3. ASSUME NEW w \in Runners, NEW r \in Runs, NEW v \in Results,
                 SubmitResult(w, r, v)
          PROVE  UNCHANGED <<runState[q], runRunner[q], runResult[q], author[q]>>
      BY <2>1, <3>3 DEF SubmitResult, Complete
    <3>4. ASSUME NEW r \in Runs,
                 CancelRun(r) \/ \E v \in Results : ActionSubmitResult(r, v)
          PROVE  UNCHANGED <<runState[q], runRunner[q], runResult[q], author[q]>>
      BY <2>1, <3>4 DEF CancelRun, ActionSubmitResult, Complete
    <3>5. ASSUME NEW w \in Runners,
                 RegisterRunner(w) \/ RevokeRunner(w) \/ ClaimAbort(w)
          PROVE  UNCHANGED runVars
      BY <3>5 DEF RegisterRunner, RevokeRunner, ClaimAbort
    <3>6. ASSUME NEW w \in Runners, NEW r \in Runs,
                 \/ ClaimSelect(w, r) \/ ExtendLease(w, r)
                 \/ CredentialExpires(w, r)
                 \/ \E retryable \in BOOLEAN : FailJob(w, r, retryable)
          PROVE  UNCHANGED runVars
      BY <3>6 DEF ClaimSelect, ExtendLease, CredentialExpires, FailJob, Fail
    <3>7. ASSUME NEW r \in Runs, LeaseExpires(r) \/ BackoffElapses(r)
          PROVE  UNCHANGED runVars
      BY <3>7 DEF LeaseExpires, BackoffElapses
    <3> HIDE DEF QueueInv, TypeOK
    <3>. QED
      BY <2>1, <3>1, <3>2, <3>3, <3>4, <3>5, <3>6, <3>7
      DEF Next, RunnerStep, RunStep
  <2> HIDE DEF QueueInv, TypeOK
  <2>. QED
    BY <2>1
<1>. QED
  BY <1>1, QueueInvariant, PTL DEF Spec, FinishedRunIsFrozen
=============================================================================
