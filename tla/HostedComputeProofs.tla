------------------------ MODULE HostedComputeProofs ------------------------
(***************************************************************************)
(* Machine-checked proofs about HostedCompute, for any set of jobs and     *)
(* runners, any capacity and any number of open calls, with or without     *)
(* crashes.                                                                *)
(*                                                                         *)
(* Each step changes one lease and its job.  HostedInv therefore says of   *)
(* each by itself what its open calls know of it (LeaseHolds), beside the  *)
(* types; it is inductive.                                                 *)
(***************************************************************************)
EXTENDS HostedCompute, TLAPS

RunStates == {"QUEUED", "RUNNING", "COMPLETED", "CANCELLED"}
JobStates == {"QUEUED", "LEASED", "SUCCEEDED", "CANCELLED"}

\* Result, run and bill of a lease's job, and the calls that will meter it.
OutcomeHolds(l) ==
  /\ run[l] = "COMPLETED" <=> job[l] = "SUCCEEDED"
  /\ run[l] = "CANCELLED" <=> job[l] = "CANCELLED"
  /\ usage[l] = "COMPLETED" => job[l] = "SUCCEEDED"
  /\ usage[l] = "CANCELLED" => job[l] \in {"SUCCEEDED", "CANCELLED"}
  /\ complete[l] # "idle" => job[l] = "SUCCEEDED"
  /\ cancel[l].at = "closed" => job[l] \in {"SUCCEEDED", "CANCELLED"}

\* A runner is inserted once, by the call that has the lease, and what a call
\* has read of the row stays so.
RowHolds(l) ==
  /\ bound[l] <=> runner[l] # "ABSENT"
  /\ prov[l] # "idle" => runner[l] = "ABSENT"
  /\ lease[l] \in {"NONE", "REQUESTED"} => prov[l] = "idle" /\ runner[l] = "ABSENT"
  /\ cancel[l].bound => bound[l]
  /\ visit[l].bound => bound[l]
  /\ complete[l] # "idle" => bound[l]

\* A job that waits has been nobody's, and one that is pinned is its runner's.
PinHolds(j) ==
  /\ job[j] = "QUEUED" => assignee[j] = None
  /\ claimed[j] => assignee[j] = j
  /\ pinned[j] => /\ assignee[j] \in {None, j}
                  /\ lease[j] = "RUNNING" => assignee[j] = j

LeaseHolds(l) == OutcomeHolds(l) /\ RowHolds(l) /\ PinHolds(l)

HostedInv == TypeOK /\ \A l \in Jobs : LeaseHolds(l)
-----------------------------------------------------------------------------
LEMMA HostedInit == Init => HostedInv
BY HostedAssumption
   DEF Init, HostedInv, TypeOK, LeaseHolds, OutcomeHolds, RowHolds, PinHolds, Call, Idle,
       FinalStates, LeaseStates, scannedStates

\* A step of one lease leaves the others as they are.
LEMMA OthersHold ==
  ASSUME NEW k \in Jobs, LeaseHolds(k), run'[k] = run[k], job'[k] = job[k],
         assignee'[k] = assignee[k], pinned'[k] = pinned[k], lease'[k] = lease[k],
         bound'[k] = bound[k], runner'[k] = runner[k], usage'[k] = usage[k],
         prov'[k] = prov[k], cancel'[k] = cancel[k], complete'[k] = complete[k],
         visit'[k] = visit[k], claimed'[k] = claimed[k]
  PROVE  LeaseHolds(k)'
BY DEF LeaseHolds, OutcomeHolds, RowHolds, PinHolds

\* A request inserts the lease and pins a job that nobody has had.
LEMMA RequestKeeps ==
  ASSUME HostedInv, NEW l \in Jobs, Request(l)
  PROVE  HostedInv'
<1>1. \E b \in BOOLEAN : /\ pinned' = [pinned EXCEPT ![l] = b]
                         /\ b => job[l] = "QUEUED"
  BY DEF Request
<1>2. TypeOK'
  <2>1. pinned' \in [Jobs -> BOOLEAN] BY <1>1 DEF HostedInv, TypeOK
  <2>2. lease' \in [Jobs -> LeaseStates]
    BY DEF Request, SetLease, HostedInv, TypeOK, LeaseStates
  <2>3. UNCHANGED <<run, job, assignee, expired, bound, runner, usage, resource, callVars>>
    BY DEF Request
  <2>4. QED BY <2>1, <2>2, <2>3 DEF HostedInv, TypeOK, callVars
<1>3. LeaseHolds(l)'
  BY <1>1 DEF Request, SetLease, callVars, HostedInv, TypeOK, LeaseHolds, OutcomeHolds,
     RowHolds, PinHolds
<1>4. \A k \in Jobs \ {l} : LeaseHolds(k)'
  BY <1>1, OthersHold DEF Request, SetLease, callVars, HostedInv, TypeOK
<1>5. QED BY <1>2, <1>3, <1>4 DEF HostedInv

\* provisionNext.
LEMMA ProvisionKeeps ==
  ASSUME HostedInv, NEW l \in Jobs, ProvisionStep(l)
  PROVE  HostedInv'
<1>1. CASE ProvisionSelect(l)
  <2>1. TypeOK'
    BY <1>1
       DEF ProvisionSelect, SetLease, queueVars, HostedInv, TypeOK, LeaseStates,
           FinalStates
  <2>2. LeaseHolds(l)'
    BY <1>1
       DEF ProvisionSelect, SetLease, queueVars, HostedInv, TypeOK, LeaseHolds,
           OutcomeHolds, RowHolds, PinHolds
  <2>3. \A k \in Jobs \ {l} : LeaseHolds(k)'
    BY <1>1, OthersHold DEF ProvisionSelect, SetLease, queueVars, HostedInv, TypeOK
  <2>4. QED BY <2>1, <2>2, <2>3 DEF HostedInv
<1>2. CASE ProviderAnswers(l)
  <2>1. /\ prov[l] = "calling"
        /\ UNCHANGED <<queueVars, rowVars, cancel, complete, visit, claimed>>
        /\ \E answer \in {"returned", "retry", "fatal"} :
             prov' = [prov EXCEPT ![l] = answer]
    BY <1>2 DEF ProviderAnswers
  <2>2. TypeOK'
    <3>1. resource' \in [Jobs -> {"none", "live", "terminated", "missing"}]
      BY <1>2 DEF ProviderAnswers, HostedInv, TypeOK
    <3>2. prov' \in [Jobs -> {"idle", "calling", "returned", "retry", "fatal", "meter"}]
      BY <2>1 DEF HostedInv, TypeOK
    <3>3. QED BY <2>1, <3>1, <3>2 DEF HostedInv, TypeOK, queueVars, rowVars
  <2>3. LeaseHolds(l)'
    BY <2>1
       DEF queueVars, rowVars, HostedInv, TypeOK, LeaseHolds, OutcomeHolds, RowHolds,
           PinHolds
  <2>4. \A k \in Jobs \ {l} : LeaseHolds(k)'
    BY <2>1, OthersHold DEF queueVars, rowVars, HostedInv, TypeOK
  <2>5. QED BY <2>2, <2>3, <2>4 DEF HostedInv
<1>3. CASE ProvisionCommit(l)
  <2>1. TypeOK'
    BY <1>3
       DEF ProvisionCommit, SetLease, queueVars, HostedInv, TypeOK, LeaseStates,
           FinalStates
  <2>2. LeaseHolds(l)'
    BY <1>3
       DEF ProvisionCommit, SetLease, queueVars, HostedInv, TypeOK, LeaseHolds,
           OutcomeHolds, RowHolds, PinHolds
  <2>3. \A k \in Jobs \ {l} : LeaseHolds(k)'
    BY <1>3, OthersHold DEF ProvisionCommit, SetLease, queueVars, HostedInv, TypeOK
  <2>4. QED BY <2>1, <2>2, <2>3 DEF HostedInv
<1>4. CASE ProvisionRollback(l)
  <2>1. TypeOK'
    BY <1>4
       DEF ProvisionRollback, queueVars, rowVars, HostedInv, TypeOK, LeaseStates,
           FinalStates
  <2>2. LeaseHolds(l)'
    BY <1>4
       DEF ProvisionRollback, queueVars, rowVars, HostedInv, TypeOK, LeaseHolds,
           OutcomeHolds, RowHolds, PinHolds
  <2>3. \A k \in Jobs \ {l} : LeaseHolds(k)'
    BY <1>4, OthersHold DEF ProvisionRollback, queueVars, rowVars, HostedInv, TypeOK
  <2>4. QED BY <2>1, <2>2, <2>3 DEF HostedInv
<1>5. CASE ProvisionFails(l)
  <2>1. TypeOK'
    <3>1. lease' \in [Jobs -> LeaseStates]
      BY <1>5 DEF ProvisionFails, SetLease, HostedInv, TypeOK, LeaseStates, FinalStates
    <3>2. prov' \in [Jobs -> {"idle", "calling", "returned", "retry", "fatal", "meter"}]
      BY <1>5 DEF ProvisionFails, HostedInv, TypeOK
    <3>3. UNCHANGED <<queueVars, bound, runner, usage, resource, cancel, complete, visit,
                      claimed>>
      BY <1>5 DEF ProvisionFails
    <3>4. QED BY <3>1, <3>2, <3>3 DEF queueVars, HostedInv, TypeOK
  <2>2. LeaseHolds(l)'
    BY <1>5
       DEF ProvisionFails, SetLease, queueVars, HostedInv, TypeOK, LeaseHolds,
           OutcomeHolds, RowHolds, PinHolds
  <2>3. \A k \in Jobs \ {l} : LeaseHolds(k)'
    BY <1>5, OthersHold DEF ProvisionFails, SetLease, queueVars, HostedInv, TypeOK
  <2>4. QED BY <2>1, <2>2, <2>3 DEF HostedInv
<1>6. CASE ProvisionMeter(l)
  <2>1. TypeOK'
    BY <1>6
       DEF ProvisionMeter, Meter, queueVars, HostedInv, TypeOK, LeaseStates, FinalStates
  <2>2. LeaseHolds(l)'
    BY <1>6
       DEF ProvisionMeter, Meter, queueVars, HostedInv, TypeOK, LeaseHolds,
           OutcomeHolds, RowHolds, PinHolds
  <2>3. \A k \in Jobs \ {l} : LeaseHolds(k)'
    BY <1>6, OthersHold DEF ProvisionMeter, Meter, queueVars, HostedInv, TypeOK
  <2>4. QED BY <2>1, <2>2, <2>3 DEF HostedInv
<1>7. QED BY <1>1, <1>2, <1>3, <1>4, <1>5, <1>6 DEF ProvisionStep

CancelStates == {"idle", "read", "marked", "killed", "closed", "failed"}

\* A call goes on and remembers what it has read.
LEMMA MovedCall ==
  ASSUME NEW P, NEW calls \in [Jobs -> Call(P)], NEW l \in Jobs, NEW to \in P
  PROVE  /\ [calls EXCEPT ![l].at = to] \in [Jobs -> Call(P)]
         /\ [calls EXCEPT ![l].at = to][l].at = to
         /\ [calls EXCEPT ![l].at = to][l].bound = calls[l].bound
         /\ \A k \in Jobs \ {l} : [calls EXCEPT ![l].at = to][k] = calls[k]
BY DEF Call

\* cancel, and CloudService.cancelRun.
LEMMA CancelKeeps ==
  ASSUME HostedInv, NEW l \in Jobs, CancelPlain(l) \/ CancelRead(l) \/ CancelStep(l)
  PROVE  HostedInv'
<1>1. CASE CancelPlain(l)
  <2>1. TypeOK'
    BY <1>1
       DEF CancelPlain, rowVars, callVars, HostedInv, TypeOK, LeaseStates, FinalStates,
           Call
  <2>2. LeaseHolds(l)'
    BY <1>1
       DEF CancelPlain, rowVars, callVars, HostedInv, TypeOK, LeaseHolds, OutcomeHolds,
           RowHolds, PinHolds, Call
  <2>3. \A k \in Jobs \ {l} : LeaseHolds(k)'
    BY <1>1, OthersHold DEF CancelPlain, rowVars, callVars, HostedInv, TypeOK
  <2>4. QED BY <2>1, <2>2, <2>3 DEF HostedInv
<1>2. CASE CancelRead(l)
  <2>1. TypeOK'
    BY <1>2
       DEF CancelRead, queueVars, rowVars, HostedInv, TypeOK, LeaseStates, FinalStates,
           Call
  <2>2. LeaseHolds(l)'
    BY <1>2
       DEF CancelRead, queueVars, rowVars, HostedInv, TypeOK, LeaseHolds, OutcomeHolds,
           RowHolds, PinHolds, Call
  <2>3. \A k \in Jobs \ {l} : LeaseHolds(k)'
    BY <1>2, OthersHold DEF CancelRead, queueVars, rowVars, HostedInv, TypeOK
  <2>4. QED BY <2>1, <2>2, <2>3 DEF HostedInv
<1>3. CASE CancelMark(l)
  <2>1. TypeOK'
    BY <1>3
       DEF CancelMark, SetLease, queueVars, HostedInv, TypeOK, LeaseStates, FinalStates,
           Call
  <2>2. LeaseHolds(l)'
    BY <1>3
       DEF CancelMark, SetLease, queueVars, HostedInv, TypeOK, LeaseHolds, OutcomeHolds,
           RowHolds, PinHolds, Call
  <2>3. \A k \in Jobs \ {l} : LeaseHolds(k)'
    BY <1>3, OthersHold DEF CancelMark, SetLease, queueVars, HostedInv, TypeOK
  <2>4. QED BY <2>1, <2>2, <2>3 DEF HostedInv
<1>4. CASE CancelKill(l)
  <2>1. TypeOK'
    BY <1>4
       DEF CancelKill, Terminate, queueVars, rowVars, HostedInv, TypeOK, LeaseStates,
           FinalStates, Call
  <2>2. LeaseHolds(l)'
    BY <1>4
       DEF CancelKill, Terminate, queueVars, rowVars, HostedInv, TypeOK, LeaseHolds,
           OutcomeHolds, RowHolds, PinHolds, Call
  <2>3. \A k \in Jobs \ {l} : LeaseHolds(k)'
    BY <1>4, OthersHold DEF CancelKill, Terminate, queueVars, rowVars, HostedInv, TypeOK
  <2>4. QED BY <2>1, <2>2, <2>3 DEF HostedInv
<1>5. CASE CancelClose(l)
  <2>1. /\ cancel' \in [Jobs -> Call(CancelStates)]
        /\ cancel'[l].at = "closed" /\ cancel'[l].bound = cancel[l].bound
        /\ \A k \in Jobs \ {l} : cancel'[k] = cancel[k]
    <3>1. cancel \in [Jobs -> Call(CancelStates)] BY DEF HostedInv, TypeOK, CancelStates
    <3>2. cancel' = [cancel EXCEPT ![l].at = "closed"] BY <1>5 DEF CancelClose
    <3>3. QED BY <3>1, <3>2, MovedCall DEF CancelStates
  <2>2. /\ lease' = [lease EXCEPT ![l] = "TERMINATED"]
        /\ \/ cancel[l].bound /\ runner' = [runner EXCEPT ![l] = "REVOKED"]
           \/ runner' = [runner EXCEPT ![l] = runner[l]]
        /\ \/ job[l] = "SUCCEEDED" /\ job' = [job EXCEPT ![l] = "SUCCEEDED"]
           \/ job[l] # "SUCCEEDED" /\ job' = [job EXCEPT ![l] = "CANCELLED"]
        /\ \/ run[l] = "COMPLETED" /\ run' = [run EXCEPT ![l] = "COMPLETED"]
           \/ run[l] # "COMPLETED" /\ run' = [run EXCEPT ![l] = "CANCELLED"]
        /\ UNCHANGED <<assignee, expired, pinned, bound, usage, resource, prov,
                       complete, visit, claimed>>
    BY <1>5 DEF CancelClose, SetLease, Revoke
  <2>3. /\ run' \in [Jobs -> RunStates]
        /\ run[l] = "COMPLETED" => run'[l] = "COMPLETED"
        /\ run[l] # "COMPLETED" => run'[l] = "CANCELLED"
        /\ \A k \in Jobs \ {l} : run'[k] = run[k]
    <3>1. run \in [Jobs -> RunStates] BY DEF HostedInv, TypeOK, RunStates
    <3>2. QED BY <2>2, <3>1 DEF RunStates
  <2>4. /\ job' \in [Jobs -> JobStates]
        /\ job[l] = "SUCCEEDED" => job'[l] = "SUCCEEDED"
        /\ job[l] # "SUCCEEDED" => job'[l] = "CANCELLED"
        /\ \A k \in Jobs \ {l} : job'[k] = job[k]
    <3>1. job \in [Jobs -> JobStates] BY DEF HostedInv, TypeOK, JobStates
    <3>2. QED BY <2>2, <3>1 DEF JobStates
  <2>5. /\ runner' \in [Jobs -> {"ABSENT", "ACTIVE", "REVOKED"}]
        /\ runner'[l] # runner[l] => runner'[l] = "REVOKED" /\ cancel[l].bound
        /\ \A k \in Jobs \ {l} : runner'[k] = runner[k]
    <3>1. runner \in [Jobs -> {"ABSENT", "ACTIVE", "REVOKED"}] BY DEF HostedInv, TypeOK
    <3>2. CASE cancel[l].bound /\ runner' = [runner EXCEPT ![l] = "REVOKED"]
      BY <3>1, <3>2
    <3>3. CASE runner' = [runner EXCEPT ![l] = runner[l]]
      BY <3>1, <3>3
    <3>4. QED BY <2>2, <3>2, <3>3
  <2>6. /\ lease' \in [Jobs -> LeaseStates] /\ lease'[l] = "TERMINATED"
        /\ \A k \in Jobs \ {l} : lease'[k] = lease[k]
    BY <2>2 DEF HostedInv, TypeOK, LeaseStates
  <2>7. UNCHANGED <<assignee, expired, pinned, bound, usage, resource, prov,
                    complete, visit, claimed>>
    BY <2>2
  <2>8. TypeOK'
    BY <2>1, <2>3, <2>4, <2>5, <2>6, <2>7
       DEF HostedInv, TypeOK, RunStates, JobStates, CancelStates
  <2>9. LeaseHolds(l)'
    BY <2>1, <2>3, <2>4, <2>5, <2>6, <2>7
       DEF HostedInv, LeaseHolds, OutcomeHolds, RowHolds, PinHolds
  <2>10. \A k \in Jobs \ {l} : LeaseHolds(k)'
    BY <2>1, <2>3, <2>4, <2>5, <2>6, <2>7, OthersHold DEF HostedInv
  <2>11. QED BY <2>8, <2>9, <2>10 DEF HostedInv
<1>6. CASE CancelMeter(l)
  <2>1. TypeOK'
    BY <1>6
       DEF CancelMeter, Meter, Idle, queueVars, HostedInv, TypeOK, LeaseStates,
           FinalStates, Call
  <2>2. LeaseHolds(l)'
    BY <1>6
       DEF CancelMeter, Meter, Idle, queueVars, HostedInv, TypeOK, LeaseHolds,
           OutcomeHolds, RowHolds, PinHolds, Call
  <2>3. \A k \in Jobs \ {l} : LeaseHolds(k)'
    BY <1>6, OthersHold DEF CancelMeter, Meter, Idle, queueVars, HostedInv, TypeOK
  <2>4. QED BY <2>1, <2>2, <2>3 DEF HostedInv
<1>7. CASE CancelThrows(l)
  <2>1. cancel \in [Jobs -> Call(CancelStates)]
    BY HostedInv DEF HostedInv, TypeOK, CancelStates
  <2>2. cancel' = [cancel EXCEPT ![l].at = "failed"]
    BY <1>7 DEF CancelThrows
  <2>3. /\ cancel' \in [Jobs -> Call(CancelStates)]
        /\ cancel'[l].at = "failed" /\ cancel'[l].bound = cancel[l].bound
        /\ \A k \in Jobs \ {l} : cancel'[k] = cancel[k]
    BY <2>1, <2>2, MovedCall DEF CancelStates
  <2>4. TypeOK'
    BY <1>7, <2>1, <2>2, <2>3
       DEF CancelThrows, queueVars, rowVars, HostedInv, TypeOK, LeaseStates,
           FinalStates, Call, CancelStates
  <2>5. LeaseHolds(l)'
    BY <1>7, <2>1, <2>2, <2>3
       DEF CancelThrows, queueVars, rowVars, HostedInv, TypeOK, LeaseHolds,
           OutcomeHolds, RowHolds, PinHolds, Call
  <2>6. \A k \in Jobs \ {l} : LeaseHolds(k)'
    BY <1>7, <2>1, <2>2, <2>3, OthersHold
       DEF CancelThrows, queueVars, rowVars, HostedInv, TypeOK
  <2>7. QED BY <2>4, <2>5, <2>6 DEF HostedInv
<1>8. CASE CancelFails(l)
  <2>1. TypeOK'
    BY <1>8
       DEF CancelFails, SetLease, Idle, queueVars, HostedInv, TypeOK, LeaseStates,
           FinalStates, Call
  <2>2. LeaseHolds(l)'
    BY <1>8
       DEF CancelFails, SetLease, Idle, queueVars, HostedInv, TypeOK, LeaseHolds,
           OutcomeHolds, RowHolds, PinHolds, Call
  <2>3. \A k \in Jobs \ {l} : LeaseHolds(k)'
    BY <1>8, OthersHold DEF CancelFails, SetLease, Idle, queueVars, HostedInv, TypeOK
  <2>4. QED BY <2>1, <2>2, <2>3 DEF HostedInv
<1>9. QED BY <1>1, <1>2, <1>3, <1>4, <1>5, <1>6, <1>7, <1>8 DEF CancelStep

\* complete.
LEMMA CompleteKeeps ==
  ASSUME HostedInv, NEW l \in Jobs, CompleteStep(l)
  PROVE  HostedInv'
<1>1. CASE CompleteRead(l)
  <2>1. TypeOK'
    BY <1>1
       DEF CompleteRead, queueVars, rowVars, HostedInv, TypeOK, LeaseStates, FinalStates
  <2>2. LeaseHolds(l)'
    BY <1>1
       DEF CompleteRead, queueVars, rowVars, HostedInv, TypeOK, LeaseHolds,
           OutcomeHolds, RowHolds, PinHolds
  <2>3. \A k \in Jobs \ {l} : LeaseHolds(k)'
    BY <1>1, OthersHold DEF CompleteRead, queueVars, rowVars, HostedInv, TypeOK
  <2>4. QED BY <2>1, <2>2, <2>3 DEF HostedInv
<1>2. CASE CompleteKill(l)
  <2>1. TypeOK'
    BY <1>2
       DEF CompleteKill, Terminate, queueVars, rowVars, HostedInv, TypeOK, LeaseStates,
           FinalStates
  <2>2. LeaseHolds(l)'
    BY <1>2
       DEF CompleteKill, Terminate, queueVars, rowVars, HostedInv, TypeOK, LeaseHolds,
           OutcomeHolds, RowHolds, PinHolds
  <2>3. \A k \in Jobs \ {l} : LeaseHolds(k)'
    BY <1>2, OthersHold DEF CompleteKill, Terminate, queueVars, rowVars, HostedInv, TypeOK
  <2>4. QED BY <2>1, <2>2, <2>3 DEF HostedInv
<1>3. CASE CompleteClose(l)
  <2>1. TypeOK'
    BY <1>3
       DEF CompleteClose, SetLease, queueVars, HostedInv, TypeOK, LeaseStates,
           FinalStates
  <2>2. LeaseHolds(l)'
    BY <1>3
       DEF CompleteClose, SetLease, queueVars, HostedInv, TypeOK, LeaseHolds,
           OutcomeHolds, RowHolds, PinHolds
  <2>3. \A k \in Jobs \ {l} : LeaseHolds(k)'
    BY <1>3, OthersHold DEF CompleteClose, SetLease, queueVars, HostedInv, TypeOK
  <2>4. QED BY <2>1, <2>2, <2>3 DEF HostedInv
<1>4. CASE CompleteRevoke(l)
  <2>1. TypeOK'
    BY <1>4
       DEF CompleteRevoke, Revoke, queueVars, HostedInv, TypeOK, LeaseStates,
           FinalStates
  <2>2. LeaseHolds(l)'
    BY <1>4
       DEF CompleteRevoke, Revoke, queueVars, HostedInv, TypeOK, LeaseHolds,
           OutcomeHolds, RowHolds, PinHolds
  <2>3. \A k \in Jobs \ {l} : LeaseHolds(k)'
    BY <1>4, OthersHold DEF CompleteRevoke, Revoke, queueVars, HostedInv, TypeOK
  <2>4. QED BY <2>1, <2>2, <2>3 DEF HostedInv
<1>5. CASE CompleteMeter(l)
  <2>1. TypeOK'
    BY <1>5
       DEF CompleteMeter, Meter, queueVars, HostedInv, TypeOK, LeaseStates, FinalStates
  <2>2. LeaseHolds(l)'
    BY <1>5
       DEF CompleteMeter, Meter, queueVars, HostedInv, TypeOK, LeaseHolds, OutcomeHolds,
           RowHolds, PinHolds
  <2>3. \A k \in Jobs \ {l} : LeaseHolds(k)'
    BY <1>5, OthersHold DEF CompleteMeter, Meter, queueVars, HostedInv, TypeOK
  <2>4. QED BY <2>1, <2>2, <2>3 DEF HostedInv
<1>6. CASE CompleteThrows(l)
  <2>1. TypeOK'
    BY <1>6
       DEF CompleteThrows, queueVars, rowVars, HostedInv, TypeOK, LeaseStates,
           FinalStates
  <2>2. LeaseHolds(l)'
    BY <1>6
       DEF CompleteThrows, queueVars, rowVars, HostedInv, TypeOK, LeaseHolds,
           OutcomeHolds, RowHolds, PinHolds
  <2>3. \A k \in Jobs \ {l} : LeaseHolds(k)'
    BY <1>6, OthersHold DEF CompleteThrows, queueVars, rowVars, HostedInv, TypeOK
  <2>4. QED BY <2>1, <2>2, <2>3 DEF HostedInv
<1>7. CASE CompleteFails(l)
  <2>1. TypeOK'
    BY <1>7
       DEF CompleteFails, SetLease, queueVars, HostedInv, TypeOK, LeaseStates,
           FinalStates
  <2>2. LeaseHolds(l)'
    BY <1>7
       DEF CompleteFails, SetLease, queueVars, HostedInv, TypeOK, LeaseHolds,
           OutcomeHolds, RowHolds, PinHolds
  <2>3. \A k \in Jobs \ {l} : LeaseHolds(k)'
    BY <1>7, OthersHold DEF CompleteFails, SetLease, queueVars, HostedInv, TypeOK
  <2>4. QED BY <2>1, <2>2, <2>3 DEF HostedInv
<1>8. QED BY <1>1, <1>2, <1>3, <1>4, <1>5, <1>6, <1>7 DEF CompleteStep

\* The positions of a visit.
VisitStates == {"idle", "kill", "overdue", "timedOut", "revoke", "stuck", "fail",
                "meterTimeout", "meterLost"} \cup scannedStates

LEMMA VisitMoves ==
  ASSUME TypeOK, NEW l \in Jobs, NEW to \in VisitStates, VisitTo(l, to)
  PROVE  /\ visit' \in [Jobs -> Call(VisitStates)]
         /\ visit'[l].at = to /\ visit'[l].bound = visit[l].bound
         /\ \A k \in Jobs \ {l} : visit'[k] = visit[k]
<1>1. visit \in [Jobs -> Call(VisitStates)] BY DEF TypeOK, VisitStates
<1>2. visit' = [visit EXCEPT ![l].at = to] BY DEF VisitTo
<1>3. QED BY <1>1, <1>2, MovedCall

\* A visit that only reads and decides.
LEMMA VisitOnlyKeeps ==
  ASSUME HostedInv, NEW l \in Jobs, VisitOnly, visit' \in [Jobs -> Call(VisitStates)],
         \A k \in Jobs \ {l} : visit'[k] = visit[k], visit'[l].bound => bound[l]
  PROVE  HostedInv'
<1>1. TypeOK'
  BY DEF HostedInv, TypeOK, VisitOnly, VisitStates, queueVars, rowVars
<1>2. LeaseHolds(l)'
  BY DEF HostedInv, TypeOK, VisitOnly, LeaseHolds, OutcomeHolds, RowHolds, PinHolds,
     queueVars, rowVars
<1>3. \A k \in Jobs \ {l} : LeaseHolds(k)'
  BY OthersHold DEF HostedInv, TypeOK, VisitOnly, queueVars, rowVars
<1>4. QED BY <1>1, <1>2, <1>3 DEF HostedInv

LEMMA VisitReadsKeep ==
  ASSUME HostedInv, NEW l \in Jobs,
         SweepRead(l) \/ ScanRead(l) \/ ScanInspect(l) \/ VisitThrows(l)
  PROVE  HostedInv'
<1>1. VisitOnly /\ visit[l] \in Call(VisitStates)
  BY DEF SweepRead, ScanRead, ScanInspect, VisitThrows, HostedInv, TypeOK, VisitStates
<1>2. Idle \in Call(VisitStates) /\ ~Idle.bound BY DEF Idle, Call, VisitStates
<1>3. CASE ScanRead(l)
  <2>1. [at |-> lease[l], bound |-> bound[l]] \in Call(VisitStates)
    BY <1>3 DEF ScanRead, HostedInv, TypeOK, Call, VisitStates
  <2>2. visit' = [visit EXCEPT ![l] = [at |-> lease[l], bound |-> bound[l]]]
    BY <1>3 DEF ScanRead
  <2>3. visit' \in [Jobs -> Call(VisitStates)] /\ (visit'[l].bound => bound[l])
    BY <2>1, <2>2 DEF HostedInv, TypeOK, VisitStates
  <2>4. QED BY <1>1, <2>2, <2>3, VisitOnlyKeeps DEF HostedInv, TypeOK
<1>4. CASE visit' = [visit EXCEPT ![l] = Idle]
  <2>1. visit' \in [Jobs -> Call(VisitStates)] /\ ~visit'[l].bound
    BY <1>2, <1>4 DEF HostedInv, TypeOK, VisitStates
  <2>2. QED BY <1>1, <1>4, <2>1, VisitOnlyKeeps DEF HostedInv, TypeOK
<1>5. ASSUME NEW to \in VisitStates, VisitTo(l, to) PROVE HostedInv'
  <2>1. visit[l].bound => bound[l] BY DEF HostedInv, LeaseHolds, RowHolds
  <2>2. QED BY <1>1, <1>5, <2>1, VisitMoves, VisitOnlyKeeps DEF HostedInv
<1>6. CASE \E to \in {"kill", "fail", "overdue", "stuck"} : VisitTo(l, to)
  BY <1>5, <1>6 DEF VisitStates
<1>7. QED
  BY <1>3, <1>4, <1>6 DEF SweepRead, ScanInspect, VisitThrows

\* A visit of the reconciler.
LEMMA VisitKeeps ==
  ASSUME HostedInv, NEW l \in Jobs, VisitStep(l)
  PROVE  HostedInv'
<1>1. CASE SweepKill(l)
  <2>1. TypeOK'
    BY <1>1
       DEF SweepKill, Terminate, Idle, queueVars, rowVars, HostedInv, TypeOK,
           LeaseStates, FinalStates, Call
  <2>2. LeaseHolds(l)'
    BY <1>1
       DEF SweepKill, Terminate, Idle, queueVars, rowVars, HostedInv, TypeOK,
           LeaseHolds, OutcomeHolds, RowHolds, PinHolds, Call
  <2>3. \A k \in Jobs \ {l} : LeaseHolds(k)'
    BY <1>1, OthersHold DEF SweepKill, Terminate, Idle, queueVars, rowVars, HostedInv, TypeOK
  <2>4. QED BY <2>1, <2>2, <2>3 DEF HostedInv
<1>2. CASE ScanKill(l)
  <2>1. PICK to \in {"timedOut", "fail"} : VisitTo(l, to)
    BY <1>2 DEF ScanKill
  <2>2. /\ visit' \in [Jobs -> Call(VisitStates)]
        /\ visit'[l].at = to /\ visit'[l].bound = visit[l].bound
        /\ \A k \in Jobs \ {l} : visit'[k] = visit[k]
    BY <2>1, VisitMoves DEF HostedInv, VisitStates
  <2>3. TypeOK'
    BY <1>2, <2>1, <2>2
       DEF ScanKill, Terminate, VisitTo, queueVars, rowVars, HostedInv, TypeOK,
           LeaseStates, FinalStates, VisitStates
  <2>4. LeaseHolds(l)'
    BY <1>2, <2>1, <2>2
       DEF ScanKill, Terminate, VisitTo, queueVars, rowVars, HostedInv, TypeOK,
           LeaseHolds, OutcomeHolds, RowHolds, PinHolds
  <2>5. \A k \in Jobs \ {l} : LeaseHolds(k)'
    BY <1>2, <2>1, <2>2, OthersHold
       DEF ScanKill, Terminate, VisitTo, queueVars, rowVars, HostedInv, TypeOK
  <2>6. QED BY <2>3, <2>4, <2>5 DEF HostedInv
<1>3. CASE VisitFail(l)
  <2>1. PICK to \in {"revoke", "meterLost"} : VisitTo(l, to)
    BY <1>3 DEF VisitFail
  <2>2. /\ visit' \in [Jobs -> Call(VisitStates)]
        /\ visit'[l].at = to /\ visit'[l].bound = visit[l].bound
        /\ \A k \in Jobs \ {l} : visit'[k] = visit[k]
    BY <2>1, VisitMoves DEF HostedInv, VisitStates
  <2>3. TypeOK'
    BY <1>3, <2>1, <2>2
       DEF VisitFail, SetLease, VisitTo, queueVars, HostedInv, TypeOK, LeaseStates,
           FinalStates, VisitStates
  <2>4. LeaseHolds(l)'
    BY <1>3, <2>1, <2>2
       DEF VisitFail, SetLease, VisitTo, queueVars, HostedInv, TypeOK, LeaseHolds,
           OutcomeHolds, RowHolds, PinHolds
  <2>5. \A k \in Jobs \ {l} : LeaseHolds(k)'
    BY <1>3, <2>1, <2>2, OthersHold
       DEF VisitFail, SetLease, VisitTo, queueVars, HostedInv, TypeOK
  <2>6. QED BY <2>3, <2>4, <2>5 DEF HostedInv
<1>4. CASE VisitRevoke(l)
  <2>1. PICK to \in {"meterTimeout"} : VisitTo(l, to)
    BY <1>4 DEF VisitRevoke
  <2>2. /\ visit' \in [Jobs -> Call(VisitStates)]
        /\ visit'[l].at = to /\ visit'[l].bound = visit[l].bound
        /\ \A k \in Jobs \ {l} : visit'[k] = visit[k]
    BY <2>1, VisitMoves DEF HostedInv, VisitStates
  <2>3. TypeOK'
    BY <1>4, <2>1, <2>2
       DEF VisitRevoke, Revoke, VisitTo, queueVars, HostedInv, TypeOK, LeaseStates,
           FinalStates, VisitStates
  <2>4. LeaseHolds(l)'
    BY <1>4, <2>1, <2>2
       DEF VisitRevoke, Revoke, VisitTo, queueVars, HostedInv, TypeOK, LeaseHolds,
           OutcomeHolds, RowHolds, PinHolds
  <2>5. \A k \in Jobs \ {l} : LeaseHolds(k)'
    BY <1>4, <2>1, <2>2, OthersHold
       DEF VisitRevoke, Revoke, VisitTo, queueVars, HostedInv, TypeOK
  <2>6. QED BY <2>3, <2>4, <2>5 DEF HostedInv
<1>5. CASE VisitMeter(l)
  <2>1. TypeOK'
    BY <1>5
       DEF VisitMeter, Meter, Idle, queueVars, HostedInv, TypeOK, LeaseStates,
           FinalStates, Call
  <2>2. LeaseHolds(l)'
    BY <1>5
       DEF VisitMeter, Meter, Idle, queueVars, HostedInv, TypeOK, LeaseHolds,
           OutcomeHolds, RowHolds, PinHolds, Call
  <2>3. \A k \in Jobs \ {l} : LeaseHolds(k)'
    BY <1>5, OthersHold DEF VisitMeter, Meter, Idle, queueVars, HostedInv, TypeOK
  <2>4. QED BY <2>1, <2>2, <2>3 DEF HostedInv
<1>6. QED BY <1>1, <1>2, <1>3, <1>4, <1>5, VisitReadsKeep DEF VisitStep

\* Runners, and what they report.
LEMMA RunnersKeep ==
  ASSUME HostedInv, NEW l \in Jobs,
         \/ Heartbeat(l) \/ ClaimNotify(l) \/ JobLeaseExpires(l)
         \/ \E w \in Jobs \cup Self : Claim(w, l) \/ Submit(w, l)
  PROVE  HostedInv'
<1>1. CASE Heartbeat(l)
  <2>1. TypeOK'
    BY <1>1
       DEF Heartbeat, SetLease, queueVars, callVars, HostedInv, TypeOK, LeaseStates
  <2>2. LeaseHolds(l)'
    BY <1>1
       DEF Heartbeat, SetLease, queueVars, callVars, HostedInv, TypeOK, LeaseHolds,
           OutcomeHolds, RowHolds, PinHolds
  <2>3. \A k \in Jobs \ {l} : LeaseHolds(k)'
    BY <1>1, OthersHold DEF Heartbeat, SetLease, queueVars, callVars, HostedInv, TypeOK
  <2>4. QED BY <2>1, <2>2, <2>3 DEF HostedInv
<1>2. CASE ClaimNotify(l)
  <2>1. TypeOK'
    BY <1>2
       DEF ClaimNotify, SetLease, queueVars, HostedInv, TypeOK, LeaseStates
  <2>2. LeaseHolds(l)'
    BY <1>2
       DEF ClaimNotify, SetLease, queueVars, HostedInv, TypeOK, LeaseHolds,
           OutcomeHolds, RowHolds, PinHolds
  <2>3. \A k \in Jobs \ {l} : LeaseHolds(k)'
    BY <1>2, OthersHold DEF ClaimNotify, SetLease, queueVars, HostedInv, TypeOK
  <2>4. QED BY <2>1, <2>2, <2>3 DEF HostedInv
<1>3. CASE JobLeaseExpires(l)
  <2>1. TypeOK'
    BY <1>3
       DEF JobLeaseExpires, rowVars, callVars, HostedInv, TypeOK, LeaseStates
  <2>2. LeaseHolds(l)'
    BY <1>3
       DEF JobLeaseExpires, rowVars, callVars, HostedInv, TypeOK, LeaseHolds,
           OutcomeHolds, RowHolds, PinHolds
  <2>3. \A k \in Jobs \ {l} : LeaseHolds(k)'
    BY <1>3, OthersHold DEF JobLeaseExpires, rowVars, callVars, HostedInv, TypeOK
  <2>4. QED BY <2>1, <2>2, <2>3 DEF HostedInv
<1>4. ASSUME NEW w \in Jobs \cup Self, Claim(w, l) PROVE HostedInv'
  <2>1. TypeOK'
    BY <1>4, HostedAssumption
       DEF Claim, rowVars, Claimable, HostedInv, TypeOK, LeaseStates
  <2>2. LeaseHolds(l)'
    BY <1>4, HostedAssumption
       DEF Claim, rowVars, Claimable, HostedInv, TypeOK, LeaseHolds, OutcomeHolds,
           RowHolds, PinHolds
  <2>3. \A k \in Jobs \ {l} : LeaseHolds(k)'
    BY <1>4, HostedAssumption, OthersHold DEF Claim, rowVars, Claimable, HostedInv, TypeOK
  <2>4. QED BY <2>1, <2>2, <2>3 DEF HostedInv
<1>5. ASSUME NEW w \in Jobs \cup Self, Submit(w, l) PROVE HostedInv'
  <2>1. TypeOK'
    BY <1>5, HostedAssumption
       DEF Submit, rowVars, HostedInv, TypeOK, LeaseStates
  <2>2. LeaseHolds(l)'
    BY <1>5, HostedAssumption
       DEF Submit, rowVars, HostedInv, TypeOK, LeaseHolds, OutcomeHolds, RowHolds,
           PinHolds
  <2>3. \A k \in Jobs \ {l} : LeaseHolds(k)'
    BY <1>5, HostedAssumption, OthersHold DEF Submit, rowVars, HostedInv, TypeOK
  <2>4. QED BY <2>1, <2>2, <2>3 DEF HostedInv
<1>6. QED BY <1>1, <1>2, <1>3, <1>4, <1>5

\* The machine and the process.
LEMMA LossesKeep ==
  ASSUME HostedInv, NEW l \in Jobs, MachineLost(l) \/ Crash(l)
  PROVE  HostedInv'
<1>1. CASE MachineLost(l)
  <2>1. TypeOK'
    BY <1>1
       DEF MachineLost, queueVars, rowVars, callVars, HostedInv, TypeOK, LeaseStates
  <2>2. LeaseHolds(l)'
    BY <1>1
       DEF MachineLost, queueVars, rowVars, callVars, HostedInv, TypeOK, LeaseHolds,
           OutcomeHolds, RowHolds, PinHolds
  <2>3. \A k \in Jobs \ {l} : LeaseHolds(k)'
    BY <1>1, OthersHold DEF MachineLost, queueVars, rowVars, callVars, HostedInv, TypeOK
  <2>4. QED BY <2>1, <2>2, <2>3 DEF HostedInv
<1>2. CASE Crash(l)
  <2>1. TypeOK'
    BY <1>2
       DEF Crash, Idle, queueVars, rowVars, Call, HostedInv, TypeOK, LeaseStates
  <2>2. LeaseHolds(l)'
    BY <1>2
       DEF Crash, Idle, queueVars, rowVars, Call, HostedInv, TypeOK, LeaseHolds,
           OutcomeHolds, RowHolds, PinHolds
  <2>3. \A k \in Jobs \ {l} : LeaseHolds(k)'
    BY <1>2, OthersHold DEF Crash, Idle, queueVars, rowVars, Call, HostedInv, TypeOK
  <2>4. QED BY <2>1, <2>2, <2>3 DEF HostedInv
<1>3. QED BY <1>1, <1>2

LEMMA HostedStep == HostedInv /\ [Next]_vars => HostedInv'
<1> SUFFICES ASSUME HostedInv, [Next]_vars PROVE HostedInv'
  OBVIOUS
<1>1. CASE UNCHANGED vars
  BY <1>1 DEF vars, queueVars, rowVars, callVars, HostedInv, TypeOK, LeaseHolds,
     OutcomeHolds, RowHolds, PinHolds
<1>2. CASE Next
  BY <1>2, RequestKeeps, ProvisionKeeps, CancelKeeps, CompleteKeeps, VisitKeeps,
     RunnersKeep, LossesKeep DEF Next
<1>3. QED BY <1>1, <1>2

LEMMA HostedAlways == Spec => []HostedInv
BY HostedInit, HostedStep, PTL DEF Spec

\* Every variable keeps its type.
THEOREM TypesAreKept == Spec => []TypeOK
<1>1. HostedInv => TypeOK BY DEF HostedInv
<1>2. QED BY <1>1, HostedAlways, PTL

\* A run is completed and cancelled exactly as its job, and its bill does not
\* say otherwise, whichever of the calls ends the lease first.
THEOREM OutcomesAlwaysAgree == Spec => []OutcomesAgree
<1>1. HostedInv => OutcomesAgree
  BY DEF HostedInv, LeaseHolds, OutcomeHolds, OutcomesAgree, JobsAndRunsAgree,
     UsageTellsOutcome
<1>2. QED BY <1>1, HostedAlways, PTL

\* Two calls of provisionNext never work on one lease, and none inserts a
\* second runner for it, although nothing but the row's state keeps them apart.
THEOREM OneCallProvisions == Spec => []OneProvisionCall
<1>1. HostedInv => OneProvisionCall
  BY DEF HostedInv, LeaseHolds, RowHolds, OneProvisionCall
<1>2. QED BY <1>1, HostedAlways, PTL

\* A pinned job is its own runner's, and its lease runs only with it.
THEOREM PinnedJobsKeepTheirRunners == Spec => []PinnedJobKeepsItsRunner
<1>1. HostedInv => PinnedJobKeepsItsRunner
  BY DEF HostedInv, LeaseHolds, PinHolds, PinnedJobKeepsItsRunner
<1>2. QED BY <1>1, HostedAlways, PTL
=============================================================================
