---------------------------- MODULE BenchmarkRun ----------------------------
(***************************************************************************)
(* runBenchmark (packages/benchmark-engine): a pool of workers takes the   *)
(* attempts of a run in order, drives each through runIsolatedAttempt and  *)
(* the shared phase coordinator, retries what a BenchmarkRetryError asks   *)
(* for, and appends a write of the run file to one promise chain.  The     *)
(* main function waits for the workers and writes the final state.  The    *)
(* caller may abort the run, and the process may die at any time.          *)
(*                                                                         *)
(* An attempt's files, patch, usage and evidence are its outcome here.     *)
(* Synchronous stretches of code are one step: a check of the abort signal *)
(* with what follows it up to the next await.  Backoff delays are not      *)
(* modelled; they only postpone.  The coordinator is one per process: runs *)
(* that share it lengthen its queues, and wait as well when a phase is     *)
(* kept.                                                                   *)
(***************************************************************************)
EXTENDS Integers, Sequences, FiniteSets

CONSTANTS
  Workers,     \* min(parallelism, number of attempts) of them
  JobCount,    \* how many attempts the run has
  RetryLimit,  \* provider_retry_limit and infrastructure_retry_limit
  MayAbort,    \* does the caller hold an AbortSignal?
  MayCrash,    \* may the process die?
  None

\* The positions of the sorted list of attempts.
Jobs == 1 .. JobCount

RetryClasses == {"provider", "infrastructure"}
AttemptStates == {"COMPLETED", "FAILED", "TIMED_OUT", "CANCELLED"}

\* A parallelism below one is refused.
ASSUME BenchmarkAssumption ==
  /\ IsFiniteSet(Workers) /\ Workers # {}
  /\ JobCount \in Nat \ {0}
  /\ RetryLimit \in [RetryClasses -> Nat]
  /\ MayAbort \in BOOLEAN /\ MayCrash \in BOOLEAN
  /\ None \notin Workers /\ None \notin Jobs /\ None \notin AttemptStates
  /\ "main" \notin Workers

VARIABLES
  main,      \* where the main function is
  cursor,    \* the next position to take
  aborted,   \* the abort signal
  at,        \* where each worker is
  job,       \* the position a worker took
  outcome,   \* how its attempt ended
  retries,   \* the retries of its attempt, by class
  slots,     \* the attempts that have been recorded, by position
  chain,     \* workers whose write is in the promise chain, oldest first
  broken,    \* the promise chain is rejected
  inflight,  \* the write in progress and its snapshot
  file,      \* the run file
  assets,    \* workers whose private workspace may be on disk
  activeAgents, privateActive, waitingAgents, waitingPrivate, phase

phaseVars == <<activeAgents, privateActive, waitingAgents, waitingPrivate, phase>>
attemptVars == <<assets, phaseVars>>
workerVars == <<cursor, at, job, outcome, retries>>
storeVars == <<slots, chain, broken, inflight, file>>
bvars == <<main, aborted, workerVars, storeVars, attemptVars>>

Phases == INSTANCE PhaseCoordinator WITH Attempts <- Workers

Contents == [status : {"absent", "RUNNING", "COMPLETED", "CANCELLED"},
             attempts : [Jobs -> AttemptStates \cup {None}]]
Write == [by : Workers \cup {"main"}, content : Contents]

ASSUME NoneIsNoWrite == None \notin Write

RunTypeOK ==
  /\ main \in {"starting", "writing", "working", "final", "returned",
               "rejected", "crashed"}
  /\ cursor \in 1 .. JobCount + 1
  /\ aborted \in BOOLEAN
  /\ at \in [Workers -> {"unborn", "loop", "attempt", "finishing",
                         "persisting", "done", "threw"}]
  /\ job \in [Workers -> Jobs \cup {None}]
  /\ outcome \in [Workers -> AttemptStates \cup RetryClasses
                             \cup {"error", None}]
  /\ retries \in [Workers -> [RetryClasses -> Nat]]
  /\ \A w \in Workers : \A c \in RetryClasses : retries[w][c] <= RetryLimit[c]
  /\ slots \in [Jobs -> AttemptStates \cup {None}]
  /\ chain \in Seq(Workers)
  /\ broken \in BOOLEAN
  /\ inflight \in Write \cup {None}
  /\ file \in Contents

TypeOK == RunTypeOK /\ assets \in SUBSET Workers /\ Phases!PhaseTypeOK

NoRetries == [c \in RetryClasses |-> 0]
Empty == [j \in Jobs |-> None]

Init ==
  /\ main = "starting" /\ cursor = 1 /\ aborted = FALSE
  /\ at = [w \in Workers |-> "unborn"]
  /\ job = [w \in Workers |-> None]
  /\ outcome = [w \in Workers |-> None]
  /\ retries = [w \in Workers |-> NoRetries]
  /\ slots = Empty
  /\ chain = <<>> /\ broken = FALSE /\ inflight = None
  /\ file = [status |-> "absent", attempts |-> Empty]
  /\ assets = {}
  /\ Phases!PhaseInit

Snapshot(status) == [status |-> status, attempts |-> slots]
Alive == main # "crashed"
-----------------------------------------------------------------------------
(***************************************************************************)
(* The main function.                                                      *)
(***************************************************************************)
\* The first write: an empty run, so that an interruption is seen.
StartRun ==
  /\ main = "starting"
  /\ inflight' = [by |-> "main", content |-> Snapshot("RUNNING")]
  /\ main' = "writing"
  /\ UNCHANGED <<aborted, workerVars, slots, chain, broken, file, attemptVars>>

\* A slip: the signal is not looked at.
FinishRun_IgnoresAbort ==
  /\ main = "working"
  /\ \A w \in Workers : at[w] = "done"
  /\ inflight' = [by |-> "main", content |-> Snapshot("COMPLETED")]
  /\ main' = "final"
  /\ UNCHANGED <<aborted, workerVars, slots, chain, broken, file, attemptVars>>

\* Promise.all is fulfilled when every worker has returned; each of them has
\* awaited its own writes, so the chain is empty.
FinishRun ==
  /\ main = "working"
  /\ \A w \in Workers : at[w] = "done"
  /\ inflight' = [by |-> "main",
                  content |-> Snapshot(IF aborted THEN "CANCELLED" ELSE "COMPLETED")]
  /\ main' = "final"
  /\ UNCHANGED <<aborted, workerVars, slots, chain, broken, file, attemptVars>>

\* Promise.all is rejected by the first worker that throws; the others go on.
RejectRun ==
  /\ main = "working"
  /\ \E w \in Workers : at[w] = "threw"
  /\ main' = "rejected"
  /\ UNCHANGED <<aborted, workerVars, storeVars, attemptVars>>

\* writeRunAtomic ends a write of the main function, or throws.
MainWrites ==
  /\ main \in {"writing", "final"}
  /\ file' = inflight.content
  /\ inflight' = None
  /\ main' = IF main = "writing" THEN "working" ELSE "returned"
  /\ at' = IF main = "writing" THEN [w \in Workers |-> "loop"] ELSE at
  /\ UNCHANGED <<aborted, cursor, job, outcome, retries, slots, chain, broken,
                 attemptVars>>

MainWriteFails ==
  /\ main \in {"writing", "final"}
  /\ file' \in {file, inflight.content}
  /\ inflight' = None
  /\ main' = "rejected"
  /\ UNCHANGED <<aborted, workerVars, slots, chain, broken, attemptVars>>

Abort ==
  /\ MayAbort /\ Alive /\ ~aborted
  /\ aborted' = TRUE
  /\ UNCHANGED <<main, workerVars, storeVars, attemptVars>>

Crash ==
  /\ MayCrash /\ Alive
  /\ main' = "crashed"
  /\ UNCHANGED <<aborted, workerVars, storeVars, attemptVars>>

MainStep == StartRun \/ FinishRun \/ RejectRun \/ MainWrites \/ MainWriteFails
-----------------------------------------------------------------------------
(***************************************************************************)
(* The workers.                                                            *)
(***************************************************************************)
\* A slip: the cursor is advanced when the attempt has ended.
TakeJob_LateCursor(w) ==
  /\ Alive /\ at[w] = "loop"
  /\ IF aborted \/ cursor \notin Jobs
     THEN /\ at' = [at EXCEPT ![w] = "done"]
          /\ UNCHANGED <<cursor, job, retries>>
     ELSE /\ at' = [at EXCEPT ![w] = "attempt"]
          /\ job' = [job EXCEPT ![w] = cursor]
          /\ retries' = [retries EXCEPT ![w] = NoRetries]
          /\ \E next \in {cursor, cursor + 1} : cursor' = next
  /\ UNCHANGED <<main, aborted, outcome, storeVars, attemptVars>>

\* The head of the loop: stop when aborted or when no position is left.
TakeJob(w) ==
  /\ Alive /\ at[w] = "loop"
  /\ IF aborted \/ cursor \notin Jobs
     THEN /\ at' = [at EXCEPT ![w] = "done"]
          /\ UNCHANGED <<cursor, job, retries>>
     ELSE /\ at' = [at EXCEPT ![w] = "attempt"]
          /\ job' = [job EXCEPT ![w] = cursor]
          /\ retries' = [retries EXCEPT ![w] = NoRetries]
          /\ cursor' = cursor + 1
  /\ UNCHANGED <<main, aborted, outcome, storeVars, attemptVars>>

\* The attempt is over; its workspace is removed before the worker goes on.
Ends(w, how) ==
  /\ at' = [at EXCEPT ![w] = "finishing"]
  /\ outcome' = [outcome EXCEPT ![w] = how]

Unfinished == UNCHANGED <<at, outcome>>
AttemptFrame == UNCHANGED <<main, aborted, cursor, job, retries, storeVars>>

\* The workspace is being prepared: copying it fails, the abort is seen, or
\* the agent phase is asked for.
Prepare(w) ==
  /\ Alive /\ at[w] = "attempt" /\ phase[w] = "outside"
  /\ \/ Ends(w, "error") /\ UNCHANGED phaseVars
     \/ aborted /\ Ends(w, "CANCELLED") /\ UNCHANGED phaseVars
     \/ ~aborted /\ Phases!EnterAgent(w) /\ Unfinished
  /\ AttemptFrame /\ UNCHANGED assets

\* A slip: an agent that throws keeps its phase.
RunAgent_NoFinally(w) ==
  /\ Alive /\ at[w] = "attempt" /\ phase[w] = "agent"
  /\ \/ \E how \in RetryClasses \cup {"error"} :
          /\ Ends(w, how)
          /\ phase' = [phase EXCEPT ![w] = "outside"]
          /\ UNCHANGED <<activeAgents, privateActive, waitingAgents,
                         waitingPrivate>>
     \/ aborted /\ Ends(w, "CANCELLED") /\ Phases!ReleaseAgent(w, "outside")
     \/ /\ ~aborted
        /\ \/ /\ \E how \in {"FAILED", "TIMED_OUT"} : Ends(w, how)
              /\ Phases!ReleaseAgent(w, "outside")
           \/ Phases!ReleaseAgent(w, "verifying") /\ Unfinished
  /\ AttemptFrame /\ UNCHANGED assets

\* The agent returns or throws, its phase is released, and then the abort
\* signal is looked at: an attempt that was let in after the abort is one
\* that was cancelled, too.
RunAgent(w) ==
  /\ Alive /\ at[w] = "attempt" /\ phase[w] = "agent"
  /\ \/ /\ \E how \in RetryClasses \cup {"error"} : Ends(w, how)
        /\ Phases!ReleaseAgent(w, "outside")
     \/ aborted /\ Ends(w, "CANCELLED") /\ Phases!ReleaseAgent(w, "outside")
     \/ /\ ~aborted
        /\ \/ /\ \E how \in {"FAILED", "TIMED_OUT"} : Ends(w, how)
              /\ Phases!ReleaseAgent(w, "outside")
           \/ Phases!ReleaseAgent(w, "verifying") /\ Unfinished
  /\ AttemptFrame /\ UNCHANGED assets

\* Public verification and collection.  The signal is looked at after each
\* check and not after the diff, so the private phase may follow an abort.
Verify(w) ==
  /\ Alive /\ at[w] = "attempt" /\ phase[w] = "verifying"
  /\ \/ Ends(w, "error") /\ Phases!Leave(w)
     \/ aborted /\ Ends(w, "CANCELLED") /\ Phases!Leave(w)
     \/ Phases!EnterPrivate(w) /\ Unfinished
  /\ AttemptFrame /\ UNCHANGED assets

\* The private phase begins by making a workspace of its own: that fails, or
\* the hidden assets may be on disk from now on.
OpenPrivate(w) ==
  /\ Alive /\ at[w] = "attempt" /\ phase[w] = "private" /\ w \notin assets
  /\ \/ Ends(w, "error") /\ Phases!ReleasePrivate(w) /\ UNCHANGED assets
     \/ assets' = assets \cup {w} /\ Unfinished /\ UNCHANGED phaseVars
  /\ AttemptFrame

\* How private verification ends when the private workspace can be removed: it
\* throws, what follows it throws, or the signal is looked at.
PrivateEndings == RetryClasses \cup {"error", IF aborted THEN "CANCELLED" ELSE "COMPLETED"}

\* A slip: the phase is released although its workspace could not be removed.
VerifyPrivate_ReleasesAnyway(w) ==
  /\ Alive /\ at[w] = "attempt" /\ phase[w] = "private" /\ w \in assets
  /\ Phases!ReleasePrivate(w)
  /\ \/ assets' = assets \ {w} /\ \E how \in PrivateEndings : Ends(w, how)
     \/ UNCHANGED assets /\ Ends(w, "error")
  /\ AttemptFrame

\* Private verification returns or throws, its workspace is removed and its
\* phase is released.  When the removal throws, that error takes the place of
\* whatever the verification had to say, and the phase is not released.
VerifyPrivate(w) ==
  /\ Alive /\ at[w] = "attempt" /\ phase[w] = "private" /\ w \in assets
  /\ \/ /\ Phases!ReleasePrivate(w) /\ assets' = assets \ {w}
        /\ \E how \in PrivateEndings : Ends(w, how)
     \/ Phases!Keep(w) /\ UNCHANGED assets /\ Ends(w, "error")
  /\ AttemptFrame

\* The attempt is recorded and its write appended to the chain: when the
\* chain is rejected already, awaiting it throws.
Record(w) ==
  /\ Alive /\ at[w] = "finishing" /\ outcome[w] \in AttemptStates
  /\ slots' = [slots EXCEPT ![job[w]] = outcome[w]]
  /\ IF broken
     THEN at' = [at EXCEPT ![w] = "threw"] /\ UNCHANGED chain
     ELSE at' = [at EXCEPT ![w] = "persisting"] /\ chain' = Append(chain, w)
  /\ UNCHANGED <<main, aborted, cursor, job, outcome, retries, broken, inflight,
                 file, attemptVars>>

\* A BenchmarkRetryError is retried while its class has retries left; with
\* any other error the worker, and with it the run, throws.
Retry(w) ==
  /\ Alive /\ at[w] = "finishing" /\ outcome[w] \in RetryClasses
  /\ retries[w][outcome[w]] < RetryLimit[outcome[w]]
  /\ retries' = [retries EXCEPT ![w][outcome[w]] = @ + 1]
  /\ at' = [at EXCEPT ![w] = "attempt"]
  /\ UNCHANGED <<main, aborted, cursor, job, outcome, storeVars, attemptVars>>

GiveUp(w) ==
  /\ Alive /\ at[w] = "finishing"
  /\ \/ outcome[w] = "error"
     \/ /\ outcome[w] \in RetryClasses
        /\ retries[w][outcome[w]] >= RetryLimit[outcome[w]]
  /\ at' = [at EXCEPT ![w] = "threw"]
  /\ UNCHANGED <<main, aborted, cursor, job, outcome, retries, storeVars,
                 attemptVars>>

WorkerStep(w) ==
  TakeJob(w) \/ Prepare(w) \/ RunAgent(w) \/ Verify(w) \/ OpenPrivate(w)
  \/ VerifyPrivate(w) \/ Record(w) \/ Retry(w) \/ GiveUp(w)
-----------------------------------------------------------------------------
(***************************************************************************)
(* The promise chain.                                                      *)
(***************************************************************************)
\* The next link of the chain: the snapshot is taken when the write before it
\* has ended, so it may hold later attempts as well.
StartWrite ==
  /\ Alive /\ ~broken /\ chain # <<>> /\ inflight = None
  /\ inflight' = [by |-> Head(chain), content |-> Snapshot("RUNNING")]
  /\ UNCHANGED <<main, aborted, workerVars, slots, chain, broken, file, attemptVars>>

\* The rename has replaced the file; the worker that waits for it goes on.
EndWrite ==
  /\ Alive /\ inflight # None /\ inflight.by \in Workers
  /\ file' = inflight.content
  /\ inflight' = None
  /\ chain' = Tail(chain)
  /\ at' = [at EXCEPT ![inflight.by] = "loop"]
  /\ UNCHANGED <<main, aborted, cursor, job, outcome, retries, slots, broken,
                 attemptVars>>

\* A slip: a failed write is forgotten.
FailWrite_Ignored ==
  /\ Alive /\ inflight # None /\ inflight.by \in Workers
  /\ file' \in {file, inflight.content}
  /\ inflight' = None
  /\ chain' = Tail(chain)
  /\ at' = [at EXCEPT ![inflight.by] = "loop"]
  /\ UNCHANGED <<main, aborted, cursor, job, outcome, retries, slots, broken,
                 attemptVars>>

\* The write throws, before or after its rename: so does every worker that
\* waits for it or for a later one, and the chain stays rejected.
FailWrite ==
  /\ Alive /\ inflight # None /\ inflight.by \in Workers
  /\ file' \in {file, inflight.content}
  /\ inflight' = None
  /\ chain' = <<>>
  /\ broken' = TRUE
  /\ at' = [w \in Workers |-> IF at[w] = "persisting" THEN "threw" ELSE at[w]]
  /\ UNCHANGED <<main, aborted, cursor, job, outcome, retries, slots, attemptVars>>

ChainStep == StartWrite \/ EndWrite \/ FailWrite

\* inspectRunRecovery: what is made of the file that a run has left.
Recovery ==
  [status |-> IF file.status = "absent" THEN "CORRUPT" ELSE file.status,
   completed |-> {j \in Jobs : file.attempts[j] = "COMPLETED"},
   needsCleanRestart |-> file.status \in {"absent", "RUNNING"}]
-----------------------------------------------------------------------------
Next ==
  \/ MainStep \/ ChainStep \/ Abort \/ Crash
  \/ \E w \in Workers : WorkerStep(w)

Spec == Init /\ [][Next]_bvars

\* Agents, checks and writes end (they have timeouts); the rest is code that
\* runs when its promise is settled.
Fairness ==
  /\ WF_bvars(MainStep) /\ WF_bvars(ChainStep)
  /\ \A w \in Workers : WF_bvars(WorkerStep(w))

FairSpec == Spec /\ Fairness
-----------------------------------------------------------------------------
Holder(w, j) == job[w] = j /\ at[w] \in {"attempt", "finishing", "threw"}

\* Each position that was taken is in the hands of one worker or recorded, or
\* the error that ended its attempt ends the run; none is taken twice.
JobsAreAccounted ==
  \A j \in Jobs :
    /\ j < cursor => slots[j] # None \/ \E w \in Workers : Holder(w, j)
    /\ j >= cursor => slots[j] = None /\ \A w \in Workers : job[w] # j
    /\ \A v, w \in Workers : job[v] = j /\ job[w] = j => v = w

\* An attempt is on disk before its worker takes another one: what a crash
\* loses is what was still being written, or threw with its write.
AttemptIsDurable ==
  \A j \in Jobs :
    /\ file.attempts[j] \in {None, slots[j]}
    /\ slots[j] # None /\ file.attempts[j] = None =>
         \E w \in Workers : job[w] = j /\ at[w] \in {"persisting", "threw"}

\* inspectRunRecovery believes the status of the file: a completed file has
\* every attempt and none that was cancelled, a cancelled file or attempt
\* comes from an abort only, what is recovered as completed was, and unless
\* a clean restart is asked for no worker is at work and no write to come.
StatusTellsTheTruth ==
  /\ Recovery.status = "COMPLETED" => \A j \in Jobs :
       file.attempts[j] \notin {None, "CANCELLED"}
  /\ Recovery.status = "CANCELLED" => aborted
  /\ \A j \in Jobs : file.attempts[j] = "CANCELLED" => aborted
  /\ \A j \in Recovery.completed : slots[j] = "COMPLETED"
  /\ ~ Recovery.needsCleanRestart =>
       chain = <<>> /\ \A w \in Workers : at[w] = "done"

\* No agent works while the private workspace of a sibling may be on disk, and
\* none ever starts beside one that could not be removed: the phase is given
\* back after the removal only.
HiddenAssetsStayHidden ==
  \A w \in Workers : phase[w] = "agent" => assets = {}

\* A run ends, however its attempts do and wherever the others wait.  A worker
\* that took a position is through with it some day, also after the run was
\* rejected, unless a private phase was kept: then it may wait for ever.
RunEnds ==
  /\ main = "starting" ~> main \in {"returned", "rejected", "crashed"}
  /\ \A w \in Workers : at[w] = "attempt" ~>
       \/ at[w] \in {"finishing", "loop", "done", "threw"}
       \/ main = "crashed"
       \/ \E v \in Workers : phase[v] = "kept"
=============================================================================
