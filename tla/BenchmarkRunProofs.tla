------------------------- MODULE BenchmarkRunProofs -------------------------
(***************************************************************************)
(* Machine-checked proofs about BenchmarkRun, for any finite set of        *)
(* workers, any number of attempts and any limits of their retries, with   *)
(* or without aborts and crashes.                                          *)
(*                                                                         *)
(* RunInv says who has which position, who waits in the promise chain and  *)
(* whose write is in progress; FileInv, inductive relative to it, what the *)
(* file and the write in progress hold.  The last part shows that a run    *)
(* uses the phase coordinator the way PhaseCoordinator assumes.            *)
(***************************************************************************)
EXTENDS BenchmarkRun, TLAPS

AllDone == \A w \in Workers : at[w] = "done"

\* Whether a worker has a position, and whether that is recorded, goes with
\* where the worker is.
WorkersHaveJobs ==
  \A w \in Workers :
    /\ at[w] = "unborn" => job[w] = None
    /\ at[w] \in {"attempt", "finishing", "persisting", "threw"} => job[w] # None
    /\ at[w] \in {"attempt", "finishing"} => slots[job[w]] = None
    /\ at[w] \in {"loop", "persisting", "done"} /\ job[w] # None
         => slots[job[w]] # None
    /\ at[w] = "done" => aborted \/ cursor = JobCount + 1

\* The chain holds the workers that persist, each once, and the first of them
\* is the one whose write is in progress.
ChainInOrder ==
  /\ \A i, k \in 1 .. Len(chain) : chain[i] = chain[k] => i = k
  /\ \A w \in Workers :
       at[w] = "persisting" <=> \E i \in 1 .. Len(chain) : chain[i] = w
  /\ broken => chain = <<>>
  /\ inflight # None /\ inflight.by \in Workers
       => chain # <<>> /\ chain[1] = inflight.by

\* The main function writes before its workers are born and after they are done.
MainAndWorkers ==
  /\ main \in {"starting", "writing"} => \A w \in Workers : at[w] = "unborn"
  /\ main \in {"final", "returned"} => AllDone
  /\ main \in {"writing", "final"} => inflight \in Write /\ inflight.by = "main"
  /\ main = "writing" => inflight.content.status = "RUNNING"

RunInv == /\ RunTypeOK /\ JobsAreAccounted
          /\ WorkersHaveJobs /\ ChainInOrder /\ MainAndWorkers

\* What a file or a snapshot says is so, and stays so.
Holds(content) ==
  /\ \A j \in Jobs : content.attempts[j] \in {None, slots[j]}
  /\ content.status = "COMPLETED" => \A j \in Jobs :
       content.attempts[j] \notin {None, "CANCELLED"}
  /\ content.status = "CANCELLED" => aborted
  /\ content.status \in {"COMPLETED", "CANCELLED"} => AllDone

\* A write in progress adds to the file, its worker's attempt among others.
WriteAdds ==
  inflight # None =>
    /\ Holds(inflight.content)
    /\ \A j \in Jobs :
         file.attempts[j] # None => inflight.content.attempts[j] # None
    /\ inflight.by \in Workers =>
         inflight.content.attempts[job[inflight.by]] # None

\* Cancelled attempts come from an abort.
CancelledByAbort ==
  /\ \A j \in Jobs : slots[j] = "CANCELLED" => aborted
  /\ \A w \in Workers : outcome[w] = "CANCELLED" => aborted

FileInv == Holds(file) /\ WriteAdds /\ CancelledByAbort /\ AttemptIsDurable
-----------------------------------------------------------------------------
(***************************************************************************)
(* Positions, workers and the chain.                                       *)
(***************************************************************************)
LEMMA RunInit == Init => RunInv
<1> SUFFICES ASSUME Init PROVE RunInv
  OBVIOUS
<1>1. Empty \in [Jobs -> AttemptStates \cup {None}] BY DEF Empty
<1>2. file \in Contents BY <1>1 DEF Init, Contents
<1>3. retries \in [Workers -> [RetryClasses -> Nat]]
      /\ \A w \in Workers : \A c \in RetryClasses : retries[w][c] <= RetryLimit[c]
  <2>1. \A c \in RetryClasses : 0 <= RetryLimit[c] BY BenchmarkAssumption
  <2>2. QED BY <2>1 DEF Init, NoRetries
<1>4. 1 \in 1 .. JobCount + 1 BY BenchmarkAssumption
<1>5. RunTypeOK
  <2>1. <<>> \in Seq(Workers) OBVIOUS
  <2>2. QED BY <1>1, <1>2, <1>3, <1>4, <2>1 DEF Init, RunTypeOK
<1>6. JobsAreAccounted
  BY BenchmarkAssumption DEF Init, JobsAreAccounted, Empty, Jobs
<1>7. WorkersHaveJobs /\ ChainInOrder /\ MainAndWorkers
  BY DEF Init, WorkersHaveJobs, ChainInOrder, MainAndWorkers
<1>8. QED BY <1>5, <1>6, <1>7 DEF RunInv

\* What a snapshot holds is a content of the file.
LEMMA SnapshotIsContent ==
  ASSUME RunTypeOK, NEW status \in {"RUNNING", "COMPLETED", "CANCELLED"}
  PROVE  Snapshot(status) \in Contents
BY DEF RunTypeOK, Snapshot, Contents

LEMMA NobodyPersists ==
  ASSUME RunInv, \A w \in Workers : at[w] # "persisting"
  PROVE  chain = <<>>
<1>1. chain \in Seq(Workers) BY DEF RunInv, RunTypeOK
<1>2. ASSUME chain # <<>> PROVE FALSE
  <2>1. 1 \in 1 .. Len(chain) /\ chain[1] \in Workers BY <1>1, <1>2
  <2>2. QED BY <2>1 DEF RunInv, ChainInOrder
<1>3. QED BY <1>2

\* The worker whose write is in progress.
LEMMA WriterPersists ==
  ASSUME RunInv, inflight # None, inflight.by \in Workers
  PROVE  /\ inflight.content \in Contents /\ at[inflight.by] = "persisting"
         /\ chain # <<>> /\ chain[1] = inflight.by
         /\ job[inflight.by] \in Jobs /\ slots[job[inflight.by]] # None
<1>1. inflight \in Write /\ chain \in Seq(Workers) BY DEF RunInv, RunTypeOK
<1>2. chain # <<>> /\ chain[1] = inflight.by BY DEF RunInv, ChainInOrder
<1>3. 1 \in 1 .. Len(chain) BY <1>1, <1>2
<1>4. at[inflight.by] = "persisting" BY <1>2, <1>3 DEF RunInv, ChainInOrder
<1>5. QED BY <1>1, <1>2, <1>4 DEF RunInv, RunTypeOK, WorkersHaveJobs, Write

LEMMA MainKeepsRun ==
  ASSUME RunInv, MainStep \/ Abort \/ Crash
  PROVE  RunInv'
<1>1. CASE StartRun \/ FinishRun
  <2>1. PICK status \in {"RUNNING", "COMPLETED", "CANCELLED"} :
          inflight' = [by |-> "main", content |-> Snapshot(status)]
    BY <1>1 DEF StartRun, FinishRun
  <2>2. inflight' \in Write /\ inflight'.by = "main"
    BY <2>1, SnapshotIsContent DEF RunInv, Write
  <2>3. StartRun => inflight'.content.status = "RUNNING" BY DEF StartRun, Snapshot
  <2>4. UNCHANGED <<aborted, workerVars, slots, chain, broken, file>>
    BY <1>1 DEF StartRun, FinishRun
  <2>5. \/ main = "starting" /\ main' = "writing" /\ StartRun
        \/ main' = "final" /\ AllDone
    BY <1>1 DEF StartRun, FinishRun, AllDone
  <2>6. RunTypeOK' BY <2>2, <2>4, <2>5 DEF RunInv, RunTypeOK, workerVars
  <2>7. JobsAreAccounted' /\ WorkersHaveJobs'
    BY <2>4 DEF RunInv, JobsAreAccounted, Holder, WorkersHaveJobs, workerVars
  <2>8. ChainInOrder'
    BY <2>2, <2>4, BenchmarkAssumption DEF RunInv, ChainInOrder, workerVars
  <2>9. MainAndWorkers'
    BY <2>2, <2>3, <2>4, <2>5 DEF RunInv, MainAndWorkers, AllDone, workerVars
  <2>10. QED BY <2>6, <2>7, <2>8, <2>9 DEF RunInv
<1>2. CASE RejectRun \/ Abort \/ Crash
  <2>1. /\ UNCHANGED <<workerVars, storeVars>>
        /\ main' = main \/ main' \in {"rejected", "crashed"}
        /\ aborted' \in BOOLEAN /\ (aborted => aborted')
    BY <1>2 DEF RejectRun, Abort, Crash, RunInv, RunTypeOK
  <2>2. RunTypeOK' BY <2>1 DEF RunInv, RunTypeOK, workerVars, storeVars
  <2>3. JobsAreAccounted' /\ WorkersHaveJobs' /\ ChainInOrder' /\ MainAndWorkers'
    BY <2>1 DEF RunInv, JobsAreAccounted, Holder, WorkersHaveJobs, ChainInOrder,
       MainAndWorkers, AllDone, workerVars, storeVars
  <2>4. QED BY <2>2, <2>3 DEF RunInv
<1>3. CASE MainWrites \/ MainWriteFails
  <2>1. main \in {"writing", "final"} BY <1>3 DEF MainWrites, MainWriteFails
  <2>2. inflight \in Write BY <2>1 DEF RunInv, MainAndWorkers
  <2>3. /\ inflight' = None /\ file' \in {file, inflight.content}
        /\ UNCHANGED <<aborted, cursor, job, outcome, retries, slots, chain, broken>>
        /\ main' \in {"working", "returned", "rejected"}
        /\ main' = "returned" => main = "final"
        /\ \/ at' = at
           \/ main = "writing" /\ at' = [w \in Workers |-> "loop"]
    BY <1>3, <2>1 DEF MainWrites, MainWriteFails, workerVars
  <2>4. \A w \in Workers : main = "writing" => at[w] = "unborn"
    BY DEF RunInv, MainAndWorkers
  <2>5. at' = at \/ \A w \in Workers : /\ at[w] = "unborn" /\ job[w] = None
                                        /\ at'[w] = "loop"
    BY <2>3, <2>4 DEF RunInv, WorkersHaveJobs
  <2>6. RunTypeOK'
    <3>1. file' \in Contents BY <2>2, <2>3 DEF RunInv, RunTypeOK, Write
    <3>2. at' \in [Workers -> {"unborn", "loop", "attempt", "finishing",
                               "persisting", "done", "threw"}]
      BY <2>3 DEF RunInv, RunTypeOK
    <3>3. QED BY <2>3, <3>1, <3>2 DEF RunInv, RunTypeOK
  <2>7. JobsAreAccounted'
    BY <2>3, <2>5 DEF RunInv, JobsAreAccounted, Holder
  <2>8. WorkersHaveJobs' BY <2>3, <2>5 DEF RunInv, WorkersHaveJobs
  <2>9. ChainInOrder'
    <3>1. CASE at' = at BY <2>3, <3>1 DEF RunInv, ChainInOrder
    <3>2. CASE at' # at
      <4>1. \A w \in Workers : at[w] # "persisting" /\ at'[w] # "persisting"
        BY <2>5, <3>2
      <4>2. chain' = <<>> BY <2>3, <4>1, NobodyPersists
      <4>3. QED BY <2>3, <4>1, <4>2 DEF ChainInOrder
    <3>3. QED BY <3>1, <3>2
  <2>10. MainAndWorkers'
    BY <2>1, <2>3, BenchmarkAssumption DEF RunInv, MainAndWorkers, AllDone
  <2>11. QED BY <2>6, <2>7, <2>8, <2>9, <2>10 DEF RunInv
<1>4. QED BY <1>1, <1>2, <1>3 DEF MainStep

LEMMA TakeKeepsRun ==
  ASSUME RunInv, NEW w \in Workers, TakeJob(w)
  PROVE  RunInv'
<1>1. /\ at[w] = "loop" /\ UNCHANGED <<main, aborted, outcome, storeVars>>
      /\ main \notin {"starting", "writing", "final", "returned"}
  BY DEF TakeJob, RunInv, MainAndWorkers, AllDone
<1>2. CASE aborted \/ cursor \notin Jobs
  <2>1. at' = [at EXCEPT ![w] = "done"] /\ UNCHANGED <<cursor, job, retries>>
    BY <1>2 DEF TakeJob
  <2>2. aborted \/ cursor = JobCount + 1
    BY <1>2, BenchmarkAssumption DEF RunInv, RunTypeOK, Jobs
  <2>3. RunTypeOK' BY <1>1, <2>1 DEF RunInv, RunTypeOK, storeVars
  <2>4. JobsAreAccounted' /\ WorkersHaveJobs'
    BY <1>1, <2>1, <2>2 DEF RunInv, RunTypeOK, JobsAreAccounted, Holder, WorkersHaveJobs,
       storeVars
  <2>5. ChainInOrder' /\ MainAndWorkers'
    BY <1>1, <2>1 DEF RunInv, RunTypeOK, ChainInOrder, MainAndWorkers, storeVars
  <2>6. QED BY <2>3, <2>4, <2>5 DEF RunInv
<1>3. CASE ~(aborted \/ cursor \notin Jobs)
  <2>1. /\ at' = [at EXCEPT ![w] = "attempt"] /\ job' = [job EXCEPT ![w] = cursor]
        /\ retries' = [retries EXCEPT ![w] = NoRetries] /\ cursor' = cursor + 1
        /\ cursor \in Jobs
    BY <1>3 DEF TakeJob
  <2>2. cursor \in Nat /\ cursor + 1 \in 1 .. JobCount + 1 /\ cursor # None
    BY <2>1, BenchmarkAssumption DEF Jobs
  <2>3. RunTypeOK'
    <3>1. /\ NoRetries \in [RetryClasses -> Nat]
          /\ \A c \in RetryClasses : NoRetries[c] <= RetryLimit[c]
      BY BenchmarkAssumption DEF NoRetries
    <3>2. /\ retries' \in [Workers -> [RetryClasses -> Nat]]
          /\ \A v \in Workers : \A c \in RetryClasses : retries'[v][c] <= RetryLimit[c]
      BY <2>1, <3>1 DEF RunInv, RunTypeOK
    <3>3. QED BY <1>1, <2>1, <2>2, <3>2 DEF RunInv, RunTypeOK, storeVars
  <2>4. slots[cursor] = None /\ \A v \in Workers : job[v] # cursor
    BY <2>1, <2>2 DEF RunInv, JobsAreAccounted
  <2>5. JobsAreAccounted'
    <3> SUFFICES ASSUME NEW j \in Jobs
                 PROVE  /\ j < cursor' => slots'[j] # None \/ \E v \in Workers : Holder(v, j)'
                        /\ j >= cursor' => /\ slots'[j] = None
                                           /\ \A v \in Workers : job'[v] # j
                        /\ \A u, v \in Workers : job'[u] = j /\ job'[v] = j => u = v
      BY DEF JobsAreAccounted
    <3>1. j \in Nat BY DEF Jobs
    <3>2. \A v \in Workers : v # w => job'[v] = job[v] /\ at'[v] = at[v]
      BY <2>1 DEF RunInv, RunTypeOK
    <3>3. job'[w] = cursor /\ at'[w] = "attempt" /\ slots' = slots
      BY <1>1, <2>1 DEF RunInv, RunTypeOK, storeVars
    <3>4. CASE j = cursor
      BY <2>1, <2>2, <2>4, <3>2, <3>3, <3>4 DEF Holder
    <3>5. CASE j # cursor
      <4>1. j < cursor' => j < cursor BY <2>1, <2>2, <3>1, <3>5
      <4>2. j >= cursor' => j >= cursor BY <2>1, <2>2, <3>1
      <4>3. \A v \in Workers : Holder(v, j) => v # w BY <1>1 DEF Holder
      <4>4. j < cursor' => slots'[j] # None \/ \E v \in Workers : Holder(v, j)'
        BY <3>2, <3>3, <4>1, <4>3 DEF RunInv, JobsAreAccounted, Holder
      <4>5. QED BY <3>2, <3>3, <3>5, <4>2, <4>4 DEF RunInv, JobsAreAccounted
    <3>6. QED BY <3>4, <3>5
  <2>6. WorkersHaveJobs'
    <3>1. cursor # JobCount + 1 BY <2>1, BenchmarkAssumption DEF Jobs
    <3>2. QED
      BY <1>1, <1>3, <2>1, <2>2, <2>4, <3>1
         DEF RunInv, RunTypeOK, WorkersHaveJobs, storeVars
  <2>7. ChainInOrder' /\ MainAndWorkers'
    BY <1>1, <2>1 DEF RunInv, RunTypeOK, ChainInOrder, MainAndWorkers, storeVars
  <2>8. QED BY <2>3, <2>5, <2>6, <2>7 DEF RunInv
<1>4. QED BY <1>2, <1>3

Ending == AttemptStates \cup RetryClasses \cup {"error"}

AttemptStep(w) ==
  Prepare(w) \/ RunAgent(w) \/ Verify(w) \/ OpenPrivate(w) \/ VerifyPrivate(w)

\* What the steps of an attempt do, apart from its phase.
LEMMA AttemptSteps ==
  ASSUME NEW w \in Workers,
         AttemptStep(w)
  PROVE  /\ at[w] = "attempt" /\ AttemptFrame
         /\ \/ Unfinished
            \/ \E how \in Ending : Ends(w, how) /\ (how = "CANCELLED" => aborted)
<1>1. at[w] = "attempt" /\ AttemptFrame
  BY DEF AttemptStep, Prepare, RunAgent, Verify, OpenPrivate, VerifyPrivate
<1>2. CASE Prepare(w) BY <1>2 DEF Prepare, Ending, AttemptStates
<1>3. CASE RunAgent(w)
  <2>1. CASE \E how \in RetryClasses \cup {"error"} : Ends(w, how)
    BY <1>1, <2>1 DEF Ending, RetryClasses
  <2>2. CASE aborted /\ Ends(w, "CANCELLED") BY <1>1, <2>2 DEF Ending, AttemptStates
  <2>3. CASE \E how \in {"FAILED", "TIMED_OUT"} : Ends(w, how)
    BY <1>1, <2>3 DEF Ending, AttemptStates
  <2>4. CASE Unfinished BY <1>1, <2>4
  <2>5. QED BY <1>3, <2>1, <2>2, <2>3, <2>4 DEF RunAgent
<1>4. CASE Verify(w) BY <1>4 DEF Verify, Ending, AttemptStates
<1>5. CASE OpenPrivate(w) BY <1>5 DEF OpenPrivate, Ending
<1>6. CASE VerifyPrivate(w)
  <2>1. \E how \in PrivateEndings \cup {"error"} : Ends(w, how)
    BY <1>6 DEF VerifyPrivate
  <2>2. QED
    BY <1>1, <2>1 DEF PrivateEndings, Ending, AttemptStates, RetryClasses
<1>7. QED BY <1>2, <1>3, <1>4, <1>5, <1>6 DEF AttemptStep

\* A worker that keeps its position and stays out of the chain.
LEMMA WorkingKeepsRun ==
  ASSUME RunInv, NEW w \in Workers, RunTypeOK',
         UNCHANGED <<main, aborted, cursor, job, storeVars>>,
         at[w] \in {"attempt", "finishing"},
         \A v \in Workers : v # w => at'[v] = at[v],
         at'[w] \in {"attempt", "finishing", "threw"}
  PROVE  RunInv'
<1>1. JobsAreAccounted'
  <2>1. \A v \in Workers, j \in Jobs : Holder(v, j) => Holder(v, j)' BY DEF Holder
  <2>2. QED BY <2>1 DEF RunInv, JobsAreAccounted, storeVars
<1>2. WorkersHaveJobs' BY DEF RunInv, WorkersHaveJobs, storeVars
<1>3. ChainInOrder' BY DEF RunInv, ChainInOrder, storeVars
<1>4. MainAndWorkers' BY DEF RunInv, MainAndWorkers, AllDone, storeVars
<1>5. QED BY <1>1, <1>2, <1>3, <1>4 DEF RunInv

LEMMA AttemptKeepsRun ==
  ASSUME RunInv, NEW w \in Workers,
         AttemptStep(w)
  PROVE  RunInv'
<1>1. at[w] = "attempt" /\ UNCHANGED <<main, aborted, cursor, job, retries, storeVars>>
  BY AttemptSteps DEF AttemptFrame
<1>2. /\ outcome' \in [Workers -> Ending \cup {None}]
      /\ at' = at \/ at' = [at EXCEPT ![w] = "finishing"]
  BY AttemptSteps DEF Unfinished, Ends, RunInv, RunTypeOK, Ending
<1>3. RunTypeOK' BY <1>1, <1>2 DEF RunInv, RunTypeOK, storeVars, Ending
<1>4. /\ \A v \in Workers : v # w => at'[v] = at[v]
      /\ at'[w] \in {"attempt", "finishing"}
  BY <1>1, <1>2 DEF RunInv, RunTypeOK
<1>5. QED BY <1>1, <1>3, <1>4, WorkingKeepsRun

\* The position of a finished attempt, which nobody has recorded.
LEMMA FinishedHasJob ==
  ASSUME RunInv, NEW w \in Workers, at[w] = "finishing"
  PROVE  /\ job[w] \in Jobs /\ job[w] < cursor /\ slots[job[w]] = None
         /\ \A v \in Workers : job[v] = job[w] => v = w
<1>1. job[w] \in Jobs /\ slots[job[w]] = None BY DEF RunInv, RunTypeOK, WorkersHaveJobs
<1>2. cursor \in Nat /\ job[w] \in Nat BY <1>1 DEF RunInv, RunTypeOK, Jobs
<1>3. QED BY <1>1, <1>2 DEF RunInv, JobsAreAccounted

LEMMA RecordKeepsRun ==
  ASSUME RunInv, NEW w \in Workers, Record(w)
  PROVE  RunInv'
<1>1. /\ at[w] = "finishing" /\ outcome[w] \in AttemptStates
      /\ slots' = [slots EXCEPT ![job[w]] = outcome[w]]
      /\ UNCHANGED <<main, aborted, cursor, job, outcome, retries, broken, inflight, file>>
  BY DEF Record
<1>2. /\ job[w] \in Jobs /\ job[w] < cursor /\ slots[job[w]] = None
      /\ \A v \in Workers : job[v] = job[w] => v = w
  BY <1>1, FinishedHasJob
<1>3. \/ at' = [at EXCEPT ![w] = "threw"] /\ chain' = chain /\ broken
      \/ at' = [at EXCEPT ![w] = "persisting"] /\ chain' = Append(chain, w) /\ ~broken
  BY DEF Record
<1>4. outcome[w] # None BY <1>1, BenchmarkAssumption
<1>5. /\ slots'[job[w]] # None
      /\ \A j \in Jobs : j # job[w] => slots'[j] = slots[j]
      /\ \A v \in Workers : v # w => at'[v] = at[v]
      /\ at'[w] \in {"threw", "persisting"}
  BY <1>1, <1>2, <1>3, <1>4 DEF RunInv, RunTypeOK
<1>6. RunTypeOK'
  <2>1. slots' \in [Jobs -> AttemptStates \cup {None}] BY <1>1 DEF RunInv, RunTypeOK
  <2>2. /\ chain' \in Seq(Workers)
        /\ at' \in [Workers -> {"unborn", "loop", "attempt", "finishing",
                                "persisting", "done", "threw"}]
    <3>1. chain \in Seq(Workers) BY DEF RunInv, RunTypeOK
    <3>2. chain' = chain \/ chain' = Append(chain, w) BY <1>3
    <3>3. chain' \in Seq(Workers) BY <3>1, <3>2
    <3>4. QED BY <1>3, <3>3 DEF RunInv, RunTypeOK
  <2>3. QED BY <1>1, <2>1, <2>2 DEF RunInv, RunTypeOK
<1>7. JobsAreAccounted'
  <2> SUFFICES ASSUME NEW j \in Jobs
               PROVE  /\ j < cursor' => slots'[j] # None \/ \E v \in Workers : Holder(v, j)'
                      /\ j >= cursor' => /\ slots'[j] = None
                                         /\ \A v \in Workers : job'[v] # j
                      /\ \A u, v \in Workers : job'[u] = j /\ job'[v] = j => u = v
    BY DEF JobsAreAccounted
  <2>1. CASE j = job[w]
    <3>1. ~(j >= cursor) BY <1>2, <2>1 DEF RunInv, RunTypeOK, Jobs
    <3>2. QED BY <1>1, <1>2, <1>5, <2>1, <3>1 DEF RunInv, JobsAreAccounted
  <2>2. CASE j # job[w]
    <3>1. \A v \in Workers : Holder(v, j) => v # w BY <2>2 DEF Holder
    <3>2. \A v \in Workers : Holder(v, j) => Holder(v, j)'
      BY <1>1, <1>5, <3>1 DEF Holder
    <3>3. QED BY <1>1, <1>5, <2>2, <3>2 DEF RunInv, JobsAreAccounted
  <2>3. QED BY <2>1, <2>2
<1>8. WorkersHaveJobs'
  <2>1. \A v \in Workers : v # w => job[v] # job[w] BY <1>2
  <2>2. \A v \in Workers : v # w /\ job[v] # None => slots'[job[v]] = slots[job[v]]
    BY <1>5, <2>1 DEF RunInv, RunTypeOK
  <2>3. job[w] # None BY <1>2, BenchmarkAssumption
  <2>4. QED BY <1>1, <1>5, <2>2, <2>3 DEF RunInv, WorkersHaveJobs
<1>9. ChainInOrder'
  <2>1. CASE chain' = chain /\ at'[w] = "threw"
    BY <1>1, <1>5, <2>1 DEF RunInv, ChainInOrder
  <2>2. CASE chain' = Append(chain, w) /\ at'[w] = "persisting" /\ ~broken
    <3>1. /\ Len(chain) \in Nat /\ Len(chain') = Len(chain) + 1
          /\ chain'[Len(chain) + 1] = w
          /\ \A i \in 1 .. Len(chain) : chain'[i] = chain[i] /\ chain[i] \in Workers
      BY <2>2 DEF RunInv, RunTypeOK
    <3>2. \A i \in 1 .. Len(chain) : chain[i] # w
      BY <1>1 DEF RunInv, ChainInOrder
    <3>3. \A i, k \in 1 .. Len(chain') : chain'[i] = chain'[k] => i = k
      BY <3>1, <3>2 DEF RunInv, ChainInOrder
    <3>4. \A v \in Workers :
            at'[v] = "persisting" <=> \E i \in 1 .. Len(chain') : chain'[i] = v
      <4>1. \A v \in Workers : v # w =>
              ((\E i \in 1 .. Len(chain') : chain'[i] = v)
                 <=> \E i \in 1 .. Len(chain) : chain[i] = v)
        BY <3>1
      <4>2. QED BY <1>5, <2>2, <3>1, <4>1 DEF RunInv, ChainInOrder
    <3>5. inflight # None /\ inflight.by \in Workers
            => chain' # <<>> /\ chain'[1] = inflight.by
      <4>1. ASSUME chain # <<>> PROVE chain' # <<>> /\ chain'[1] = chain[1]
        BY <3>1, <4>1 DEF RunInv, RunTypeOK
      <4>2. QED BY <4>1 DEF RunInv, ChainInOrder
    <3>6. QED BY <1>1, <2>2, <3>3, <3>4, <3>5 DEF ChainInOrder
  <2>3. QED BY <1>3, <2>1, <2>2 DEF RunInv, RunTypeOK
<1>10. MainAndWorkers'
  BY <1>1, <1>5 DEF RunInv, MainAndWorkers, AllDone
<1>11. QED BY <1>6, <1>7, <1>8, <1>9, <1>10 DEF RunInv

LEMMA RetryKeepsRun ==
  ASSUME RunInv, NEW w \in Workers, Retry(w) \/ GiveUp(w)
  PROVE  RunInv'
<1>1. /\ at[w] = "finishing"
      /\ UNCHANGED <<main, aborted, cursor, job, outcome, storeVars>>
      /\ at' = [at EXCEPT ![w] = "attempt"] \/ at' = [at EXCEPT ![w] = "threw"]
  BY DEF Retry, GiveUp
<1>2. /\ retries' \in [Workers -> [RetryClasses -> Nat]]
      /\ \A v \in Workers : \A c \in RetryClasses : retries'[v][c] <= RetryLimit[c]
  <2>1. CASE UNCHANGED retries BY <2>1 DEF RunInv, RunTypeOK
  <2>2. CASE Retry(w)
    <3> DEFINE k == outcome[w]
    <3>1. /\ k \in RetryClasses /\ retries[w][k] < RetryLimit[k]
          /\ retries' = [retries EXCEPT ![w][k] = @ + 1]
      BY <2>2 DEF Retry
    <3>2. retries[w][k] \in Nat /\ RetryLimit[k] \in Nat
      BY <3>1, BenchmarkAssumption DEF RunInv, RunTypeOK
    <3>3. /\ retries' = [retries EXCEPT ![w] = [retries[w] EXCEPT ![k] = retries[w][k] + 1]]
          /\ retries[w] \in [RetryClasses -> Nat]
      BY <3>1 DEF RunInv, RunTypeOK
    <3>4. /\ [retries[w] EXCEPT ![k] = retries[w][k] + 1] \in [RetryClasses -> Nat]
          /\ \A c \in RetryClasses :
               [retries[w] EXCEPT ![k] = retries[w][k] + 1][c] <= RetryLimit[c]
      BY <3>1, <3>2, <3>3 DEF RunInv, RunTypeOK
    <3>5. QED BY <3>3, <3>4 DEF RunInv, RunTypeOK
  <2>3. QED BY <2>1, <2>2 DEF GiveUp
<1>3. RunTypeOK' BY <1>1, <1>2 DEF RunInv, RunTypeOK, storeVars
<1>4. /\ \A v \in Workers : v # w => at'[v] = at[v]
      /\ at'[w] \in {"attempt", "threw"}
  BY <1>1 DEF RunInv, RunTypeOK
<1>5. QED BY <1>1, <1>3, <1>4, WorkingKeepsRun

LEMMA StartWriteKeepsRun == ASSUME RunInv, StartWrite PROVE RunInv'
<1>1. /\ chain # <<>> /\ inflight = None
      /\ inflight' = [by |-> Head(chain), content |-> Snapshot("RUNNING")]
      /\ UNCHANGED <<main, aborted, workerVars, slots, chain, broken, file>>
  BY DEF StartWrite
<1>2. chain \in Seq(Workers) /\ Head(chain) = chain[1] /\ chain[1] \in Workers
  BY <1>1 DEF RunInv, RunTypeOK
<1>3. inflight' \in Write BY <1>1, <1>2, SnapshotIsContent DEF RunInv, Write
<1>4. at[chain[1]] = "persisting"
  <2>1. 1 \in 1 .. Len(chain) BY <1>1, <1>2
  <2>2. QED BY <1>2, <2>1 DEF RunInv, ChainInOrder
<1>5. main \notin {"starting", "writing", "final", "returned"}
  BY <1>2, <1>4 DEF RunInv, MainAndWorkers, AllDone
<1>6. RunTypeOK' BY <1>1, <1>3 DEF RunInv, RunTypeOK, workerVars
<1>7. JobsAreAccounted' /\ WorkersHaveJobs'
  BY <1>1 DEF RunInv, JobsAreAccounted, Holder, WorkersHaveJobs, workerVars
<1>8. ChainInOrder' BY <1>1, <1>2 DEF RunInv, ChainInOrder, workerVars
<1>9. MainAndWorkers' BY <1>1, <1>5 DEF MainAndWorkers
<1>10. QED BY <1>6, <1>7, <1>8, <1>9 DEF RunInv

LEMMA EndWriteKeepsRun == ASSUME RunInv, EndWrite PROVE RunInv'
<1> DEFINE w == inflight.by
<1>1. /\ w \in Workers /\ inflight # None /\ file' = inflight.content /\ inflight' = None
      /\ chain' = Tail(chain) /\ at' = [at EXCEPT ![w] = "loop"]
      /\ UNCHANGED <<main, aborted, cursor, job, outcome, retries, slots, broken>>
  BY DEF EndWrite
<1>2. /\ inflight.content \in Contents /\ at[w] = "persisting" /\ chain # <<>>
      /\ chain[1] = w /\ job[w] \in Jobs /\ slots[job[w]] # None
  BY <1>1, WriterPersists
<1>3. /\ chain \in Seq(Workers) /\ Tail(chain) \in Seq(Workers)
      /\ Len(chain) \in Nat /\ Len(chain) >= 1 /\ Len(chain') = Len(chain) - 1
      /\ \A i \in 1 .. Len(chain) - 1 : chain'[i] = chain[i + 1]
  BY <1>1, <1>2 DEF RunInv, RunTypeOK
<1>4. main \notin {"starting", "writing", "final", "returned"}
  BY <1>1, <1>2 DEF RunInv, MainAndWorkers, AllDone
<1>5. RunTypeOK' BY <1>1, <1>2, <1>3 DEF RunInv, RunTypeOK
<1>6. JobsAreAccounted'
  <2>1. \A v \in Workers, j \in Jobs : Holder(v, j) => Holder(v, j)'
    BY <1>1, <1>2 DEF RunInv, RunTypeOK, Holder
  <2>2. QED BY <1>1, <2>1 DEF RunInv, JobsAreAccounted
<1>7. WorkersHaveJobs'
  BY <1>1, <1>2 DEF RunInv, RunTypeOK, WorkersHaveJobs
<1>8. ChainInOrder'
  <2>1. \A i, k \in 1 .. Len(chain') : chain'[i] = chain'[k] => i = k
    BY <1>3 DEF RunInv, ChainInOrder
  <2>2. \A i \in 1 .. Len(chain') : chain'[i] # w
    <3>1. \A i \in 1 .. Len(chain) : chain[i] = chain[1] => i = 1
      BY <1>3 DEF RunInv, ChainInOrder
    <3>2. QED BY <1>2, <1>3, <3>1
  <2>3. \A v \in Workers : v # w =>
          ((\E i \in 1 .. Len(chain') : chain'[i] = v)
             <=> \E i \in 1 .. Len(chain) : chain[i] = v)
    <3>1. \A i \in 1 .. Len(chain) : chain[i] # w =>
            i - 1 \in 1 .. Len(chain') /\ chain'[i - 1] = chain[i]
      BY <1>2, <1>3
    <3>2. \A i \in 1 .. Len(chain') :
            i + 1 \in 1 .. Len(chain) /\ chain'[i] = chain[i + 1]
      BY <1>3
    <3>3. QED BY <3>1, <3>2
  <2>4. \A v \in Workers :
          at'[v] = "persisting" <=> \E i \in 1 .. Len(chain') : chain'[i] = v
    BY <1>1, <2>2, <2>3 DEF RunInv, RunTypeOK, ChainInOrder
  <2>5. ~broken BY <1>2 DEF RunInv, ChainInOrder
  <2>6. QED BY <1>1, <2>1, <2>4, <2>5 DEF ChainInOrder
<1>9. MainAndWorkers' BY <1>1, <1>4 DEF MainAndWorkers
<1>10. QED BY <1>5, <1>6, <1>7, <1>8, <1>9 DEF RunInv

LEMMA FailWriteKeepsRun == ASSUME RunInv, FailWrite PROVE RunInv'
<1>1. /\ inflight.by \in Workers /\ inflight # None
      /\ file' \in {file, inflight.content} /\ inflight' = None
      /\ chain' = <<>> /\ broken' = TRUE
      /\ at' = [w \in Workers |-> IF at[w] = "persisting" THEN "threw" ELSE at[w]]
      /\ UNCHANGED <<main, aborted, cursor, job, outcome, retries, slots>>
  BY DEF FailWrite
<1>2. inflight.content \in Contents /\ at[inflight.by] = "persisting"
  BY <1>1, WriterPersists
<1>3. main \notin {"starting", "writing", "final", "returned"}
  BY <1>1, <1>2 DEF RunInv, MainAndWorkers, AllDone
<1>4. <<>> \in Seq(Workers) /\ 1 .. Len(<<>>) = {} OBVIOUS
<1>5. RunTypeOK'
  <2>1. at' \in [Workers -> {"unborn", "loop", "attempt", "finishing",
                             "persisting", "done", "threw"}]
    BY <1>1 DEF RunInv, RunTypeOK
  <2>2. QED BY <1>1, <1>2, <1>4, <2>1 DEF RunInv, RunTypeOK
<1>6. \A w \in Workers : /\ at[w] = "persisting" => at'[w] = "threw"
                         /\ at[w] # "persisting" => at'[w] = at[w]
  BY <1>1
<1>7. JobsAreAccounted'
  <2>1. \A v \in Workers, j \in Jobs : Holder(v, j) => Holder(v, j)'
    BY <1>1, <1>6 DEF Holder
  <2>2. QED BY <1>1, <2>1 DEF RunInv, JobsAreAccounted
<1>8. WorkersHaveJobs' BY <1>1, <1>6 DEF RunInv, WorkersHaveJobs
<1>9. ChainInOrder' BY <1>1, <1>4, <1>6 DEF ChainInOrder
<1>10. MainAndWorkers' BY <1>1, <1>3 DEF MainAndWorkers
<1>11. QED BY <1>5, <1>7, <1>8, <1>9, <1>10 DEF RunInv

LEMMA RunStep == RunInv /\ [Next]_bvars => RunInv'
<1> SUFFICES ASSUME RunInv, [Next]_bvars PROVE RunInv'
  OBVIOUS
<1>1. CASE MainStep \/ Abort \/ Crash BY <1>1, MainKeepsRun
<1>2. CASE ChainStep
  BY <1>2, StartWriteKeepsRun, EndWriteKeepsRun, FailWriteKeepsRun DEF ChainStep
<1>3. ASSUME NEW w \in Workers, WorkerStep(w) PROVE RunInv'
  BY <1>3, TakeKeepsRun, AttemptKeepsRun, RecordKeepsRun, RetryKeepsRun
     DEF WorkerStep, AttemptStep
<1>4. CASE UNCHANGED bvars
  BY <1>4 DEF bvars, workerVars, storeVars, RunInv, RunTypeOK, JobsAreAccounted, Holder,
     WorkersHaveJobs, ChainInOrder, MainAndWorkers, AllDone
<1>5. QED BY <1>1, <1>2, <1>3, <1>4 DEF Next

\* Every variable keeps its type, and no class is retried beyond its limit.
THEOREM TypesAreKept == Spec => []RunTypeOK
<1>1. RunInv => RunTypeOK BY DEF RunInv
<1>2. QED BY <1>1, RunInit, RunStep, PTL DEF Spec

\* The pool neither skips a position of the list nor gives it to two workers,
\* and what was taken is recorded unless its worker has it or threw.
THEOREM EveryJobIsAccounted == Spec => []JobsAreAccounted
<1>1. RunInv => JobsAreAccounted BY DEF RunInv
<1>2. QED BY <1>1, RunInit, RunStep, PTL DEF Spec
-----------------------------------------------------------------------------
(***************************************************************************)
(* The run file.                                                           *)
(***************************************************************************)
LEMMA FileInit == Init => FileInv
<1> SUFFICES ASSUME Init PROVE FileInv
  OBVIOUS
<1>1. /\ \A j \in Jobs : slots[j] = None /\ file.attempts[j] = None
      /\ \A w \in Workers : outcome[w] = None
      /\ file.status = "absent" /\ inflight = None /\ None # "CANCELLED"
  BY BenchmarkAssumption DEF Init, Empty, AttemptStates
<1>2. QED
  BY <1>1 DEF FileInv, Holds, WriteAdds, CancelledByAbort, AttemptIsDurable

\* What holds of a content goes on holding when attempts are only added, an
\* abort stays and who is done stays so.
LEMMA HoldsOn ==
  ASSUME NEW content, Holds(content),
         \A j \in Jobs : slots[j] # None => slots'[j] = slots[j],
         aborted => aborted', AllDone => AllDone'
  PROVE  /\ \A j \in Jobs : content.attempts[j] \in {None, slots'[j]}
         /\ content.status = "COMPLETED" => \A j \in Jobs :
              content.attempts[j] \notin {None, "CANCELLED"}
         /\ content.status = "CANCELLED" => aborted'
         /\ content.status \in {"COMPLETED", "CANCELLED"} => AllDone'
BY DEF Holds

\* The steps that leave the file and the write in progress alone.
LEMMA WorkingKeepsFile ==
  ASSUME RunInv, FileInv, RunInv', UNCHANGED <<file, inflight>>,
         inflight # None /\ inflight.by \in Workers
           => job'[inflight.by] = job[inflight.by],
         \A j \in Jobs : slots[j] # None => slots'[j] = slots[j],
         aborted => aborted', AllDone => AllDone',
         CancelledByAbort', AttemptIsDurable'
  PROVE  FileInv'
<1>1. Holds(file)' BY HoldsOn DEF FileInv, Holds
<1>2. WriteAdds' BY HoldsOn DEF FileInv, WriteAdds, Holds
<1>3. QED BY <1>1, <1>2 DEF FileInv

\* The steps that change neither what is recorded nor who waits for a write.
LEMMA AsideKeepsFile ==
  ASSUME RunInv, FileInv, RunInv', UNCHANGED <<file, inflight, job, slots>>,
         aborted => aborted',
         \A w \in Workers : outcome'[w] = "CANCELLED" => aborted',
         \A w \in Workers : at[w] \in {"done", "persisting"} => at'[w] = at[w],
         \A w \in Workers : at[w] = "threw" => at'[w] = "threw"
  PROVE  FileInv'
<1>1. AttemptIsDurable' BY DEF FileInv, AttemptIsDurable
<1>2. CancelledByAbort' BY DEF FileInv, CancelledByAbort
<1>3. QED BY <1>1, <1>2, WorkingKeepsFile DEF AllDone

\* A write ends: the file is as before or as its content, and the worker that
\* waited for it either has its attempt on disk or throws.
LEMMA FileReplaced ==
  ASSUME RunInv, FileInv, inflight # None, inflight' = None,
         file' \in {file, inflight.content},
         UNCHANGED <<aborted, job, outcome, slots>>, AllDone => AllDone',
         \A w \in Workers : at[w] \in {"persisting", "threw"} =>
           \/ at'[w] \in {"persisting", "threw"}
           \/ file' = inflight.content /\ inflight.by = w
  PROVE  FileInv'
<1>1. Holds(file)'
  <2>1. Holds(file) /\ Holds(inflight.content) BY DEF FileInv, WriteAdds
  <2>2. Holds(file') BY <2>1
  <2>3. QED BY <2>2 DEF Holds
<1>2. AttemptIsDurable'
  <2> SUFFICES ASSUME NEW j \in Jobs
               PROVE  /\ file'.attempts[j] \in {None, slots'[j]}
                      /\ slots'[j] # None /\ file'.attempts[j] = None =>
                           \E w \in Workers : job'[w] = j /\ at'[w] \in {"persisting", "threw"}
    BY DEF AttemptIsDurable
  <2>1. file'.attempts[j] \in {None, slots'[j]} BY <1>1 DEF Holds
  <2>2. ASSUME slots'[j] # None, file'.attempts[j] = None
        PROVE  \E w \in Workers : job'[w] = j /\ at'[w] \in {"persisting", "threw"}
    <3>1. file.attempts[j] = None BY <2>2 DEF FileInv, WriteAdds
    <3>2. PICK w \in Workers : job[w] = j /\ at[w] \in {"persisting", "threw"}
      BY <2>2, <3>1 DEF FileInv, AttemptIsDurable
    <3>3. ~(file' = inflight.content /\ inflight.by = w)
      BY <2>2, <3>2 DEF FileInv, WriteAdds
    <3>4. QED BY <3>2, <3>3
  <2>3. QED BY <2>1, <2>2
<1>3. QED BY <1>1, <1>2 DEF FileInv, WriteAdds, CancelledByAbort

LEMMA MainKeepsFile ==
  ASSUME RunInv, FileInv, RunInv', MainStep \/ Abort \/ Crash
  PROVE  FileInv'
<1>1. CASE RejectRun \/ Abort \/ Crash
  BY <1>1, AsideKeepsFile
     DEF RejectRun, Abort, Crash, workerVars, storeVars, FileInv, CancelledByAbort
<1>2. CASE StartRun \/ FinishRun
  <2>1. PICK status \in {"RUNNING", "COMPLETED", "CANCELLED"} :
          /\ inflight' = [by |-> "main", content |-> Snapshot(status)]
          /\ status = "COMPLETED" => ~aborted
          /\ status = "CANCELLED" => aborted
          /\ status # "RUNNING" => AllDone
    BY <1>2 DEF StartRun, FinishRun, AllDone
  <2>2. UNCHANGED <<aborted, workerVars, slots, chain, broken, file>>
    BY <1>2 DEF StartRun, FinishRun
  <2>3. ASSUME status = "COMPLETED", NEW j \in Jobs PROVE slots[j] \notin {None, "CANCELLED"}
    <3>1. PICK w \in Workers : at[w] = "done" /\ ~aborted
      BY <2>1, <2>3, BenchmarkAssumption DEF AllDone
    <3>2. cursor = JobCount + 1 BY <3>1 DEF RunInv, WorkersHaveJobs
    <3>3. j < cursor BY <3>2, BenchmarkAssumption DEF Jobs
    <3>4. \A v \in Workers : ~Holder(v, j) BY <2>1, <2>3 DEF AllDone, Holder
    <3>5. slots[j] # None BY <3>3, <3>4 DEF RunInv, JobsAreAccounted
    <3>6. QED BY <3>1, <3>5 DEF FileInv, CancelledByAbort
  <2>4. Holds(Snapshot(status)) BY <2>1, <2>3 DEF Holds, Snapshot
  <2>5. \A j \in Jobs : file.attempts[j] # None => Snapshot(status).attempts[j] # None
    BY DEF FileInv, Holds, Snapshot
  <2>6. WriteAdds'
    <3>1. inflight'.content = Snapshot(status) /\ inflight'.by = "main" BY <2>1
    <3>2. Holds(Snapshot(status))' BY <2>2, <2>4 DEF Holds, AllDone, Snapshot, workerVars
    <3>3. Snapshot(status)' = Snapshot(status) BY <2>2 DEF Snapshot
    <3>4. QED BY <2>2, <2>5, <3>1, <3>2, <3>3, BenchmarkAssumption DEF WriteAdds, Holds
  <2>7. QED
    BY <2>2, <2>6 DEF FileInv, Holds, CancelledByAbort, AttemptIsDurable, AllDone,
       workerVars
<1>3. CASE MainWrites \/ MainWriteFails
  <2>1. /\ main \in {"writing", "final"}
        /\ inflight' = None /\ file' \in {file, inflight.content}
        /\ UNCHANGED <<aborted, job, outcome, slots>>
        /\ \/ at' = at
           \/ main = "writing" /\ at' = [w \in Workers |-> "loop"]
    BY <1>3 DEF MainWrites, MainWriteFails, workerVars
  <2>2. at' = at \/ \A w \in Workers : at[w] = "unborn"
    BY <2>1 DEF RunInv, MainAndWorkers
  <2>3. inflight # None BY <2>1, NoneIsNoWrite DEF RunInv, MainAndWorkers
  <2>4. AllDone => AllDone' BY <2>2, BenchmarkAssumption DEF AllDone
  <2>5. \A w \in Workers : at[w] \in {"persisting", "threw"} => at'[w] = at[w]
    BY <2>2
  <2>6. QED BY <2>1, <2>3, <2>4, <2>5, FileReplaced
<1>4. QED BY <1>1, <1>2, <1>3 DEF MainStep

LEMMA RecordKeepsFile ==
  ASSUME RunInv, FileInv, RunInv', NEW w \in Workers, Record(w)
  PROVE  FileInv'
<1>1. /\ at[w] = "finishing" /\ outcome[w] \in AttemptStates
      /\ slots' = [slots EXCEPT ![job[w]] = outcome[w]]
      /\ UNCHANGED <<main, aborted, cursor, job, outcome, retries, broken, inflight, file>>
  BY DEF Record
<1>2. job[w] \in Jobs /\ slots[job[w]] = None BY <1>1, FinishedHasJob
<1>3. /\ slots'[job[w]] = outcome[w]
      /\ \A j \in Jobs : j # job[w] => slots'[j] = slots[j]
      /\ \A v \in Workers : v # w => at'[v] = at[v]
      /\ at'[w] \in {"threw", "persisting"}
  BY <1>1, <1>2 DEF Record, RunInv, RunTypeOK
<1>4. CancelledByAbort' BY <1>1, <1>3 DEF FileInv, CancelledByAbort
<1>5. AttemptIsDurable'
  <2> SUFFICES ASSUME NEW j \in Jobs
               PROVE  /\ file'.attempts[j] \in {None, slots'[j]}
                      /\ slots'[j] # None /\ file'.attempts[j] = None =>
                           \E v \in Workers : job'[v] = j /\ at'[v] \in {"persisting", "threw"}
    BY DEF AttemptIsDurable
  <2>1. CASE j = job[w]
    BY <1>1, <1>2, <1>3, <2>1 DEF FileInv, AttemptIsDurable
  <2>2. CASE j # job[w]
    BY <1>1, <1>3, <2>2 DEF FileInv, AttemptIsDurable
  <2>3. QED BY <2>1, <2>2
<1>6. AllDone => AllDone' BY <1>1 DEF AllDone
<1>7. \A j \in Jobs : slots[j] # None => slots'[j] = slots[j] BY <1>2, <1>3
<1>8. QED BY <1>1, <1>4, <1>5, <1>6, <1>7, WorkingKeepsFile

LEMMA WorkerKeepsFile ==
  ASSUME RunInv, FileInv, RunInv', NEW w \in Workers, WorkerStep(w)
  PROVE  FileInv'
<1>1. CASE TakeJob(w)
  <2>1. /\ at[w] = "loop" /\ UNCHANGED <<aborted, outcome, storeVars>>
        /\ \A v \in Workers : v # w => at'[v] = at[v] /\ job'[v] = job[v]
    BY <1>1 DEF TakeJob, RunInv, RunTypeOK
  <2>2. inflight # None /\ inflight.by \in Workers => inflight.by # w
    BY <2>1, WriterPersists
  <2>3. AttemptIsDurable' BY <2>1 DEF FileInv, AttemptIsDurable, storeVars
  <2>4. CancelledByAbort' BY <2>1 DEF FileInv, CancelledByAbort, storeVars
  <2>5. QED
    BY <2>1, <2>2, <2>3, <2>4, WorkingKeepsFile DEF AllDone, storeVars
<1>2. CASE AttemptStep(w)
  <2>1. /\ at[w] = "attempt" /\ UNCHANGED <<aborted, job, storeVars>>
        /\ \/ UNCHANGED <<at, outcome>>
           \/ \E how \in Ending :
                /\ at' = [at EXCEPT ![w] = "finishing"]
                /\ outcome' = [outcome EXCEPT ![w] = how]
                /\ how = "CANCELLED" => aborted
    BY <1>2, AttemptSteps DEF AttemptFrame, Unfinished, Ends
  <2>2. \A v \in Workers : /\ v # w => at'[v] = at[v]
                           /\ outcome'[v] = "CANCELLED" => aborted
    BY <2>1 DEF RunInv, RunTypeOK, FileInv, CancelledByAbort
  <2>3. QED BY <2>1, <2>2, AsideKeepsFile DEF storeVars
<1>3. CASE Record(w) BY <1>3, RecordKeepsFile
<1>4. CASE Retry(w) \/ GiveUp(w)
  <2>1. /\ at[w] = "finishing" /\ UNCHANGED <<aborted, job, outcome, storeVars>>
        /\ \A v \in Workers : v # w => at'[v] = at[v]
    BY <1>4 DEF Retry, GiveUp, RunInv, RunTypeOK
  <2>2. QED BY <2>1, AsideKeepsFile DEF storeVars, FileInv, CancelledByAbort
<1>5. QED BY <1>1, <1>2, <1>3, <1>4 DEF WorkerStep, AttemptStep

LEMMA ChainKeepsFile ==
  ASSUME RunInv, FileInv, RunInv', ChainStep
  PROVE  FileInv'
<1>1. CASE StartWrite
  <2>1. /\ inflight = None
        /\ inflight' = [by |-> Head(chain), content |-> Snapshot("RUNNING")]
        /\ UNCHANGED <<aborted, workerVars, slots, file>>
    BY <1>1 DEF StartWrite
  <2>2. /\ inflight'.content = Snapshot("RUNNING") /\ inflight' # None
        /\ Snapshot("RUNNING").attempts = slots /\ Snapshot("RUNNING").status = "RUNNING"
    <3>1. chain \in Seq(Workers) /\ chain # <<>> BY <1>1 DEF StartWrite, RunInv, RunTypeOK
    <3>2. Head(chain) \in Workers BY <3>1
    <3>3. inflight' \in Write BY <2>1, <3>2, SnapshotIsContent DEF RunInv, Write
    <3>4. QED BY <2>1, <3>3, NoneIsNoWrite DEF Snapshot
  <2>3. inflight'.by \in Workers => slots'[job'[inflight'.by]] # None
    <3>1. chain \in Seq(Workers) /\ chain # <<>> BY <1>1 DEF StartWrite, RunInv, RunTypeOK
    <3>2. /\ inflight'.by = chain[1] /\ chain[1] \in Workers
          /\ 1 \in 1 .. Len(chain)
      BY <2>1, <3>1
    <3>3. at[chain[1]] = "persisting" BY <3>2 DEF RunInv, ChainInOrder
    <3>4. QED BY <2>1, <3>2, <3>3 DEF RunInv, WorkersHaveJobs, workerVars
  <2>4. WriteAdds'
    BY <2>1, <2>2, <2>3 DEF WriteAdds, Holds, FileInv, AllDone, workerVars
  <2>5. QED
    BY <2>1, <2>4 DEF FileInv, Holds, CancelledByAbort, AttemptIsDurable, AllDone,
       workerVars
<1>2. CASE EndWrite
  <2>1. /\ inflight # None /\ inflight.by \in Workers
        /\ file' = inflight.content /\ inflight' = None
        /\ at' = [at EXCEPT ![inflight.by] = "loop"]
        /\ UNCHANGED <<aborted, job, outcome, slots>>
    BY <1>2 DEF EndWrite
  <2>2. at[inflight.by] = "persisting" BY <2>1, WriterPersists
  <2>3. AllDone => AllDone' BY <2>1, <2>2 DEF AllDone
  <2>4. \A v \in Workers : v # inflight.by => at'[v] = at[v]
    BY <2>1 DEF RunInv, RunTypeOK
  <2>5. QED BY <2>1, <2>3, <2>4, FileReplaced
<1>3. CASE FailWrite
  <2>1. /\ inflight # None /\ inflight.by \in Workers
        /\ file' \in {file, inflight.content} /\ inflight' = None
        /\ at' = [w \in Workers |-> IF at[w] = "persisting" THEN "threw" ELSE at[w]]
        /\ UNCHANGED <<aborted, job, outcome, slots>>
    BY <1>3 DEF FailWrite
  <2>2. AllDone => AllDone' BY <2>1 DEF AllDone
  <2>3. \A v \in Workers :
          at[v] \in {"persisting", "threw"} => at'[v] \in {"persisting", "threw"}
    BY <2>1
  <2>4. QED BY <2>1, <2>2, <2>3, FileReplaced
<1>4. QED BY <1>1, <1>2, <1>3 DEF ChainStep

LEMMA FileStep == RunInv /\ FileInv /\ RunInv' /\ [Next]_bvars => FileInv'
<1>1. CASE UNCHANGED bvars
  BY <1>1 DEF bvars, workerVars, storeVars, FileInv, Holds, WriteAdds,
     CancelledByAbort, AttemptIsDurable, AllDone
<1>2. QED
  BY <1>1, MainKeepsFile, WorkerKeepsFile, ChainKeepsFile DEF Next

LEMMA FileAlways == Spec => [](RunInv /\ FileInv)
BY RunInit, RunStep, FileInit, FileStep, PTL DEF Spec

\* A worker does not take another position before its attempt is on disk,
\* although the writes of all workers go through one chain that may fail.
THEOREM AttemptsAreDurable == Spec => []AttemptIsDurable
<1>1. FileInv => AttemptIsDurable BY DEF FileInv
<1>2. QED BY <1>1, FileAlways, PTL

\* Whenever the process dies, inspectRunRecovery may believe the status of the
\* file it left.
THEOREM FilesTellTheTruth == Spec => []StatusTellsTheTruth
<1>1. RunInv /\ FileInv => StatusTellsTheTruth
  <2> SUFFICES ASSUME RunInv, FileInv PROVE StatusTellsTheTruth
    OBVIOUS
  <2>1. Holds(file) /\ file \in Contents BY DEF RunInv, RunTypeOK, FileInv
  <2>2. \A j \in Jobs : file.attempts[j] # None => slots[j] = file.attempts[j]
    BY <2>1 DEF Holds
  <2>3. None \notin {"COMPLETED", "CANCELLED"} BY BenchmarkAssumption DEF AttemptStates
  <2>4. \A j \in Jobs : file.attempts[j] = "CANCELLED" => aborted
    BY <2>2, <2>3 DEF FileInv, CancelledByAbort
  <2>5. \A j \in Recovery.completed : slots[j] = "COMPLETED"
    BY <2>2, <2>3 DEF Recovery
  <2>6. /\ Recovery.status \in {"COMPLETED", "CANCELLED"} => Recovery.status = file.status
        /\ ~Recovery.needsCleanRestart => file.status \in {"COMPLETED", "CANCELLED"}
    BY <2>1 DEF Recovery, Contents
  <2>7. ~Recovery.needsCleanRestart => AllDone /\ chain = <<>>
    BY <2>1, <2>6, NobodyPersists DEF Holds, AllDone
  <2>8. QED
    BY <2>1, <2>4, <2>5, <2>6, <2>7 DEF StatusTellsTheTruth, Holds, AllDone
<1>2. QED BY <1>1, FileAlways, PTL
-----------------------------------------------------------------------------
(***************************************************************************)
(* The run and the phase coordinator.                                      *)
(***************************************************************************)
LEMMA WorkerUsesPhases ==
  ASSUME NEW w \in Workers, WorkerStep(w)
  PROVE  Phases!PhaseStep(w) \/ UNCHANGED phaseVars
<1>1. CASE Prepare(w) BY <1>1 DEF Prepare, Phases!PhaseStep
<1>2. CASE RunAgent(w) BY <1>2 DEF RunAgent, Phases!PhaseStep
<1>3. CASE Verify(w) BY <1>3 DEF Verify, Phases!PhaseStep
<1>4. CASE OpenPrivate(w) BY <1>4 DEF OpenPrivate, Phases!PhaseStep
<1>5. CASE VerifyPrivate(w) BY <1>5 DEF VerifyPrivate, Phases!PhaseStep
<1>6. CASE TakeJob(w) \/ Record(w) \/ Retry(w) \/ GiveUp(w)
  BY <1>6 DEF TakeJob, Record, Retry, GiveUp, attemptVars
<1>7. QED BY <1>1, <1>2, <1>3, <1>4, <1>5, <1>6 DEF WorkerStep

\* The steps of nobody's attempt.
LEMMA OthersLeavePhases ==
  ASSUME MainStep \/ ChainStep \/ Abort \/ Crash \/ UNCHANGED bvars
  PROVE  UNCHANGED attemptVars
BY DEF MainStep, StartRun, FinishRun, RejectRun, MainWrites, MainWriteFails,
   ChainStep, StartWrite, EndWrite, FailWrite, Abort, Crash, bvars

LEMMA StepUsesPhases == [Next]_bvars => [Phases!PhaseNext]_(Phases!pvars)
<1> SUFFICES ASSUME [Next]_bvars PROVE Phases!PhaseNext \/ UNCHANGED phaseVars
  BY DEF Phases!pvars, phaseVars
<1>1. CASE MainStep \/ ChainStep \/ Abort \/ Crash \/ UNCHANGED bvars
  BY <1>1, OthersLeavePhases DEF attemptVars
<1>2. ASSUME NEW w \in Workers, WorkerStep(w)
      PROVE  Phases!PhaseNext \/ UNCHANGED phaseVars
  BY <1>2, WorkerUsesPhases DEF Phases!PhaseNext
<1>3. QED BY <1>1, <1>2 DEF Next

\* So what is proved of the coordinator holds of the workers of a run.
LEMMA RunsUseTheCoordinator == Spec => Phases!PhaseSpec
<1>1. Init => Phases!PhaseInit BY DEF Init
<1>2. QED BY <1>1, StepUsesPhases, PTL DEF Spec, Phases!PhaseSpec

PhaseProofs == INSTANCE PhaseCoordinatorProofs WITH Attempts <- Workers

LEMMA SameAssumption == PhaseProofs!IsFiniteSet(Workers)
BY BenchmarkAssumption DEF PhaseProofs!IsFiniteSet, IsFiniteSet

LEMMA SameSteps ==
  ASSUME NEW w \in Workers
  PROVE  Phases!PhaseStep(w) <=> PhaseProofs!PhaseStep(w)
BY DEF Phases!PhaseStep, PhaseProofs!PhaseStep, Phases!EnterAgent, PhaseProofs!EnterAgent,
   Phases!ReleaseAgent, PhaseProofs!ReleaseAgent, Phases!EnterPrivate,
   PhaseProofs!EnterPrivate, Phases!ReleasePrivate, PhaseProofs!ReleasePrivate,
   Phases!Keep, PhaseProofs!Keep, Phases!Leave, PhaseProofs!Leave, Phases!Drain,
   PhaseProofs!Drain, Phases!Admitted, PhaseProofs!Admitted, Phases!Cardinality,
   PhaseProofs!Cardinality

LEMMA PhasesAlways == Spec => []PhaseProofs!PhaseInv
<1>1. Phases!PhaseInit => PhaseProofs!PhaseInit
  BY DEF Phases!PhaseInit, PhaseProofs!PhaseInit
<1>2. [Phases!PhaseNext]_(Phases!pvars) => [PhaseProofs!PhaseNext]_(PhaseProofs!pvars)
  BY SameSteps DEF Phases!pvars, PhaseProofs!pvars, Phases!PhaseNext, PhaseProofs!PhaseNext
<1>3. QED
  BY <1>1, <1>2, SameAssumption, RunsUseTheCoordinator, PhaseProofs!PhaseInvariant, PTL
     DEF Phases!PhaseSpec, PhaseProofs!PhaseSpec

\* Whoever has a private workspace on disk has its private phase still.
AssetsAreGuarded == \A w \in assets : w \in Workers /\ phase[w] \in {"private", "kept"}

\* What a worker does to the private workspaces: it makes its own inside its
\* phase, and removes it before it leaves the phase; or it keeps the phase.
LEMMA WorkerGuardsAssets ==
  ASSUME PhaseProofs!PhaseInv, AssetsAreGuarded, NEW w \in Workers, WorkerStep(w)
  PROVE  AssetsAreGuarded'
<1>1. ASSUME NEW v \in Workers, v # w, phase[v] \in {"private", "kept"}
      PROVE  phase'[v] = phase[v]
  BY <1>1, WorkerUsesPhases, SameSteps, SameAssumption, PhaseProofs!InsideStays
     DEF phaseVars
<1>2. CASE UNCHANGED <<assets, phase>> BY <1>2 DEF AssetsAreGuarded
<1>3. CASE w \notin assets' /\ assets' \subseteq assets
  BY <1>1, <1>3 DEF AssetsAreGuarded
<1>4. CASE assets' \subseteq assets \cup {w} /\ phase'[w] \in {"private", "kept"}
  BY <1>1, <1>4 DEF AssetsAreGuarded
<1>5. CASE TakeJob(w) \/ Record(w) \/ Retry(w) \/ GiveUp(w)
  BY <1>2, <1>5 DEF TakeJob, Record, Retry, GiveUp, attemptVars, phaseVars
<1>6. CASE Prepare(w) \/ RunAgent(w) \/ Verify(w)
  <2>1. assets' = assets /\ phase[w] \notin {"private", "kept"}
    BY <1>6 DEF Prepare, RunAgent, Verify
  <2>2. QED BY <1>3, <2>1 DEF AssetsAreGuarded
<1>7. CASE OpenPrivate(w)
  <2>1. phase[w] = "private" /\ w \notin assets BY <1>7 DEF OpenPrivate
  <2>2. \/ assets' = assets
        \/ assets' = assets \cup {w} /\ phase' = phase
    BY <1>7 DEF OpenPrivate, phaseVars
  <2>3. QED BY <1>3, <1>4, <2>1, <2>2
<1>8. CASE VerifyPrivate(w)
  <2>1. \/ assets' = assets \ {w}
        \/ assets' = assets /\ Phases!Keep(w)
    BY <1>8 DEF VerifyPrivate
  <2>2. phase \in [Workers -> {"outside", "awaitAgent", "agent", "verifying",
                               "awaitPrivate", "private", "kept"}]
    BY DEF PhaseProofs!PhaseInv, PhaseProofs!PhaseTypeOK
  <2>3. Phases!Keep(w) => phase'[w] = "kept" BY <2>2 DEF Phases!Keep
  <2>4. QED BY <1>3, <1>4, <2>1, <2>3
<1>9. QED BY <1>5, <1>6, <1>7, <1>8 DEF WorkerStep

LEMMA AssetsAlways == Spec => []AssetsAreGuarded
<1>1. Init => AssetsAreGuarded BY DEF Init, AssetsAreGuarded
<1>2. AssetsAreGuarded /\ PhaseProofs!PhaseInv /\ [Next]_bvars => AssetsAreGuarded'
  <2>1. CASE UNCHANGED attemptVars
    BY <2>1 DEF AssetsAreGuarded, attemptVars, phaseVars
  <2>2. QED BY <2>1, WorkerGuardsAssets, OthersLeavePhases DEF Next
<1>3. QED BY <1>1, <1>2, PhasesAlways, PTL DEF Spec

\* Every variable of a run and of its coordinator stays in its type.
THEOREM TypesAlways == Spec => []TypeOK
<1>1. RunInv /\ AssetsAreGuarded /\ PhaseProofs!PhaseInv => TypeOK
  BY DEF RunInv, AssetsAreGuarded, TypeOK, PhaseProofs!PhaseInv,
     PhaseProofs!PhaseTypeOK, Phases!PhaseTypeOK
<1>2. QED BY <1>1, FileAlways, AssetsAlways, PhasesAlways, PTL

\* No agent of a run works while the private workspace of a sibling may be on
\* disk, also when it could not be removed.
THEOREM AgentsOfARunNeverSeeHiddenAssets == Spec => []HiddenAssetsStayHidden
<1>1. AssetsAreGuarded /\ PhaseProofs!PhaseInv => HiddenAssetsStayHidden
  BY DEF AssetsAreGuarded, PhaseProofs!PhaseInv, PhaseProofs!PhasesExclude,
     PhaseProofs!In, PhaseProofs!Unreleased, HiddenAssetsStayHidden
<1>2. QED BY <1>1, AssetsAlways, PhasesAlways, PTL
=============================================================================
