------------------------ MODULE GitHubDeliveryProofs ------------------------
(***************************************************************************)
(* Machine-checked proofs about GitHubDelivery, for any number of workers, *)
(* deliveries and attempts and any batch, with or without crashes.         *)
(*                                                                         *)
(* DeliveryInv says who holds which delivery, at which step of which kind, *)
(* and how deliveries, attempts and jobs go together; it is inductive.     *)
(* PushInv, inductive relative to it, follows a push to its run, its check *)
(* and its row.                                                            *)
(***************************************************************************)
EXTENDS GitHubDelivery, TLAPS

Positions == {"idle", "batch", "apply", "sync", "list", "write", "push", "create",
              "check", "record", "PROCESSED", "IGNORED"}
JobStates == {"none", "QUEUED", "SUCCEEDED", "DEAD_LETTER"}
DeliveryStates == {"none", "QUEUED", "PROCESSING", "PROCESSED", "IGNORED", "FAILED"}

\* A worker that is not at its batch has a delivery, of a kind that it can be
\* where it is with.
WorkersHoldDeliveries ==
  \A w \in Workers :
    /\ at[w] \notin {"idle", "batch"} <=> taken[w] # None
    /\ at[w] = "apply" => Kind(taken[w]) \in {"suspend", "unsuspend", "deleted"}
    /\ at[w] \in {"sync", "list", "write"} => Kind(taken[w]) = "synchronize"
    /\ at[w] \in {"push", "create", "check", "record", "IGNORED"}
         => Kind(taken[w]) = "push"

\* What has not been received has no job and no attempt, what has been received
\* has happened and has a job unless it is ignored, and a dead letter has failed.
DeliveriesBegin ==
  \A d \in Deliveries :
    /\ delivery[d] = "none" => job[d] = "none" /\ attempts[d] = 0
    /\ job[d] = "none" => delivery[d] \in {"none", "IGNORED"}
    /\ delivery[d] # "none" => d <= Len(sent)
    /\ job[d] = "DEAD_LETTER" => attempts[d] > 0

DeliveryInv ==
  TypeOK /\ DeliveriesAndJobsAgree /\ WorkersHoldDeliveries /\ DeliveriesBegin

\* From the run on, a push has what its worker's position says.
PushesProceed ==
  /\ \A w \in Workers :
       /\ at[w] \in {"check", "record"} => taken[w] \in runs
       /\ at[w] = "record" => checks[taken[w]] > 0
       /\ at[w] = "PROCESSED" /\ Kind(taken[w]) = "push" => taken[w] \in recorded
  /\ \A d \in Deliveries :
       /\ Kind(d) = "push" /\ delivery[d] = "PROCESSED" => d \in recorded
       /\ d \in recorded => d \in runs /\ checks[d] > 0
       /\ checks[d] > 0 => d \in runs

PushInv == PushesProceed /\ RemovalArchives
-----------------------------------------------------------------------------
(***************************************************************************)
(* Deliveries, attempts and jobs.                                          *)
(***************************************************************************)
LEMMA DeliveryInit == Init => DeliveryInv
<1> SUFFICES ASSUME Init PROVE DeliveryInv
  OBVIOUS
<1>1. sent \in Seq(AllKinds) /\ Len(sent) = 1 /\ 1 <= MaxEvents
  BY GitHubAssumption DEF Init, AllKinds
<1>2. TypeOK BY <1>1, GitHubAssumption DEF Init, TypeOK, Deliveries
<1>3. QED
  BY <1>2, GitHubAssumption
     DEF Init, DeliveryInv, DeliveriesAndJobsAgree, WorkersHoldDeliveries,
         DeliveriesBegin, Deliveries

\* A worker with a delivery: it is marked, has happened, and is nobody else's.
LEMMA HolderHasDelivery ==
  ASSUME DeliveryInv, NEW w \in Workers, taken[w] # None
  PROVE  /\ taken[w] \in Deliveries /\ delivery[taken[w]] = "PROCESSING"
         /\ taken[w] \in 1 .. Len(sent) /\ Kind(taken[w]) \in AllKinds
         /\ job[taken[w]] # "none"
         /\ \A v \in Workers : taken[v] = taken[w] => v = w
<1>1. taken[w] \in Deliveries BY DEF DeliveryInv, TypeOK
<1>2. /\ delivery[taken[w]] = "PROCESSING"
      /\ \A v \in Workers : taken[v] = taken[w] => v = w
  BY DEF DeliveryInv, DeliveriesAndJobsAgree
<1>3. taken[w] \in 1 .. Len(sent) /\ job[taken[w]] # "none"
  BY <1>1, <1>2 DEF DeliveryInv, DeliveriesBegin, Deliveries
<1>4. Kind(taken[w]) \in AllKinds BY <1>3 DEF DeliveryInv, TypeOK, Kind
<1>5. QED BY <1>1, <1>2, <1>3, <1>4

\* Something happens at GitHub: what happened before stays in its place.
LEMMA GitHubKeepsDeliveries ==
  ASSUME DeliveryInv, GitHubChanges
  PROVE  DeliveryInv' /\ \A d \in 1 .. Len(sent) : Kind(d)' = Kind(d)
<1>1. PICK kind \in Kinds : /\ Happens(kind)
                            /\ kind # "synchronize" => listed' = listed
                            /\ sent' = Append(sent, kind)
  BY DEF GitHubChanges
<1>2. UNCHANGED <<deliveryVars, workerVars, rowVars, checks>> /\ Len(sent) < MaxEvents
  BY DEF GitHubChanges
<1>3. kind \in AllKinds BY GitHubAssumption
<1>4. /\ sent' \in Seq(AllKinds) /\ Len(sent') <= MaxEvents
      /\ Len(sent) \in Nat /\ Len(sent') = Len(sent) + 1
      /\ \A d \in 1 .. Len(sent) : Kind(d)' = Kind(d)
  BY <1>1, <1>2, <1>3, GitHubAssumption DEF DeliveryInv, TypeOK, Kind
<1>5. app' \in {"installed", "suspended", "removed"} /\ listed' \in BOOLEAN
  BY <1>1, <1>3 DEF Happens, DeliveryInv, TypeOK, AllKinds
<1>6. TypeOK'
  BY <1>2, <1>4, <1>5 DEF DeliveryInv, TypeOK, deliveryVars, workerVars, rowVars
<1>7. DeliveriesAndJobsAgree'
  BY <1>2 DEF DeliveryInv, DeliveriesAndJobsAgree, deliveryVars, workerVars
<1>8. WorkersHoldDeliveries'
  <2>1. \A w \in Workers : taken[w] # None => Kind(taken[w])' = Kind(taken[w])
    BY <1>2, <1>4, HolderHasDelivery DEF workerVars, Kind
  <2>2. QED
    BY <1>2, <2>1 DEF DeliveryInv, WorkersHoldDeliveries, workerVars, Kind
<1>9. DeliveriesBegin'
  BY <1>2, <1>4 DEF DeliveryInv, DeliveriesBegin, deliveryVars, Deliveries
<1>10. QED BY <1>4, <1>6, <1>7, <1>8, <1>9 DEF DeliveryInv

LEMMA EndpointKeepsDeliveries ==
  ASSUME DeliveryInv, NEW d \in Deliveries, Receive(d) \/ BackoffElapses(d) \/ Link
  PROVE  DeliveryInv'
<1>1. CASE Receive(d)
  <2>1. job[d] = "none" /\ delivery[d] = "none" /\ d <= Len(sent) /\ attempts[d] = 0
    BY <1>1 DEF Receive, DeliveryInv, DeliveriesBegin
  <2>2. \A w \in Workers : taken[w] # None => taken[w] # d
    BY <2>1, HolderHasDelivery
  <2>3. received \in Seq(Deliveries) BY DEF DeliveryInv, TypeOK
  <2>4. received' \in Seq(Deliveries) /\ DOMAIN received \subseteq DOMAIN received'
    BY <1>1, <2>3 DEF Receive
  <2>5. \/ /\ delivery' = [delivery EXCEPT ![d] = "IGNORED"]
           /\ UNCHANGED job
        \/ /\ delivery' = [delivery EXCEPT ![d] = "QUEUED"]
           /\ job' = [job EXCEPT ![d] = "QUEUED"]
    BY <1>1 DEF Receive
  <2>6. UNCHANGED <<gitHubVars, attempts, waiting, workerVars, rowVars, checks>>
    BY <1>1 DEF Receive
  <2>7. TypeOK'
    <3>1. batch' \in [Workers -> SUBSET DOMAIN received']
      BY <2>4, <2>6 DEF DeliveryInv, TypeOK, workerVars
    <3>2. delivery' \in [Deliveries -> DeliveryStates] /\ job' \in [Deliveries -> JobStates]
      BY <2>5 DEF DeliveryInv, TypeOK, DeliveryStates, JobStates
    <3>3. QED
      BY <2>4, <2>6, <3>1, <3>2
         DEF DeliveryInv, TypeOK, DeliveryStates, JobStates, gitHubVars, workerVars, rowVars
  <2>8. DeliveriesAndJobsAgree'
    <3>1. \A e \in Deliveries : e # d => delivery'[e] = delivery[e] /\ job'[e] = job[e]
      BY <2>5 DEF DeliveryInv, TypeOK
    <3>2. \/ delivery'[d] = "IGNORED" /\ job'[d] = "none"
          \/ delivery'[d] = "QUEUED" /\ job'[d] = "QUEUED"
      BY <2>1, <2>5 DEF DeliveryInv, TypeOK
    <3>3. attempts'[d] = 0 /\ 0 < MaxAttempts
      BY <2>1, <2>6, GitHubAssumption
    <3>4. \A e \in Deliveries :
            /\ job'[e] = "SUCCEEDED" => delivery'[e] \in {"PROCESSED", "IGNORED"}
            /\ job'[e] = "QUEUED" =>
                 /\ delivery'[e] \in {"QUEUED", "PROCESSING", "FAILED"}
                 /\ attempts'[e] < MaxAttempts
            /\ delivery'[e] = "FAILED" => attempts'[e] > 0
      <4> SUFFICES ASSUME NEW e \in Deliveries
                   PROVE  /\ job'[e] = "SUCCEEDED" => delivery'[e] \in {"PROCESSED", "IGNORED"}
                          /\ job'[e] = "QUEUED" =>
                               /\ delivery'[e] \in {"QUEUED", "PROCESSING", "FAILED"}
                               /\ attempts'[e] < MaxAttempts
                          /\ delivery'[e] = "FAILED" => attempts'[e] > 0
        OBVIOUS
      <4>1. CASE e = d BY <4>1, <3>2, <3>3
      <4>2. CASE e # d BY <4>2, <3>1, <2>6 DEF DeliveryInv, DeliveriesAndJobsAgree
      <4>3. QED BY <4>1, <4>2
    <3>5. \A w \in Workers : taken'[w] # None =>
            /\ delivery'[taken'[w]] = "PROCESSING"
            /\ \A v \in Workers : taken'[v] = taken'[w] => v = w
      BY <2>2, <2>6, <3>1, HolderHasDelivery DEF workerVars
    <3>6. QED BY <3>4, <3>5 DEF DeliveriesAndJobsAgree
  <2>9. WorkersHoldDeliveries'
    BY <2>6 DEF DeliveryInv, WorkersHoldDeliveries, workerVars, gitHubVars, Kind
  <2>10. DeliveriesBegin'
    BY <2>1, <2>5, <2>6 DEF DeliveryInv, TypeOK, DeliveriesBegin, gitHubVars
  <2>11. QED BY <2>7, <2>8, <2>9, <2>10 DEF DeliveryInv
<1>2. CASE BackoffElapses(d)
  BY <1>2 DEF BackoffElapses, DeliveryInv, TypeOK, DeliveriesAndJobsAgree,
     WorkersHoldDeliveries, DeliveriesBegin, gitHubVars, workerVars, rowVars, Kind
<1>3. CASE Link
  BY <1>3 DEF Link, DeliveryInv, TypeOK, DeliveriesAndJobsAgree,
     WorkersHoldDeliveries, DeliveriesBegin, gitHubVars, deliveryVars, workerVars, Kind
<1>4. QED BY <1>1, <1>2, <1>3

\* A worker only moves on, to a position for its delivery or without one.
LEMMA MoveKeepsDeliveries ==
  ASSUME DeliveryInv, NEW w \in Workers, UNCHANGED <<sent, deliveryVars>>, TypeOK',
         \A v \in Workers : v # w => at'[v] = at[v] /\ taken'[v] = taken[v],
         \/ taken'[w] = None /\ at'[w] \in {"idle", "batch"}
         \/ /\ taken[w] # None /\ taken'[w] = taken[w]
            /\ at'[w] \notin {"idle", "batch"}
            /\ at'[w] = "apply" => Kind(taken[w]) \in {"suspend", "unsuspend", "deleted"}
            /\ at'[w] \in {"sync", "list", "write"} => Kind(taken[w]) = "synchronize"
            /\ at'[w] \in {"push", "create", "check", "record", "IGNORED"}
                 => Kind(taken[w]) = "push"
  PROVE  DeliveryInv'
<1>1. DeliveriesAndJobsAgree'
  <2>1. \A v \in Workers : taken'[v] # None => taken'[v] = taken[v] OBVIOUS
  <2>2. QED BY <2>1 DEF DeliveryInv, DeliveriesAndJobsAgree, deliveryVars
<1>2. WorkersHoldDeliveries' BY DEF DeliveryInv, WorkersHoldDeliveries, Kind
<1>3. DeliveriesBegin' BY DEF DeliveryInv, DeliveriesBegin, deliveryVars
<1>4. QED BY <1>1, <1>2, <1>3 DEF DeliveryInv

LEMMA BatchStepKeepsDeliveries ==
  ASSUME DeliveryInv, NEW w \in Workers, Select(w) \/ Skip(w) \/ Crash(w)
  PROVE  DeliveryInv'
<1>1. /\ UNCHANGED <<gitHubVars, deliveryVars, rowVars, checks>>
      /\ taken'[w] = None /\ at'[w] \in {"idle", "batch"}
      /\ \A v \in Workers : v # w => at'[v] = at[v] /\ taken'[v] = taken[v]
  BY DEF Select, Skip, SkipAt, IsNext, NextOfBatch, Crash, DeliveryInv, TypeOK,
     WorkersHoldDeliveries
<1>2. TypeOK'
  <2>1. \E b \in SUBSET DOMAIN received : batch' = [batch EXCEPT ![w] = b]
    <3>1. CASE Select(w) BY <3>1 DEF Select
    <3>2. CASE Skip(w)
      <4>1. batch[w] \in SUBSET DOMAIN received BY DEF DeliveryInv, TypeOK
      <4>2. \E i \in batch[w] : batch' = [batch EXCEPT ![w] = batch[w] \ {i}]
        BY <3>2 DEF Skip, SkipAt
      <4>3. QED BY <4>1, <4>2
    <3>3. CASE Crash(w) BY <3>3 DEF Crash
    <3>4. QED BY <3>1, <3>2, <3>3
  <2>2. /\ at' \in [Workers -> Positions]
        /\ taken' \in [Workers -> Deliveries \cup {None}]
        /\ seen' \in [Workers -> BOOLEAN]
    BY DEF Select, Skip, SkipAt, NextOfBatch, Crash, DeliveryInv, TypeOK, Positions
  <2>3. batch' \in [Workers -> SUBSET DOMAIN received]
    BY <2>1 DEF DeliveryInv, TypeOK
  <2>4. QED
    BY <1>1, <2>2, <2>3
       DEF DeliveryInv, TypeOK, Positions, gitHubVars, deliveryVars, rowVars
<1>3. QED BY <1>1, <1>2, MoveKeepsDeliveries DEF gitHubVars

\* A delivery that waits or has failed, and hence is nobody's, is taken.
LEMMA TakeKeepsDeliveries ==
  ASSUME DeliveryInv, NEW w \in Workers, Take(w)
  PROVE  DeliveryInv'
<1>1. PICK i \in batch[w] : TakeAt(w, i) BY DEF Take
<1> DEFINE d == received[i]
<1>2. d \in Deliveries
  <2>1. i \in DOMAIN received /\ received \in Seq(Deliveries) BY DEF DeliveryInv, TypeOK
  <2>2. QED BY <2>1
<1>3. /\ delivery' = [delivery EXCEPT ![d] = "PROCESSING"]
      /\ taken' = [taken EXCEPT ![w] = d]
      /\ at' = [at EXCEPT ![w] = First(Kind(d))]
      /\ batch' = [batch EXCEPT ![w] = @ \ {i}]
      /\ UNCHANGED <<gitHubVars, job, attempts, waiting, received, seen, rowVars, checks>>
      /\ delivery[d] \in {"QUEUED", "FAILED"}
  BY <1>1 DEF TakeAt, Processable
<1>4. d # None BY <1>2, GitHubAssumption DEF Deliveries
<1>5. d \in 1 .. Len(sent) /\ job[d] \in {"QUEUED", "DEAD_LETTER"}
  BY <1>2, <1>3
     DEF DeliveryInv, TypeOK, DeliveriesAndJobsAgree, DeliveriesBegin, Deliveries
<1>6. Kind(d) \in AllKinds BY <1>5 DEF Kind, DeliveryInv, TypeOK
<1>7. /\ First(Kind(d)) \in {"push", "sync", "apply"}
      /\ First(Kind(d)) = "push" => Kind(d) = "push"
      /\ First(Kind(d)) = "sync" => Kind(d) = "synchronize"
      /\ First(Kind(d)) = "apply" => Kind(d) \in {"suspend", "unsuspend", "deleted"}
  BY <1>6 DEF First, AllKinds
<1>8. \A v \in Workers : taken[v] # None => taken[v] # d
  BY <1>3, HolderHasDelivery
<1>9. TypeOK'
  <2>1. delivery' \in [Deliveries -> DeliveryStates]
    BY <1>2, <1>3 DEF DeliveryInv, TypeOK, DeliveryStates
  <2>2. at' \in [Workers -> Positions]
    BY <1>3, <1>7 DEF DeliveryInv, TypeOK, Positions
  <2>3. taken' \in [Workers -> Deliveries \cup {None}]
    BY <1>2, <1>3 DEF DeliveryInv, TypeOK
  <2>4. batch' \in [Workers -> SUBSET DOMAIN received]
    BY <1>3 DEF DeliveryInv, TypeOK
  <2>5. QED
    BY <1>3, <2>1, <2>2, <2>3, <2>4
       DEF DeliveryInv, TypeOK, DeliveryStates, Positions, gitHubVars, rowVars
<1>10. DeliveriesAndJobsAgree'
  BY <1>2, <1>3, <1>5, <1>8 DEF DeliveryInv, TypeOK, DeliveriesAndJobsAgree
<1>11. WorkersHoldDeliveries'
  BY <1>3, <1>4, <1>7 DEF DeliveryInv, TypeOK, WorkersHoldDeliveries, Kind, gitHubVars
<1>12. DeliveriesBegin'
  BY <1>2, <1>3, <1>5 DEF DeliveryInv, TypeOK, DeliveriesBegin, gitHubVars
<1>13. QED BY <1>9, <1>10, <1>11, <1>12 DEF DeliveryInv

\* The steps of processing, from one position of a kind to the next.
LEMMA ProcessingKeepsDeliveries ==
  ASSUME DeliveryInv, NEW w \in Workers,
         Apply(w) \/ Synchronize(w) \/ Trigger(w)
  PROVE  DeliveryInv'
<1>1. taken[w] # None
  BY DEF Apply, Synchronize, SyncRead, SyncList, SyncWrite, Trigger, ReadRepository,
     CreateRun, CreateCheck, MakesCheck, RecordCheck, DeliveryInv, WorkersHoldDeliveries
<1>2. /\ taken[w] \in Deliveries
      /\ at[w] = "apply" => Kind(taken[w]) \in {"suspend", "unsuspend", "deleted"}
      /\ at[w] \in {"sync", "list", "write"} => Kind(taken[w]) = "synchronize"
      /\ at[w] \in {"push", "create", "check", "record"} => Kind(taken[w]) = "push"
  BY <1>1, HolderHasDelivery DEF DeliveryInv, WorkersHoldDeliveries
<1>3. UNCHANGED <<gitHubVars, deliveryVars, batch, taken>>
  BY DEF Apply, Synchronize, SyncRead, SyncList, SyncWrite, Trigger, ReadRepository,
     CreateRun, CreateCheck, MakesCheck, RecordCheck, Goes
<1>4. \E to \in {"PROCESSED", "list", "write", "create", "IGNORED", "check", "record"} :
        /\ at' = [at EXCEPT ![w] = to]
        /\ to \in {"list", "write"} => at[w] \in {"sync", "list"}
        /\ to \in {"create", "IGNORED", "check", "record"}
             => at[w] \in {"push", "create", "check"}
  <2>1. CASE Apply(w) BY <2>1 DEF Apply, Goes
  <2>2. CASE Synchronize(w) BY <2>2 DEF Synchronize, SyncRead, SyncList, SyncWrite, Goes
  <2>3. CASE ReadRepository(w) BY <2>3 DEF ReadRepository, Goes
  <2>4. CASE CreateRun(w) BY <2>4 DEF CreateRun, Goes
  <2>5. CASE CreateCheck(w) BY <2>5 DEF CreateCheck, MakesCheck, Goes
  <2>6. CASE RecordCheck(w) BY <2>6 DEF RecordCheck, Goes
  <2>7. QED BY <2>1, <2>2, <2>3, <2>4, <2>5, <2>6 DEF Trigger
<1>5. TypeOK'
  <2>1. at' \in [Workers -> Positions] BY <1>4 DEF DeliveryInv, TypeOK, Positions
  <2>2. seen' \in [Workers -> BOOLEAN]
    BY DEF Apply, Synchronize, SyncRead, SyncList, SyncWrite, Trigger, ReadRepository,
       CreateRun, CreateCheck, MakesCheck, RecordCheck, DeliveryInv, TypeOK
  <2>3. /\ installation' \in {"absent", "PENDING", "ACTIVE", "SUSPENDED", "UNINSTALLED"}
        /\ repository' \in {"absent", "ACTIVE", "ARCHIVED"}
    <3>1. CASE Apply(w) BY <3>1, <1>2 DEF Apply, StateAfter, DeliveryInv, TypeOK
    <3>2. CASE Synchronize(w)
      BY <3>2 DEF Synchronize, SyncRead, SyncList, SyncWrite, DeliveryInv, TypeOK, rowVars
    <3>3. CASE Trigger(w)
      BY <3>3 DEF Trigger, ReadRepository, CreateRun, CreateCheck, MakesCheck,
         RecordCheck, DeliveryInv, TypeOK, rowVars
    <3>4. QED BY <3>1, <3>2, <3>3
  <2>4. runs' \in SUBSET Deliveries /\ recorded' \in SUBSET Deliveries
    BY <1>2
       DEF Apply, Synchronize, SyncRead, SyncList, SyncWrite, Trigger, ReadRepository,
       CreateRun, CreateCheck, MakesCheck, RecordCheck, DeliveryInv, TypeOK, rowVars
  <2>5. checks' \in [Deliveries -> Nat]
    <3>1. CASE CreateCheck(w)
      BY <3>1, <1>2 DEF CreateCheck, MakesCheck, DeliveryInv, TypeOK
    <3>2. CASE ~CreateCheck(w)
      BY <3>2 DEF Apply, Synchronize, SyncRead, SyncList, SyncWrite, Trigger,
         ReadRepository, CreateRun, RecordCheck, DeliveryInv, TypeOK
    <3>3. QED BY <3>1, <3>2
  <2>6. QED
    BY <1>3, <2>1, <2>2, <2>3, <2>4, <2>5
       DEF DeliveryInv, TypeOK, Positions, gitHubVars, deliveryVars
<1>6. \A v \in Workers : v # w => at'[v] = at[v] /\ taken'[v] = taken[v]
  BY <1>3, <1>4 DEF DeliveryInv, TypeOK
<1>7. /\ taken'[w] = taken[w] /\ at'[w] \notin {"idle", "batch"}
      /\ at'[w] # "apply"
      /\ at'[w] \in {"sync", "list", "write"} => Kind(taken[w]) = "synchronize"
      /\ at'[w] \in {"push", "create", "check", "record", "IGNORED"}
           => Kind(taken[w]) = "push"
  BY <1>2, <1>3, <1>4 DEF DeliveryInv, TypeOK
<1>8. QED BY <1>1, <1>3, <1>5, <1>6, <1>7, MoveKeepsDeliveries DEF gitHubVars

\* A worker leaves its delivery, which ends one way or the other.
LEMMA LeavingKeepsDeliveries ==
  ASSUME DeliveryInv, NEW w \in Workers, Finish(w) \/ Fail(w)
  PROVE  DeliveryInv'
<1> DEFINE d == taken[w]
<1>1. d # None
  BY DEF Finish, Fail, FailForGood, FailForNow, LoseAnswer, MakesCheck, DeliveryInv,
     WorkersHoldDeliveries
<1>2. /\ d \in Deliveries /\ delivery[d] = "PROCESSING" /\ job[d] # "none"
      /\ d \in 1 .. Len(sent)
      /\ \A v \in Workers : taken[v] = d => v = w
  BY <1>1, HolderHasDelivery
<1>3. job[d] \in {"QUEUED", "DEAD_LETTER"} /\ attempts[d] \in 0 .. MaxAttempts
      /\ (job[d] = "QUEUED" => attempts[d] < MaxAttempts)
      /\ (job[d] = "DEAD_LETTER" => attempts[d] > 0)
  BY <1>2 DEF DeliveryInv, TypeOK, DeliveriesAndJobsAgree, DeliveriesBegin
<1>4. /\ Leaves(w)
      /\ UNCHANGED <<gitHubVars, received, rowVars>>
      /\ checks' = [checks EXCEPT ![d] = @ + 1] \/ UNCHANGED checks
  BY DEF Finish, Fail, FailForGood, FailForNow, LoseAnswer, MakesCheck, Fails
<1>5. \/ /\ delivery' = [delivery EXCEPT ![d] = at[w]]
         /\ at[w] \in {"PROCESSED", "IGNORED"}
         /\ job' = [job EXCEPT ![d] = IF job[d] = "QUEUED" THEN "SUCCEEDED" ELSE job[d]]
         /\ UNCHANGED <<attempts, waiting>>
      \/ /\ delivery' = [delivery EXCEPT ![d] = "FAILED"]
         /\ job[d] = "QUEUED"
         /\ attempts' = [attempts EXCEPT ![d] = attempts[d] + 1]
         /\ \/ /\ job' = [job EXCEPT ![d] = "QUEUED"]
               /\ waiting' = waiting \cup {d} /\ attempts[d] + 1 < MaxAttempts
            \/ job' = [job EXCEPT ![d] = "DEAD_LETTER"] /\ waiting' = waiting
      \/ /\ delivery' = [delivery EXCEPT ![d] = "FAILED"]
         /\ job[d] # "QUEUED" /\ UNCHANGED <<attempts, job, waiting>>
  <2>1. CASE Finish(w) BY <2>1 DEF Finish
  <2>2. ASSUME NEW again \in BOOLEAN, Fails(w, again)
        PROVE  \/ /\ delivery' = [delivery EXCEPT ![d] = "FAILED"]
                  /\ job[d] = "QUEUED"
                  /\ attempts' = [attempts EXCEPT ![d] = attempts[d] + 1]
                  /\ \/ /\ job' = [job EXCEPT ![d] = "QUEUED"]
                        /\ waiting' = waiting \cup {d} /\ attempts[d] + 1 < MaxAttempts
                     \/ job' = [job EXCEPT ![d] = "DEAD_LETTER"] /\ waiting' = waiting
               \/ /\ delivery' = [delivery EXCEPT ![d] = "FAILED"]
                  /\ job[d] # "QUEUED" /\ UNCHANGED <<attempts, job, waiting>>
    <3>1. CASE job[d] = "QUEUED" /\ again /\ attempts[d] + 1 < MaxAttempts
      BY <2>2, <3>1 DEF Fails
    <3>2. CASE job[d] = "QUEUED" /\ ~(again /\ attempts[d] + 1 < MaxAttempts)
      BY <2>2, <3>2 DEF Fails
    <3>3. CASE job[d] # "QUEUED" BY <2>2, <3>3 DEF Fails
    <3>4. QED BY <3>1, <3>2, <3>3
  <2>3. CASE Fail(w) BY <2>2, <2>3 DEF Fail, FailForGood, FailForNow, LoseAnswer
  <2>4. QED BY <2>1, <2>3
<1>6. /\ \A e \in Deliveries :
           e # d => /\ delivery'[e] = delivery[e] /\ job'[e] = job[e]
                    /\ attempts'[e] = attempts[e]
      /\ delivery'[d] \in {"PROCESSED", "IGNORED", "FAILED"}
      /\ job'[d] \in {"QUEUED", "SUCCEEDED", "DEAD_LETTER"}
      /\ attempts'[d] \in 0 .. MaxAttempts
      /\ job'[d] = "SUCCEEDED" => delivery'[d] \in {"PROCESSED", "IGNORED"}
      /\ job'[d] = "QUEUED" => delivery'[d] = "FAILED" /\ attempts'[d] < MaxAttempts
      /\ delivery'[d] = "FAILED" => attempts'[d] > 0
      /\ job'[d] = "DEAD_LETTER" => attempts'[d] > 0
  BY <1>2, <1>3, <1>5, GitHubAssumption DEF DeliveryInv, TypeOK
<1>7. /\ \A v \in Workers : v # w => at'[v] = at[v] /\ taken'[v] = taken[v]
      /\ taken'[w] = None /\ at'[w] \in {"idle", "batch"}
  BY <1>4 DEF Leaves, NextOfBatch, DeliveryInv, TypeOK
<1>8. TypeOK'
  <2>1. /\ delivery' \in [Deliveries -> DeliveryStates]
        /\ job' \in [Deliveries -> JobStates]
        /\ waiting' \in SUBSET Deliveries
    BY <1>2, <1>3, <1>5 DEF DeliveryInv, TypeOK, DeliveryStates, JobStates
  <2>2. attempts' \in [Deliveries -> 0 .. MaxAttempts]
    <3>1. attempts \in [Deliveries -> 0 .. MaxAttempts] BY DEF DeliveryInv, TypeOK
    <3>2. CASE UNCHANGED attempts BY <3>1, <3>2
    <3>3. CASE /\ attempts' = [attempts EXCEPT ![d] = attempts[d] + 1]
               /\ job[d] = "QUEUED"
      <4>1. attempts[d] + 1 \in 0 .. MaxAttempts BY <1>3, <3>3, GitHubAssumption
      <4>2. QED BY <3>1, <3>3, <4>1
    <3>4. QED BY <1>5, <3>2, <3>3
  <2>3. checks' \in [Deliveries -> Nat]
    <3>1. checks \in [Deliveries -> Nat] BY DEF DeliveryInv, TypeOK
    <3>2. checks[d] + 1 \in Nat BY <1>2, <3>1
    <3>3. QED BY <1>4, <3>1, <3>2
  <2>4. /\ at' \in [Workers -> Positions]
        /\ taken' \in [Workers -> Deliveries \cup {None}]
        /\ seen' \in [Workers -> BOOLEAN]
    BY <1>4 DEF Leaves, NextOfBatch, DeliveryInv, TypeOK, Positions
  <2>5. QED
    BY <1>4, <2>1, <2>2, <2>3, <2>4
       DEF DeliveryInv, TypeOK, Leaves, DeliveryStates, JobStates, Positions,
           gitHubVars, rowVars
<1>9. DeliveriesAndJobsAgree'
  <2>1. \A e \in Deliveries :
          /\ job'[e] = "SUCCEEDED" => delivery'[e] \in {"PROCESSED", "IGNORED"}
          /\ job'[e] = "QUEUED" =>
               /\ delivery'[e] \in {"QUEUED", "PROCESSING", "FAILED"}
               /\ attempts'[e] < MaxAttempts
          /\ delivery'[e] = "FAILED" => attempts'[e] > 0
    BY <1>6 DEF DeliveryInv, DeliveriesAndJobsAgree
  <2>2. \A v \in Workers : taken'[v] # None =>
          /\ delivery'[taken'[v]] = "PROCESSING"
          /\ \A u \in Workers : taken'[u] = taken'[v] => u = v
    BY <1>2, <1>6, <1>7, HolderHasDelivery
  <2>3. QED BY <2>1, <2>2 DEF DeliveriesAndJobsAgree
<1>10. WorkersHoldDeliveries'
  BY <1>4, <1>7 DEF DeliveryInv, WorkersHoldDeliveries, Kind, gitHubVars
<1>11. DeliveriesBegin'
  BY <1>2, <1>4, <1>6 DEF DeliveryInv, DeliveriesBegin, gitHubVars
<1>12. QED BY <1>8, <1>9, <1>10, <1>11 DEF DeliveryInv

LEMMA DeliveryStep == DeliveryInv /\ [Next]_vars => DeliveryInv'
<1> SUFFICES ASSUME DeliveryInv, [Next]_vars PROVE DeliveryInv'
  OBVIOUS
<1>1. CASE GitHubChanges BY <1>1, GitHubKeepsDeliveries
<1>2. CASE Link
  <2>1. 1 \in Deliveries BY GitHubAssumption DEF Deliveries
  <2>2. QED BY <1>2, <2>1, EndpointKeepsDeliveries
<1>3. ASSUME NEW d \in Deliveries, Receive(d) \/ BackoffElapses(d) PROVE DeliveryInv'
  BY <1>3, EndpointKeepsDeliveries
<1>4. ASSUME NEW w \in Workers, WorkerStep(w) \/ Crash(w) PROVE DeliveryInv'
  BY <1>4, BatchStepKeepsDeliveries, TakeKeepsDeliveries, ProcessingKeepsDeliveries,
     LeavingKeepsDeliveries DEF WorkerStep
<1>5. CASE UNCHANGED vars
  BY <1>5 DEF vars, DeliveryInv, TypeOK, DeliveriesAndJobsAgree, WorkersHoldDeliveries,
     DeliveriesBegin, gitHubVars, deliveryVars, workerVars, rowVars, Kind
<1>6. QED BY <1>1, <1>2, <1>3, <1>4, <1>5 DEF Next

\* Every variable keeps its type, and every job its form.
THEOREM TypesAreKept == Spec => []TypeOK
<1>1. DeliveryInv => TypeOK BY DEF DeliveryInv
<1>2. QED BY <1>1, DeliveryInit, DeliveryStep, PTL DEF Spec

\* A delivery and its job agree: a job succeeds with its delivery only, a job
\* in the queue has a delivery still to be processed and attempts left, and
\* finishDelivery and failDelivery never meet a delivery of two workers.
THEOREM DeliveriesAndJobsTogether == Spec => []DeliveriesAndJobsAgree
<1>1. DeliveryInv => DeliveriesAndJobsAgree BY DEF DeliveryInv
<1>2. QED BY <1>1, DeliveryInit, DeliveryStep, PTL DEF Spec
-----------------------------------------------------------------------------
(***************************************************************************)
(* Pushes, checks and removals.                                            *)
(***************************************************************************)
LEMMA PushInit == Init => PushInv
BY DEF Init, PushInv, PushesProceed, RemovalArchives, Deliveries

\* A step of one worker changes the run, the check and the row of its own
\* delivery only, which no other worker has.
LEMMA PushStep == DeliveryInv /\ PushInv /\ [Next]_vars => PushInv'
<1> SUFFICES ASSUME DeliveryInv, PushInv, [Next]_vars PROVE PushInv'
  OBVIOUS
<1> USE DEF PushInv
<1>1. CASE GitHubChanges
  <2>1. /\ \A d \in 1 .. Len(sent) : Kind(d)' = Kind(d)
        /\ UNCHANGED <<deliveryVars, workerVars, rowVars, checks>>
    BY <1>1, GitHubKeepsDeliveries DEF GitHubChanges
  <2>2. \A w \in Workers : at[w] = "PROCESSED" => Kind(taken[w])' = Kind(taken[w])
    BY <2>1, HolderHasDelivery DEF DeliveryInv, WorkersHoldDeliveries, Kind, workerVars
  <2>3. \A d \in Deliveries : delivery[d] = "PROCESSED" => Kind(d)' = Kind(d)
    BY <2>1 DEF DeliveryInv, DeliveriesBegin, Deliveries
  <2>4. QED
    BY <2>1, <2>2, <2>3
       DEF PushesProceed, RemovalArchives, deliveryVars, workerVars, rowVars, Kind
<1>2. CASE Link
  BY <1>2 DEF Link, PushesProceed, RemovalArchives, gitHubVars, deliveryVars,
     workerVars, Kind
<1>3. ASSUME NEW d \in Deliveries, Receive(d) \/ BackoffElapses(d) PROVE PushInv'
  BY <1>3 DEF Receive, BackoffElapses, PushesProceed, RemovalArchives, gitHubVars,
     deliveryVars, workerVars, rowVars, Kind, DeliveryInv, TypeOK
<1>4. ASSUME NEW w \in Workers, Select(w) \/ Skip(w) \/ Crash(w) PROVE PushInv'
  BY <1>4 DEF Select, Skip, SkipAt, Crash, NextOfBatch, PushesProceed, RemovalArchives,
     gitHubVars, deliveryVars, rowVars, Kind, DeliveryInv, TypeOK
<1>5. ASSUME NEW w \in Workers, Take(w) PROVE PushInv'
  <2>1. PICK i \in batch[w] : TakeAt(w, i) BY <1>5 DEF Take
  <2>2. First(Kind(received[i])) \in {"push", "sync", "apply"} BY DEF First
  <2>3. QED
    BY <2>1, <2>2 DEF TakeAt, PushesProceed, RemovalArchives, gitHubVars, rowVars,
       Kind, DeliveryInv, TypeOK
<1>6. ASSUME NEW w \in Workers, Apply(w) \/ Synchronize(w) PROVE PushInv'
  <2>1. Kind(taken[w]) \in {"suspend", "unsuspend", "deleted", "synchronize"}
    BY <1>6 DEF Apply, Synchronize, SyncRead, SyncList, SyncWrite, DeliveryInv,
       WorkersHoldDeliveries
  <2>2. PushesProceed'
    BY <1>6, <2>1
       DEF Apply, Synchronize, SyncRead, SyncList, SyncWrite, Goes, PushesProceed,
           gitHubVars, deliveryVars, rowVars, Kind, DeliveryInv, TypeOK
  <2>3. RemovalArchives'
    BY <1>6 DEF Apply, Synchronize, SyncRead, SyncList, SyncWrite, StateAfter,
       RemovalArchives, rowVars, DeliveryInv, WorkersHoldDeliveries
  <2>4. QED BY <2>2, <2>3
<1>7. ASSUME NEW w \in Workers, Trigger(w) PROVE PushInv'
  <2>1. taken[w] \in Deliveries /\ Kind(taken[w]) = "push"
    BY <1>7, HolderHasDelivery
       DEF Trigger, ReadRepository, CreateRun, CreateCheck, MakesCheck, RecordCheck,
           DeliveryInv, WorkersHoldDeliveries
  <2>2. RemovalArchives'
    BY <1>7 DEF Trigger, ReadRepository, CreateRun, CreateCheck, MakesCheck,
       RecordCheck, RemovalArchives, rowVars
  <2>3. CASE ReadRepository(w)
    BY <2>2, <2>3 DEF ReadRepository, Goes, PushesProceed, gitHubVars, deliveryVars,
       rowVars, Kind, DeliveryInv, TypeOK
  <2>4. CASE CreateRun(w)
    BY <2>1, <2>2, <2>4 DEF CreateRun, Goes, PushesProceed, gitHubVars, deliveryVars,
       Kind, DeliveryInv, TypeOK
  <2>5. CASE CreateCheck(w)
    BY <2>1, <2>2, <2>5 DEF CreateCheck, MakesCheck, Goes, PushesProceed, gitHubVars,
       deliveryVars, rowVars, Kind, DeliveryInv, TypeOK
  <2>6. CASE RecordCheck(w)
    BY <2>1, <2>2, <2>6 DEF RecordCheck, Goes, PushesProceed, gitHubVars,
       deliveryVars, Kind, DeliveryInv, TypeOK
  <2>7. QED BY <1>7, <2>3, <2>4, <2>5, <2>6 DEF Trigger
<1>8. ASSUME NEW w \in Workers, Finish(w) PROVE PushInv'
  BY <1>8, HolderHasDelivery
     DEF Finish, Leaves, NextOfBatch, PushesProceed, RemovalArchives, gitHubVars,
         rowVars, Kind, DeliveryInv, TypeOK, WorkersHoldDeliveries
<1>9. ASSUME NEW w \in Workers, Fail(w) PROVE PushInv'
  <2>1. taken[w] # None
    BY <1>9 DEF Fail, FailForGood, FailForNow, LoseAnswer, MakesCheck, DeliveryInv,
       WorkersHoldDeliveries
  <2>2. taken[w] \in Deliveries BY <2>1, HolderHasDelivery
  <2>3. /\ delivery' = [delivery EXCEPT ![taken[w]] = "FAILED"]
        /\ Leaves(w) /\ UNCHANGED <<gitHubVars, rowVars>>
    BY <1>9 DEF Fail, FailForGood, FailForNow, LoseAnswer, Fails
  <2>4. \/ UNCHANGED checks
        \/ at[w] = "check" /\ checks' = [checks EXCEPT ![taken[w]] = @ + 1]
    BY <1>9 DEF Fail, FailForGood, FailForNow, LoseAnswer, MakesCheck
  <2>5. \A d \in Deliveries : checks'[d] >= checks[d]
                              /\ (checks'[d] # checks[d] => d \in runs)
    <3>1. \A d \in Deliveries : checks[d] \in Nat BY DEF DeliveryInv, TypeOK
    <3>2. CASE UNCHANGED checks BY <3>1, <3>2
    <3>3. CASE /\ at[w] = "check"
               /\ checks' = [checks EXCEPT ![taken[w]] = @ + 1]
      <4>1. taken[w] \in runs BY <3>3 DEF PushesProceed
      <4>2. \A d \in Deliveries :
              checks'[d] = IF d = taken[w] THEN checks[d] + 1 ELSE checks[d]
        BY <2>2, <3>3 DEF DeliveryInv, TypeOK
      <4>3. QED BY <3>1, <4>1, <4>2
    <3>4. QED BY <2>4, <3>2, <3>3
  <2>6. \A v \in Workers :
          at'[v] \in {"check", "record", "PROCESSED"} => v # w /\ at'[v] = at[v]
                                                         /\ taken'[v] = taken[v]
    BY <2>3 DEF Leaves, NextOfBatch, DeliveryInv, TypeOK
  <2>7. QED
    <3>1. /\ \A d \in Deliveries : checks[d] \in Nat /\ checks'[d] \in Int
          /\ \A d \in Deliveries : delivery'[d] = "PROCESSED" => delivery[d] = "PROCESSED"
      <4>1. \A d \in Deliveries : checks[d] \in Nat /\ checks'[d] \in Nat
        <5>1. TypeOK /\ TypeOK' BY LeavingKeepsDeliveries, <1>9 DEF DeliveryInv
        <5>2. QED BY <5>1 DEF TypeOK, Deliveries
      <4>2. QED BY <2>3, <4>1 DEF DeliveryInv, TypeOK
    <3>2. \A d \in Deliveries : checks[d] > 0 => checks'[d] > 0 BY <2>5, <3>1
    <3>3. \A d \in Deliveries : checks'[d] > 0 => d \in runs'
      BY <2>3, <2>5, <3>1 DEF PushesProceed, rowVars
    <3>4. \A v \in Workers :
            /\ at'[v] \in {"check", "record"} => taken'[v] \in runs'
            /\ at'[v] = "record" => checks'[taken'[v]] > 0
            /\ at'[v] = "PROCESSED" /\ Kind(taken'[v]) = "push" => taken'[v] \in recorded'
      <4>1. \A v \in Workers : at[v] = "record" => taken[v] \in Deliveries
        BY HolderHasDelivery DEF DeliveryInv, WorkersHoldDeliveries
      <4>2. QED BY <2>3, <2>6, <3>2, <4>1 DEF PushesProceed, rowVars
    <3>5. sent' = sent BY <2>3 DEF gitHubVars
    <3>6. QED
      BY <2>3, <3>1, <3>2, <3>3, <3>4, <3>5
         DEF PushesProceed, RemovalArchives, rowVars, Kind
<1>10. CASE UNCHANGED vars
  BY <1>10 DEF vars, PushesProceed, RemovalArchives, gitHubVars, deliveryVars,
     workerVars, rowVars, Kind
<1>11. QED
  BY <1>1, <1>2, <1>3, <1>4, <1>5, <1>6, <1>7, <1>8, <1>9, <1>10 DEF Next, WorkerStep

LEMMA PushesAlways == Spec => [](DeliveryInv /\ PushInv)
BY DeliveryInit, DeliveryStep, PushInit, PushStep, PTL DEF Spec

\* A push whose delivery counts as processed has a run, a check and the row
\* that publishRun finds the check by, however often it was retried.
THEOREM ProcessedPushesHaveChecks == Spec => []PushesHaveChecks
<1>1. DeliveryInv /\ PushInv => PushesHaveChecks
  <2> SUFFICES ASSUME DeliveryInv, PushInv PROVE PushesHaveChecks
    OBVIOUS
  <2>1. Len(sent) \in Nat /\ Len(sent) <= MaxEvents BY DEF DeliveryInv, TypeOK
  <2>2. 1 .. Len(sent) \subseteq Deliveries BY <2>1, GitHubAssumption DEF Deliveries
  <2>3. QED BY <2>2 DEF PushInv, PushesProceed, PushesHaveChecks
<1>2. QED BY <1>1, PushesAlways, PTL

\* A removed installation has no active repository, whichever deliveries are
\* applied and synchronized at the same time.
THEOREM RemovalsArchive == Spec => []RemovalArchives
<1>1. PushInv => RemovalArchives BY DEF PushInv
<1>2. QED BY <1>1, PushesAlways, PTL
=============================================================================
