---------------------------- MODULE BillingProofs ----------------------------
(***************************************************************************)
(* Machine-checked proofs about Billing, for any number of workers,        *)
(* subscriptions, changes and attempts, with or without crashes.           *)
(*                                                                         *)
(* EventsInv says who holds which event and how events, attempts and jobs  *)
(* go together; it is inductive.  RowInv, inductive relative to it, says   *)
(* how the provider's changes are ordered, which of them a worker or a     *)
(* request has read, and where the row comes from.                         *)
(***************************************************************************)
EXTENDS Billing, TLAPS

Busy == {"taken", "read", "invoice", "finish"}

\* A worker that is busy has an event, and the provider is asked about events
\* of a supported kind only.
WorkersHoldEvents ==
  \A w \in Workers :
    /\ at[w] \in Busy <=> taken[w] # None
    /\ at[w] \in Busy \ {"taken"} => changes[taken[w]].kind \in Supported

\* What has not been taken has used no attempt, what has not been received
\* has no job, and what has been received has happened.
EventsBegin ==
  \A e \in Events :
    /\ event[e] \in {"none", "QUEUED"} => attempts[e] = 0
    /\ event[e] = "none" => job[e] = "none"
    /\ event[e] # "none" => e <= Len(changes)

EventsInv ==
  TypeOK /\ EventsAndJobsAgree /\ WorkersHoldEvents /\ EventsBegin

Happened == 1 .. Len(changes)

\* The provider's changes: later ones are not earlier and have no older
\* snapshot of the same subscription, whose changes the snapshot contains.
ChangesInOrder ==
  /\ \A e \in Happened :
       /\ changes[e].time % 2 = 0
       /\ changes[e].of # None => changes[e].version <= latest[changes[e].of]
       /\ changes[e].of # None /\ changes[e].kind \in Supported
            => changes[e].version # 0
  /\ \A d, e \in Happened : d <= e =>
       /\ changes[d].time <= changes[e].time
       /\ changes[d].of # None /\ changes[d].of = changes[e].of
            => changes[d].version <= changes[e].version
  /\ \A s \in Subscriptions : latest[s] # 0 => changes[latest[s]].of = s

\* A worker that has read a subscription has a snapshot of the event's
\* subscription that contains the event.
ReadsAreRecent ==
  /\ \A w \in Workers : at[w] = "read" =>
       /\ snapshot[w] \in Happened
       /\ changes[snapshot[w]].of = changes[taken[w]].of
       /\ changes[taken[w]].version <= snapshot[w]
  /\ call # None => call \in Happened

\* A row with an event's time has a snapshot that contains such an event.
RowHasASource ==
  stored # 0 /\ storedAt % 2 = 0 =>
    \E d \in Happened : /\ changes[d].time = storedAt
                        /\ changes[stored].of = changes[d].of
                        /\ changes[d].version <= stored

\* The row is not older than any event that has been reconciled, which those
\* without a subscription never are.
Reconciled(e) ==
  \/ event[e] = "PROCESSED"
  \/ \E w \in Workers : taken[w] = e /\ at[w] \in {"invoice", "finish"}

ReconciledIsCovered ==
  \A e \in Events : Reconciled(e) /\ changes[e].of # None
    => stored # 0 /\ changes[e].time <= storedAt

RowInv == ChangesInOrder /\ ReadsAreRecent /\ RowHasASource /\ ReconciledIsCovered
-----------------------------------------------------------------------------
(***************************************************************************)
(* Events, attempts and jobs.                                              *)
(***************************************************************************)
LEMMA EventsInit == Init => EventsInv
BY BillingAssumption
   DEF Init, EventsInv, TypeOK, EventsAndJobsAgree, OneWorkerPerEvent,
       WorkersHoldEvents, EventsBegin, Events, Versions, Subjects, EventStates, Busy,
       Supported

LEMMA ClockIsNat == ASSUME TypeOK PROVE Clock \in Nat
<1>1. CASE changes = <<>> BY <1>1 DEF Clock
<1>2. CASE changes # <<>>
  <2>1. Len(changes) \in 1 .. Len(changes) BY <1>2 DEF TypeOK
  <2>2. changes[Len(changes)] \in Changes BY <2>1 DEF TypeOK
  <2>3. QED BY <1>2, <2>2 DEF Clock, Changes
<1>3. QED BY <1>1, <1>2

\* A change at the provider is appended; what there was stays as it was.
LEMMA ChangeAppends ==
  ASSUME TypeOK, NEW kind \in AllKinds, NEW s \in Subjects,
         NEW entitled \in Entitled, NEW time \in NextTimes,
         Change(kind, s, entitled, time)
  PROVE  /\ changes' \in Seq(Changes) /\ Len(changes') = Len(changes) + 1
         /\ Len(changes') <= MaxChanges
         /\ latest' \in [Subscriptions -> 0 .. Len(changes')]
         /\ \A e \in Happened : changes'[e] = changes[e]
         /\ changes'[Len(changes')] =
              [kind |-> kind, of |-> s, entitled |-> entitled, time |-> time,
               version |-> IF s = None THEN 0
                           ELSE IF kind = "subscription" THEN Len(changes')
                           ELSE latest[s]]
<1> DEFINE version == IF s = None THEN 0
                      ELSE IF kind = "subscription" THEN Len(changes) + 1
                      ELSE latest[s]
           new == [kind |-> kind, of |-> s, entitled |-> entitled, time |-> time,
                   version |-> version]
<1>1. Len(changes) + 1 <= MaxChanges /\ Len(changes) \in Nat /\ MaxChanges \in Nat
  BY BillingAssumption DEF TypeOK, Change, Events
<1>2. s # None => latest[s] \in 0 .. Len(changes) BY DEF TypeOK, Subjects
<1>3. version \in Versions /\ version \in 0 .. Len(changes) + 1
  BY <1>1, <1>2 DEF Versions
<1>4. time \in Nat BY ClockIsNat DEF NextTimes
<1>5. new \in Changes BY <1>3, <1>4, BillingAssumption DEF Changes
<1>6. /\ changes' = Append(changes, new)
      /\ latest' = IF s = None THEN latest ELSE [latest EXCEPT ![s] = version]
  BY DEF Change
<1> HIDE DEF new
<1>7. /\ changes' \in Seq(Changes) /\ Len(changes') = Len(changes) + 1
      /\ \A e \in Happened : changes'[e] = changes[e]
      /\ changes'[Len(changes')] = new
  BY <1>1, <1>5, <1>6 DEF TypeOK, Happened
<1>8. latest' \in [Subscriptions -> 0 .. Len(changes')]
  <2>1. latest \in [Subscriptions -> 0 .. Len(changes')]
    BY <1>1, <1>7 DEF TypeOK
  <2>2. version \in 0 .. Len(changes') BY <1>3, <1>7
  <2>3. QED BY <1>6, <2>1, <2>2
<1>9. QED BY <1>1, <1>7, <1>8 DEF new

\* Changes at the provider, and what requests do, leave the events alone.
ChangesGrow ==
  /\ changes' \in Seq(Changes) /\ Len(changes') <= MaxChanges
  /\ Len(changes) <= Len(changes')
  /\ latest' \in [Subscriptions -> 0 .. Len(changes')]
  /\ \A e \in Happened : changes'[e] = changes[e]

LEMMA OutsideGrows ==
  ASSUME EventsInv, ProviderChanges \/ CallStep
  PROVE  ChangesGrow
<1>1. Len(changes) \in Nat BY DEF EventsInv, TypeOK
<1>2. ASSUME NEW kind \in AllKinds, NEW s \in Subjects,
             NEW entitled \in Entitled, NEW time \in NextTimes,
             Change(kind, s, entitled, time)
      PROVE  ChangesGrow
  <2>1. TypeOK BY DEF EventsInv
  <2>2. /\ changes' \in Seq(Changes) /\ Len(changes') = Len(changes) + 1
        /\ Len(changes') <= MaxChanges
        /\ latest' \in [Subscriptions -> 0 .. Len(changes')]
        /\ \A e \in Happened : changes'[e] = changes[e]
    BY <1>2, <2>1, ChangeAppends
  <2>3. QED BY <1>1, <2>2 DEF ChangesGrow
<1>3. CASE ProviderChanges
  <2>1. PICK kind \in Kinds, s \in Subjects, entitled \in Entitled,
             time \in NextTimes : Change(kind, s, entitled, time)
    BY <1>3 DEF ProviderChanges
  <2>2. kind \in AllKinds BY BillingAssumption
  <2>3. QED BY <1>2, <2>1, <2>2
<1>4. CASE CallChanges
  <2>1. stored \in 1 .. Len(changes)
    BY <1>1, <1>4 DEF CallChanges, EventsInv, TypeOK
  <2>2. changes[stored] \in Changes BY <2>1 DEF EventsInv, TypeOK
  <2>3. changes[stored].of \in Subjects BY <2>2 DEF Changes
  <2>4. QED BY <1>2, <1>4, <2>3 DEF CallChanges, AllKinds
<1>5. CASE UNCHANGED providerVars
  BY <1>1, <1>5 DEF providerVars, EventsInv, TypeOK, ChangesGrow
<1>6. QED BY <1>3, <1>4, <1>5 DEF CallStep, CallRetrieves, CallWrites

LEMMA OutsideKeepsEvents ==
  ASSUME EventsInv, ProviderChanges \/ CallStep
  PROVE  EventsInv'
<1>1. UNCHANGED <<eventVars, workerVars>>
  BY DEF ProviderChanges, CallStep, CallChanges, CallRetrieves, CallWrites
<1>2. ChangesGrow BY OutsideGrows
<1>3. Len(changes) \in Nat /\ Len(changes') \in Nat /\ MaxChanges \in Nat
  BY <1>2, BillingAssumption DEF ChangesGrow, EventsInv, TypeOK
<1>4. TypeOK'
  <2>1. \A v \in 0 .. Len(changes) : v \in 0 .. Len(changes')
    BY <1>2, <1>3 DEF ChangesGrow
  <2>2. call' \in 0 .. Len(changes') \cup {None}
    <3>1. CASE CallChanges BY <1>2, <1>3, <3>1 DEF CallChanges, ChangesGrow
    <3>2. CASE CallRetrieves BY <2>1, <3>2 DEF CallRetrieves, EventsInv, TypeOK
    <3>3. CASE CallWrites BY <3>3 DEF CallWrites
    <3>4. QED
      BY <2>1, <3>1, <3>2, <3>3 DEF CallStep, ProviderChanges, EventsInv, TypeOK
  <2>3. stored' \in 0 .. Len(changes') /\ storedAt' \in Nat
        /\ invoice' \in [Subjects -> Versions]
    <3>1. CASE UNCHANGED rowVars
      BY <2>1, <3>1 DEF rowVars, EventsInv, TypeOK
    <3>2. CASE CallWrites
      BY <2>1, <3>2, ClockIsNat DEF CallWrites, Reconciles, EventsInv, TypeOK
    <3>3. QED
      BY <3>1, <3>2 DEF CallStep, CallChanges, CallRetrieves, ProviderChanges
  <2>4. snapshot' \in [Workers -> 0 .. Len(changes')]
    BY <1>1, <2>1 DEF workerVars, EventsInv, TypeOK
  <2>5. QED
    BY <1>1, <1>2, <2>2, <2>3, <2>4
       DEF ChangesGrow, EventsInv, TypeOK, eventVars, workerVars
<1>5. EventsAndJobsAgree'
  BY <1>1 DEF EventsInv, EventsAndJobsAgree, OneWorkerPerEvent, eventVars, workerVars
<1>6. WorkersHoldEvents'
  <2>1. ASSUME NEW w \in Workers, at[w] \in Busy
        PROVE  taken[w] \in Happened
    <3>1. taken[w] \in Events /\ event[taken[w]] = "PROCESSING"
      BY <2>1 DEF EventsInv, WorkersHoldEvents, TypeOK, EventsAndJobsAgree,
         OneWorkerPerEvent
    <3>2. QED BY <3>1 DEF EventsInv, EventsBegin, Events, Happened
  <2>2. QED BY <1>1, <1>2, <2>1 DEF ChangesGrow, EventsInv, WorkersHoldEvents, workerVars
<1>7. EventsBegin'
  BY <1>1, <1>2, <1>3 DEF ChangesGrow, EventsInv, EventsBegin, eventVars, Events
<1>8. QED BY <1>4, <1>5, <1>6, <1>7 DEF EventsInv

\* An event is received, once, with a job or without one; or its backoff ends.
LEMMA ReceptionKeepsEvents ==
  ASSUME EventsInv, NEW e \in Events, EventStep(e)
  PROVE  EventsInv'
<1>1. CASE Receive(e)
  <2>1. e \notin waiting /\ job[e] = "none" /\ attempts[e] = 0
    BY <1>1 DEF Receive, EventsInv, EventsAndJobsAgree, EventsBegin
  <2>2. \A w \in Workers : taken[w] # None => taken[w] # e
    BY <1>1 DEF Receive, EventsInv, EventsAndJobsAgree, OneWorkerPerEvent
  <2>3. /\ received' \in Seq(Events)
        /\ \A i \in DOMAIN received : i \in DOMAIN received'
    <3>1. received \in Seq(Events) BY DEF EventsInv, TypeOK
    <3>2. received' \in {received, Append(received, e)} BY <1>1 DEF Receive
    <3>3. QED BY <3>1, <3>2
  <2>4. TypeOK'
    <3>1. batch' \in [Workers -> SUBSET DOMAIN received']
      BY <1>1, <2>3 DEF Receive, workerVars, EventsInv, TypeOK
    <3>2. event' \in [Events -> EventStates]
          /\ job' \in [Events -> {"none", "QUEUED", "SUCCEEDED", "DEAD_LETTER"}]
      BY <1>1 DEF Receive, EventsInv, TypeOK, EventStates
    <3>3. QED
      BY <1>1, <2>3, <3>1, <3>2
         DEF Receive, EventsInv, TypeOK, providerVars, workerVars, rowVars
  <2>5. EventsAndJobsAgree'
    BY <1>1, <2>1, <2>2
       DEF Receive, EventsInv, TypeOK, EventsAndJobsAgree, OneWorkerPerEvent, workerVars
  <2>6. WorkersHoldEvents'
    BY <1>1 DEF Receive, EventsInv, WorkersHoldEvents, providerVars, workerVars
  <2>7. EventsBegin'
    BY <1>1, <2>1 DEF Receive, EventsInv, TypeOK, EventsBegin, providerVars
  <2>8. QED BY <2>4, <2>5, <2>6, <2>7 DEF EventsInv
<1>2. CASE BackoffElapses(e)
  BY <1>2 DEF BackoffElapses, EventsInv, TypeOK, EventsAndJobsAgree, OneWorkerPerEvent,
     WorkersHoldEvents, EventsBegin, providerVars, workerVars, rowVars
<1>3. QED BY <1>1, <1>2 DEF EventStep

\* A worker that is busy has an event, which is marked and has happened.
LEMMA BusyHasEvent ==
  ASSUME EventsInv, NEW w \in Workers, at[w] \in Busy
  PROVE  /\ taken[w] \in Events /\ taken[w] # None /\ taken[w] \in Happened
         /\ event[taken[w]] = "PROCESSING" /\ changes[taken[w]] \in Changes
         /\ \A v \in Workers : taken[v] = taken[w] => v = w
<1>1. taken[w] \in Events /\ taken[w] # None
  BY DEF EventsInv, WorkersHoldEvents, TypeOK
<1>2. /\ event[taken[w]] = "PROCESSING"
      /\ \A v \in Workers : taken[v] = taken[w] => v = w
  BY <1>1 DEF EventsInv, EventsAndJobsAgree, OneWorkerPerEvent
<1>3. taken[w] \in Happened
  BY <1>1, <1>2 DEF EventsInv, EventsBegin, Events, Happened
<1>4. changes[taken[w]] \in Changes BY <1>3 DEF EventsInv, TypeOK, Happened
<1>5. QED BY <1>1, <1>2, <1>3, <1>4

\* Steps of a worker that only move it and what it has read.
LEMMA MoveKeepsEvents ==
  ASSUME EventsInv, NEW w \in Workers,
         UNCHANGED <<providerVars, eventVars, call>>, TypeOK',
         \A v \in Workers : v # w => at'[v] = at[v] /\ taken'[v] = taken[v],
         at'[w] \in Busy <=> taken'[w] # None,
         taken'[w] # None => taken'[w] = taken[w],
         at'[w] \in Busy \ {"taken"} => changes[taken[w]].kind \in Supported
  PROVE  EventsInv'
<1>1. \A v \in Workers : taken'[v] # None => taken'[v] = taken[v]
  OBVIOUS
<1>2. EventsAndJobsAgree'
  BY <1>1 DEF EventsInv, EventsAndJobsAgree, OneWorkerPerEvent, eventVars
<1>3. WorkersHoldEvents'
  <2>1. at'[w] \in Busy \ {"taken"} => taken'[w] = taken[w]
    OBVIOUS
  <2>2. QED BY <2>1 DEF EventsInv, WorkersHoldEvents, providerVars
<1>4. EventsBegin' BY DEF EventsInv, EventsBegin, eventVars, providerVars
<1>5. QED BY <1>2, <1>3, <1>4 DEF EventsInv

LEMMA SelectKeepsEvents ==
  ASSUME EventsInv, NEW w \in Workers, Select(w)
  PROVE  EventsInv'
<1>1. ReadyPositions \subseteq DOMAIN received BY DEF ReadyPositions
<1>2. TypeOK'
  BY <1>1 DEF Select, EventsInv, TypeOK, providerVars, eventVars, rowVars
<1>3. QED
  BY <1>2, MoveKeepsEvents
     DEF Select, EventsInv, TypeOK, WorkersHoldEvents, Busy, eventVars

LEMMA RetrieveKeepsEvents ==
  ASSUME EventsInv, NEW w \in Workers, Retrieve(w)
  PROVE  EventsInv'
<1>1. at[w] \in Busy BY DEF Retrieve, Busy
<1>2. changes[taken[w]].of \in Subscriptions
  BY <1>1, BusyHasEvent DEF Retrieve, Changes, Subjects
<1>3. TypeOK'
  BY <1>2 DEF Retrieve, EventsInv, TypeOK, providerVars, eventVars, rowVars
<1>4. QED
  BY <1>1, <1>3, MoveKeepsEvents DEF Retrieve, EventsInv, TypeOK, WorkersHoldEvents, Busy

LEMMA PassOverKeepsEvents ==
  ASSUME EventsInv, NEW w \in Workers, PassOver(w)
  PROVE  EventsInv'
<1>1. at[w] \in Busy BY DEF PassOver, Busy
<1>2. TypeOK'
  BY DEF PassOver, Onwards, EventsInv, TypeOK, providerVars, eventVars, rowVars
<1>3. at'[w] \in Busy /\ \A v \in Workers : v # w => at'[v] = at[v]
  BY DEF PassOver, Onwards, EventsInv, TypeOK, Busy
<1>4. changes[taken[w]].kind \in Supported /\ taken[w] # None /\ UNCHANGED taken
  BY <1>1, BusyHasEvent DEF PassOver
<1>5. QED BY <1>2, <1>3, <1>4, MoveKeepsEvents DEF PassOver

LEMMA ReconcileKeepsEvents ==
  ASSUME EventsInv, NEW w \in Workers, Reconcile(w)
  PROVE  EventsInv'
<1>1. at[w] \in Busy /\ at[w] # "taken" BY DEF Reconcile, Busy
<1>2. changes[taken[w]].time \in Nat BY <1>1, BusyHasEvent DEF Changes
<1>3. stored' \in 0 .. Len(changes) /\ storedAt' \in Nat
  BY <1>2 DEF Reconcile, Reconciles, EventsInv, TypeOK
<1>4. /\ at' \in [Workers -> {"idle", "batch", "taken", "read", "invoice", "finish"}]
      /\ snapshot' \in [Workers -> 0 .. Len(changes)]
  BY DEF Reconcile, Onwards, EventsInv, TypeOK
<1>5. TypeOK'
  BY <1>3, <1>4 DEF Reconcile, EventsInv, TypeOK, providerVars, eventVars
<1>6. at'[w] \in Busy /\ \A v \in Workers : v # w => at'[v] = at[v]
  BY DEF Reconcile, Onwards, EventsInv, TypeOK, Busy
<1>7. changes[taken[w]].kind \in Supported /\ taken[w] # None /\ UNCHANGED taken
  BY <1>1, BusyHasEvent DEF Reconcile, EventsInv, WorkersHoldEvents
<1>8. QED BY <1>5, <1>6, <1>7, MoveKeepsEvents DEF Reconcile

LEMMA PersistKeepsEvents ==
  ASSUME EventsInv, NEW w \in Workers, PersistInvoice(w)
  PROVE  EventsInv'
<1>1. at[w] \in Busy /\ at[w] # "taken" BY DEF PersistInvoice, Busy
<1>2. taken[w] \in Versions BY <1>1, BusyHasEvent DEF Events, Versions
<1>3. TypeOK'
  BY <1>2 DEF PersistInvoice, EventsInv, TypeOK, providerVars, eventVars
<1>4. at'[w] \in Busy /\ \A v \in Workers : v # w => at'[v] = at[v]
  BY DEF PersistInvoice, EventsInv, TypeOK, Busy
<1>5. changes[taken[w]].kind \in Supported /\ taken[w] # None /\ UNCHANGED taken
  BY <1>1, BusyHasEvent DEF PersistInvoice, EventsInv, WorkersHoldEvents
<1>6. QED BY <1>3, <1>4, <1>5, MoveKeepsEvents DEF PersistInvoice

LEMMA CrashKeepsEvents ==
  ASSUME EventsInv, NEW w \in Workers, Crash(w)
  PROVE  EventsInv'
<1>1. TypeOK'
  BY DEF Crash, EventsInv, TypeOK, providerVars, eventVars, rowVars
<1>2. QED
  BY <1>1, MoveKeepsEvents DEF Crash, EventsInv, TypeOK, WorkersHoldEvents, Busy

\* An event that is open, and hence nobody's, is taken with one attempt more.
LEMMA ClaimKeepsEvents ==
  ASSUME EventsInv, NEW w \in Workers, Claim(w)
  PROVE  EventsInv'
<1>1. PICK i \in batch[w] :
        /\ batch' = [batch EXCEPT ![w] = @ \ {i}]
        /\ \/ Open(received[i]) /\ Takes(w, received[i])
           \/ /\ at' = [at EXCEPT ![w] = IF batch[w] = {i} THEN "idle" ELSE "batch"]
              /\ UNCHANGED <<event, attempts, taken>>
  BY DEF Claim
<1>2. UNCHANGED <<providerVars, job, waiting, received, snapshot, call, rowVars>>
      /\ at[w] = "batch"
  BY DEF Claim
<1>3. batch' \in [Workers -> SUBSET DOMAIN received] BY <1>1 DEF EventsInv, TypeOK
<1> DEFINE e == received[i]
<1>4. e \in Events
  <2>1. i \in DOMAIN received /\ received \in Seq(Events) BY DEF EventsInv, TypeOK
  <2>2. QED BY <2>1
<1>5. CASE Open(e) /\ Takes(w, e)
  <2>1. /\ event' = [event EXCEPT ![e] = "PROCESSING"]
        /\ attempts' = [attempts EXCEPT ![e] = @ + 1]
        /\ at' = [at EXCEPT ![w] = "taken"]
        /\ taken' = [taken EXCEPT ![w] = e]
        /\ event[e] \in {"QUEUED", "FAILED"}
    BY <1>5 DEF Takes, Open
  <2>2. attempts[e] \in Nat /\ attempts[e] < MaxAttempts /\ MaxAttempts \in Nat
    BY <1>4, <2>1, BillingAssumption
       DEF EventsInv, TypeOK, EventsAndJobsAgree, EventsBegin
  <2>3. e # None BY <1>4, BillingAssumption DEF Events
  <2>4. \A v \in Workers : taken[v] # None => taken[v] # e
    BY <2>1 DEF EventsInv, EventsAndJobsAgree, OneWorkerPerEvent
  <2>5. job[e] \notin {"SUCCEEDED", "DEAD_LETTER"}
    BY <1>4, <2>1 DEF EventsInv, EventsAndJobsAgree
  <2>6. TypeOK'
    <3>1. attempts' \in [Events -> 0 .. MaxAttempts]
      BY <1>4, <2>1, <2>2 DEF EventsInv, TypeOK
    <3>2. event' \in [Events -> EventStates]
      BY <1>4, <2>1 DEF EventsInv, TypeOK, EventStates
    <3>3. taken' \in [Workers -> Events \cup {None}]
      BY <1>4, <2>1 DEF EventsInv, TypeOK
    <3>4. QED
      BY <1>2, <1>3, <2>1, <3>1, <3>2, <3>3
         DEF EventsInv, TypeOK, providerVars, rowVars
  <2>7. OneWorkerPerEvent'
    BY <1>4, <2>1, <2>4 DEF EventsInv, TypeOK, EventsAndJobsAgree, OneWorkerPerEvent
  <2>8. EventsAndJobsAgree'
    BY <1>2, <1>4, <2>1, <2>5, <2>7 DEF EventsInv, TypeOK, EventsAndJobsAgree
  <2>9. WorkersHoldEvents'
    BY <1>2, <2>1, <2>3 DEF EventsInv, TypeOK, WorkersHoldEvents, providerVars, Busy
  <2>10. EventsBegin'
    BY <1>2, <1>4, <2>1 DEF EventsInv, TypeOK, EventsBegin, providerVars
  <2>11. QED BY <2>6, <2>8, <2>9, <2>10 DEF EventsInv
<1>6. CASE /\ at' = [at EXCEPT ![w] = IF batch[w] = {i} THEN "idle" ELSE "batch"]
           /\ UNCHANGED <<event, attempts, taken>>
  <2>1. TypeOK' BY <1>2, <1>3, <1>6 DEF EventsInv, TypeOK, providerVars, rowVars
  <2>2. at'[w] \notin Busy /\ taken[w] = None
        /\ \A v \in Workers : v # w => at'[v] = at[v]
    BY <1>2, <1>6 DEF EventsInv, TypeOK, WorkersHoldEvents, Busy
  <2>3. QED BY <1>2, <1>6, <2>1, <2>2, MoveKeepsEvents DEF eventVars
<1>7. QED BY <1>1, <1>5, <1>6

\* The event ends or waits, and its worker goes on.
LEMMA GoesKeepsEvents ==
  ASSUME EventsInv, NEW w \in Workers, at[w] \in Busy, Goes(w),
         UNCHANGED <<providerVars, attempts, received, call, rowVars>>,
         NEW state \in Final \cup {"FAILED"},
         NEW to \in {"QUEUED", "SUCCEEDED", "DEAD_LETTER"},
         event' = [event EXCEPT ![taken[w]] = state],
         job' = [job EXCEPT ![taken[w]] = to],
         waiting' \in {waiting, waiting \cup {taken[w]}},
         state \in {"PROCESSED", "IGNORED"} <=> to = "SUCCEEDED",
         state = "DEAD_LETTER" <=> to = "DEAD_LETTER",
         state = "DEAD_LETTER" => attempts[taken[w]] = MaxAttempts,
         state = "FAILED" => attempts[taken[w]] < MaxAttempts
  PROVE  EventsInv'
<1> DEFINE e == taken[w]
<1>1. /\ e \in Events /\ e # None /\ e \in Happened /\ event[e] = "PROCESSING"
      /\ \A v \in Workers : taken[v] = e => v = w
  BY BusyHasEvent
<1>2. /\ at' = [at EXCEPT ![w] = IF batch[w] = {} THEN "idle" ELSE "batch"]
      /\ taken' = [taken EXCEPT ![w] = None]
      /\ snapshot' = [snapshot EXCEPT ![w] = 0]
      /\ UNCHANGED batch
  BY DEF Goes
<1>3. TypeOK'
  <2>1. event' \in [Events -> EventStates]
    BY <1>1 DEF EventsInv, TypeOK, EventStates, Final
  <2>2. job' \in [Events -> {"none", "QUEUED", "SUCCEEDED", "DEAD_LETTER"}]
    BY <1>1 DEF EventsInv, TypeOK
  <2>3. waiting' \in SUBSET Events BY <1>1 DEF EventsInv, TypeOK
  <2>4. snapshot' \in [Workers -> 0 .. Len(changes)] BY <1>2 DEF EventsInv, TypeOK
  <2>5. taken' \in [Workers -> Events \cup {None}] BY <1>2 DEF EventsInv, TypeOK
  <2>6. QED
    BY <1>2, <2>1, <2>2, <2>3, <2>4, <2>5 DEF EventsInv, TypeOK, providerVars, rowVars
<1>4. OneWorkerPerEvent'
  BY <1>1, <1>2 DEF EventsInv, TypeOK, EventsAndJobsAgree, OneWorkerPerEvent
<1>5. EventsAndJobsAgree'
  BY <1>1, <1>4 DEF EventsInv, TypeOK, EventsAndJobsAgree, Final
<1>6. WorkersHoldEvents'
  BY <1>2 DEF EventsInv, TypeOK, WorkersHoldEvents, providerVars, Busy
<1>7. EventsBegin'
  BY <1>1 DEF EventsInv, TypeOK, EventsBegin, providerVars, Happened, Final
<1>8. QED BY <1>3, <1>5, <1>6, <1>7 DEF EventsInv

LEMMA EndKeepsEvents ==
  ASSUME EventsInv, NEW w \in Workers, Ignore(w) \/ Finish(w) \/ Fail(w)
  PROVE  EventsInv'
<1>1. at[w] \in Busy BY DEF Ignore, Finish, Fail, Fails, Busy
<1>2. ASSUME NEW state \in {"IGNORED", "PROCESSED"}, Settle(w, state)
      PROVE  EventsInv'
  BY <1>1, <1>2, GoesKeepsEvents DEF Settle, Final
<1>3. CASE Fail(w)
  <2>1. /\ attempts[taken[w]] \in 0 .. MaxAttempts /\ MaxAttempts \in Nat
    BY <1>1, BusyHasEvent, BillingAssumption DEF EventsInv, TypeOK
  <2>2. CASE attempts[taken[w]] >= MaxAttempts
    <3>1. /\ event' = [event EXCEPT ![taken[w]] = "DEAD_LETTER"]
          /\ job' = [job EXCEPT ![taken[w]] = "DEAD_LETTER"]
          /\ waiting' = waiting
          /\ Goes(w) /\ UNCHANGED <<providerVars, attempts, received, call, rowVars>>
      BY <1>3, <2>1, <2>2 DEF Fail, Fails
    <3>2. "DEAD_LETTER" \in Final \cup {"FAILED"} BY DEF Final
    <3>3. attempts[taken[w]] = MaxAttempts BY <2>1, <2>2
    <3>4. QED BY <1>1, <3>1, <3>2, <3>3, GoesKeepsEvents
  <2>3. CASE attempts[taken[w]] < MaxAttempts
    <3>1. /\ event' = [event EXCEPT ![taken[w]] = "FAILED"]
          /\ job' = [job EXCEPT ![taken[w]] = "QUEUED"]
          /\ waiting' = waiting \cup {taken[w]}
          /\ Goes(w) /\ UNCHANGED <<providerVars, attempts, received, call, rowVars>>
      <4>1. ~ (attempts[taken[w]] >= MaxAttempts) BY <2>1, <2>3
      <4>2. QED BY <1>3, <4>1, Zenon DEF Fail, Fails
    <3>2. "FAILED" \in Final \cup {"FAILED"} BY DEF Final
    <3>3. QED BY <1>1, <2>1, <2>3, <3>1, <3>2, GoesKeepsEvents
  <2>4. QED BY <2>1, <2>2, <2>3
<1>4. QED BY <1>2, <1>3 DEF Ignore, Finish

LEMMA StutterKeepsEvents == ASSUME EventsInv, UNCHANGED vars PROVE EventsInv'
BY DEF vars, providerVars, eventVars, workerVars, rowVars, EventsInv, TypeOK,
   EventsAndJobsAgree, OneWorkerPerEvent, WorkersHoldEvents, EventsBegin

LEMMA NextKeepsEvents == EventsInv /\ [Next]_vars => EventsInv'
BY OutsideKeepsEvents, ReceptionKeepsEvents, SelectKeepsEvents, ClaimKeepsEvents,
   PassOverKeepsEvents, RetrieveKeepsEvents, ReconcileKeepsEvents, PersistKeepsEvents,
   EndKeepsEvents, CrashKeepsEvents, StutterKeepsEvents
   DEF Next, WorkerStep, Process

LEMMA EventsInvariant == Spec => []EventsInv
BY EventsInit, NextKeepsEvents, PTL DEF Spec

\* Types are kept, whatever fails and dies.
THEOREM TypesAreKept == Spec => []TypeOK
BY EventsInvariant, PTL DEF EventsInv

\* EventsAndJobsAgree holds for any number of workers that take the same
\* batches, fail and die (processQueued and processEvent): an event ends with
\* its job, after all its attempts or before them, in the hands of one worker.
THEOREM EventsAndJobsTogether == Spec => []EventsAndJobsAgree
BY EventsInvariant, PTL DEF EventsInv
-----------------------------------------------------------------------------
(***************************************************************************)
(* The provider's changes, what is read of them, and the row.              *)
(***************************************************************************)
LEMMA RowInit == Init => RowInv
BY BillingAssumption
   DEF Init, RowInv, ChangesInOrder, ReadsAreRecent, RowHasASource,
       ReconciledIsCovered, Reconciled, Happened

\* The time of the last change bounds those of all others, and is even.
LEMMA ClockIsLast ==
  ASSUME TypeOK, ChangesInOrder
  PROVE  /\ Clock \in Nat /\ Clock % 2 = 0
         /\ \A e \in Happened : changes[e].time <= Clock
<1>1. CASE changes = <<>> BY <1>1 DEF Clock, Happened
<1>2. CASE changes # <<>>
  <2>1. Len(changes) \in Happened /\ \A e \in Happened : e <= Len(changes)
    BY <1>2 DEF TypeOK, Happened
  <2>2. QED BY <1>2, <2>1, ClockIsNat DEF Clock, ChangesInOrder
<1>3. QED BY <1>1, <1>2

LEMMA ReconciledHasHappened ==
  ASSUME EventsInv, NEW e \in Events, Reconciled(e)
  PROVE  e \in Happened
<1>1. event[e] # "none"
  BY BillingAssumption
     DEF Reconciled, EventsInv, EventsAndJobsAgree, OneWorkerPerEvent, Events
<1>2. QED BY <1>1 DEF EventsInv, EventsBegin, Events, Happened

\* A change keeps the order of the changes, and what is known of older ones.
LEMMA ChangeKeepsRow ==
  ASSUME EventsInv, RowInv, NEW kind \in AllKinds, NEW s \in Subjects,
         NEW entitled \in Entitled, NEW time \in NextTimes,
         Change(kind, s, entitled, time),
         UNCHANGED <<eventVars, workerVars, rowVars>>,
         call' \in {call, Len(changes')}
  PROVE  RowInv'
<1> DEFINE n == Len(changes')
           version == IF s = None THEN 0
                      ELSE IF kind = "subscription" THEN n ELSE latest[s]
<1>1. TypeOK /\ ChangesInOrder BY DEF EventsInv, RowInv
<1>2. /\ changes' \in Seq(Changes) /\ n = Len(changes) + 1
      /\ \A e \in Happened : changes'[e] = changes[e]
      /\ changes'[n] = [kind |-> kind, of |-> s, entitled |-> entitled,
                        time |-> time, version |-> version]
  BY <1>1, ChangeAppends
<1>3. /\ Len(changes) \in Nat /\ n \in Nat
      /\ \A e \in Happened' : e \in Happened \/ e = n
      /\ Happened \subseteq Happened' /\ n \in Happened' /\ n \notin Happened
  BY <1>1, <1>2 DEF Happened, TypeOK
<1>4. /\ latest' = IF s = None THEN latest ELSE [latest EXCEPT ![s] = version]
      /\ latest \in [Subscriptions -> 0 .. Len(changes)]
      /\ kind \in MayNameNone /\ s # None => latest[s] # 0
      /\ s # None => s \in Subscriptions
  BY <1>1, <1>2 DEF Change, TypeOK, Subjects
<1>5. time \in Nat /\ time % 2 = 0 /\ Clock <= time
  BY <1>1, ClockIsLast DEF NextTimes
<1>6. ASSUME NEW e \in Happened
      PROVE  /\ e < n /\ changes[e].time \in Nat /\ changes[e].time <= Clock
             /\ changes[e].version \in Nat /\ changes[e].of \in Subjects
  <2>1. changes[e] \in Changes BY <1>1 DEF TypeOK, Happened
  <2>2. e < n BY <1>2, <1>3 DEF Happened
  <2>3. QED BY <1>1, <2>1, <2>2, ClockIsLast DEF Changes, Versions
<1>7. /\ s # None => latest[s] \in 0 .. Len(changes) /\ latest[s] <= version
      /\ version \in 0 .. n
  BY <1>2, <1>3, <1>4
<1>8. changes'[n].time = time /\ changes'[n].of = s /\ changes'[n].version = version
      /\ changes'[n].kind = kind
  BY <1>2
<1> HIDE DEF n, version
<1>9. ChangesInOrder'
  <2>1. ASSUME NEW e \in Happened'
        PROVE  /\ changes'[e].time % 2 = 0
               /\ changes'[e].of # None
                    => changes'[e].version <= latest'[changes'[e].of]
               /\ changes'[e].of # None /\ changes'[e].kind \in Supported
                    => changes'[e].version # 0
    <3>1. CASE e \in Happened
      <4>1. \A t \in Subscriptions :
              latest[t] <= latest'[t] /\ latest[t] \in Nat /\ latest'[t] \in Nat
        BY <1>4, <1>7, <1>3
      <4>2. changes[e].of # None =>
              /\ changes[e].version <= latest[changes[e].of]
              /\ changes[e].of \in Subscriptions
        BY <1>1, <1>6, <3>1 DEF ChangesInOrder, Subjects
      <4>3. QED BY <1>1, <1>2, <1>6, <3>1, <4>1, <4>2 DEF ChangesInOrder
    <3>2. CASE e = n
      <4>1. s # None /\ kind \in Supported => version # 0
        BY <1>2, <1>3, <1>4 DEF Supported, MayNameNone, version
      <4>2. s # None => latest'[s] = version BY <1>4
      <4>3. QED BY <1>5, <1>7, <1>8, <1>3, <3>2, <4>1, <4>2
    <3>3. QED BY <1>3, <2>1, <3>1, <3>2
  <2>2. ASSUME NEW d \in Happened', NEW e \in Happened', d <= e
        PROVE  /\ changes'[d].time <= changes'[e].time
               /\ changes'[d].of # None /\ changes'[d].of = changes'[e].of
                    => changes'[d].version <= changes'[e].version
    <3>1. CASE d \in Happened /\ e \in Happened
      BY <1>1, <1>2, <2>2, <3>1 DEF ChangesInOrder
    <3>2. CASE d \in Happened /\ e = n
      <4>1. changes[d].time <= time BY <1>1, <1>5, <1>6, <3>2, ClockIsLast
      <4>2. s # None /\ changes[d].of = s => changes[d].version <= latest[s]
        BY <1>1, <3>2 DEF ChangesInOrder
      <4>3. s # None /\ changes[d].of = s => changes[d].version <= version
        BY <1>3, <1>6, <1>7, <3>2, <4>2
      <4>4. QED BY <1>2, <1>8, <3>2, <4>1, <4>3
    <3>3. CASE d = n
      <4>1. e = n BY <1>3, <1>6, <2>2, <3>3 DEF Happened
      <4>2. QED BY <1>3, <1>5, <1>7, <1>8, <3>3, <4>1
    <3>4. QED BY <1>3, <2>2, <3>1, <3>2, <3>3
  <2>3. ASSUME NEW t \in Subscriptions, latest'[t] # 0
        PROVE  changes'[latest'[t]].of = t
    <3>1. CASE latest'[t] = n /\ t = s BY <1>8, <3>1
    <3>2. CASE latest'[t] = latest[t]
      <4>1. latest[t] \in Happened BY <1>4, <2>3, <3>2, <1>3 DEF Happened
      <4>2. QED BY <1>1, <1>2, <2>3, <3>2, <4>1 DEF ChangesInOrder
    <3>3. QED BY <1>4, <3>1, <3>2 DEF version
  <2>4. QED BY <2>1, <2>2, <2>3 DEF ChangesInOrder
<1>10. ReadsAreRecent'
  <2>1. ASSUME NEW w \in Workers, at[w] = "read"
        PROVE  taken[w] \in Happened /\ snapshot[w] \in Happened
    BY <2>1, BusyHasEvent DEF Busy, RowInv, ReadsAreRecent
  <2>2. QED
    BY <1>2, <1>3, <2>1 DEF RowInv, ReadsAreRecent, workerVars, n
<1>11. RowHasASource'
  <2>1. stored # 0 => stored \in Happened
    BY <1>1, <1>3 DEF TypeOK, Happened
  <2>2. QED BY <1>2, <1>3, <2>1 DEF RowInv, RowHasASource, rowVars
<1>12. ReconciledIsCovered'
  <2>1. \A e \in Events : Reconciled(e)' => Reconciled(e)
    BY DEF Reconciled, eventVars, workerVars
  <2>2. QED
    BY <1>2, <2>1, ReconciledHasHappened DEF RowInv, ReconciledIsCovered, rowVars
<1>13. QED BY <1>9, <1>10, <1>11, <1>12 DEF RowInv

LEMMA OutsideKeepsRow ==
  ASSUME EventsInv, RowInv, ProviderChanges \/ CallStep
  PROVE  RowInv'
<1>1. TypeOK /\ ChangesInOrder /\ Len(changes) \in Nat
  BY DEF EventsInv, RowInv, TypeOK
<1>2. CASE ProviderChanges
  <2>1. PICK kind \in Kinds, s \in Subjects, entitled \in Entitled,
             time \in NextTimes : Change(kind, s, entitled, time)
    BY <1>2 DEF ProviderChanges
  <2>2. kind \in AllKinds BY BillingAssumption
  <2>3. QED BY <1>2, <2>1, <2>2, ChangeKeepsRow DEF ProviderChanges
<1>3. CASE CallChanges
  <2>1. PICK entitled \in Entitled, time \in NextTimes :
          Change("subscription", changes[stored].of, entitled, time)
    BY <1>3 DEF CallChanges
  <2>2. stored \in 1 .. Len(changes) BY <1>1, <1>3 DEF CallChanges, TypeOK
  <2>3. changes[stored] \in Changes BY <1>1, <2>2 DEF TypeOK
  <2>4. changes[stored].of \in Subjects /\ "subscription" \in AllKinds
    BY <2>3 DEF Changes, AllKinds
  <2>5. QED BY <1>3, <2>1, <2>4, ChangeKeepsRow DEF CallChanges
<1>4. CASE CallRetrieves
  <2>1. call' \in Happened
    BY <1>1, <1>4 DEF CallRetrieves, TypeOK, Happened
  <2>2. QED
    BY <1>4, <2>1 DEF CallRetrieves, RowInv, ChangesInOrder, ReadsAreRecent,
       RowHasASource, ReconciledIsCovered, Reconciled, Happened, providerVars,
       eventVars, workerVars, rowVars
<1>5. CASE CallWrites
  <2>1. /\ UNCHANGED <<providerVars, eventVars, workerVars>>
        /\ call' = None /\ call \in Happened /\ Reconciles(call, Clock + 1)
    BY <1>5 DEF CallWrites, RowInv, ReadsAreRecent
  <2>2. ChangesInOrder' /\ ReadsAreRecent'
    BY <2>1 DEF RowInv, ChangesInOrder, ReadsAreRecent, Happened, providerVars,
       workerVars
  <2>3. \A e \in Events : Reconciled(e)' <=> Reconciled(e)
    BY <2>1 DEF Reconciled, eventVars, workerVars
  <2>4. CASE UNCHANGED <<stored, storedAt>>
    BY <2>1, <2>2, <2>3, <2>4
       DEF RowInv, RowHasASource, ReconciledIsCovered, Happened, providerVars
  <2>5. CASE /\ stored' = call /\ storedAt' = Clock + 1
             /\ stored = 0 \/ storedAt <= Clock + 1
    <3>1. Clock \in Nat /\ (Clock + 1) % 2 = 1 /\ call # 0
      <4>1. Clock \in Nat /\ Clock % 2 = 0 BY <1>1, ClockIsLast
      <4>2. (Clock + 1) % 2 = 1 BY <4>1
      <4>3. QED BY <1>1, <2>1, <4>1, <4>2 DEF Happened
    <3>2. RowHasASource' BY <2>5, <3>1 DEF RowHasASource
    <3>3. ReconciledIsCovered'
      <4> SUFFICES ASSUME NEW e \in Events, Reconciled(e)', changes'[e].of # None
                   PROVE  stored' # 0 /\ changes'[e].time <= storedAt'
        BY DEF ReconciledIsCovered
      <4>1. e \in Happened BY <2>3, ReconciledHasHappened
      <4>2. changes[e].time <= Clock BY <1>1, <4>1, ClockIsLast
      <4>3. changes[e] \in Changes BY <1>1, <4>1 DEF TypeOK, Happened
      <4>4. QED BY <2>1, <2>5, <3>1, <4>2, <4>3 DEF providerVars, Changes
    <3>4. QED BY <2>2, <3>2, <3>3 DEF RowInv
  <2>6. storedAt \in Nat /\ Clock \in Nat BY <1>1, ClockIsNat DEF TypeOK
  <2>7. QED BY <2>1, <2>4, <2>5, <2>6 DEF Reconciles
<1>6. QED BY <1>2, <1>3, <1>4, <1>5 DEF CallStep

\* Steps that write neither a change nor the row, read nothing and reconcile
\* no event.
LEMMA OtherStepKeepsRow ==
  ASSUME RowInv, UNCHANGED <<providerVars, call, stored, storedAt>>,
         \A w \in Workers : at'[w] = "read" =>
           at[w] = "read" /\ taken'[w] = taken[w] /\ snapshot'[w] = snapshot[w],
         \A e \in Events : Reconciled(e)' /\ changes[e].of # None => Reconciled(e)
  PROVE  RowInv'
<1>1. ChangesInOrder' BY DEF RowInv, ChangesInOrder, Happened, providerVars
<1>2. ReadsAreRecent' BY DEF RowInv, ReadsAreRecent, Happened, providerVars
<1>3. RowHasASource' BY DEF RowInv, RowHasASource, Happened, providerVars
<1>4. ReconciledIsCovered' BY DEF RowInv, ReconciledIsCovered, providerVars
<1>5. QED BY <1>1, <1>2, <1>3, <1>4 DEF RowInv

\* The provider answers with all its changes of the subscription.
LEMMA RetrieveKeepsRow ==
  ASSUME EventsInv, RowInv, NEW w \in Workers, Retrieve(w)
  PROVE  RowInv'
<1> DEFINE e == taken[w]
           s == changes[e].of
<1>1. at[w] \in Busy BY DEF Retrieve, Busy
<1>2. /\ e \in Happened /\ s \in Subscriptions /\ changes[e].version \in Nat
      /\ changes[e].kind \in Supported /\ s # None
  BY <1>1, BusyHasEvent DEF Retrieve, Changes, Versions, Subjects
<1>3. changes[e].version # 0 /\ changes[e].version <= latest[s]
  BY <1>2 DEF RowInv, ChangesInOrder
<1>4. latest[s] \in Happened BY <1>2, <1>3 DEF EventsInv, TypeOK, Happened
<1>5. changes[latest[s]].of = s
  BY <1>2, <1>4 DEF RowInv, ChangesInOrder, Happened
<1>6. /\ snapshot' = [snapshot EXCEPT ![w] = latest[s]]
      /\ at' = [at EXCEPT ![w] = "read"]
      /\ UNCHANGED <<providerVars, eventVars, batch, taken, call, rowVars>>
  BY DEF Retrieve
<1>7. ChangesInOrder'
  BY <1>6 DEF RowInv, ChangesInOrder, Happened, providerVars
<1>8. ReadsAreRecent'
  BY <1>3, <1>4, <1>5, <1>6
     DEF RowInv, ReadsAreRecent, EventsInv, TypeOK, Happened, providerVars
<1>9. RowHasASource' BY <1>6 DEF RowInv, RowHasASource, Happened, providerVars, rowVars
<1>10. ReconciledIsCovered'
  BY <1>6 DEF RowInv, ReconciledIsCovered, Reconciled, EventsInv, TypeOK,
     providerVars, eventVars, rowVars
<1>11. QED BY <1>7, <1>8, <1>9, <1>10 DEF RowInv

\* The row becomes the event's, or comes from a later one: no event that has
\* been reconciled is later than it.
LEMMA ReconcileKeepsRow ==
  ASSUME EventsInv, RowInv, NEW w \in Workers, Reconcile(w)
  PROVE  RowInv'
<1> DEFINE e == taken[w]
<1>1. /\ at[w] = "read" /\ Reconciles(snapshot[w], changes[e].time)
      /\ UNCHANGED <<providerVars, eventVars, batch, taken, call, invoice>>
      /\ \A v \in Workers : v # w => at'[v] = at[v] /\ snapshot'[v] = snapshot[v]
      /\ at'[w] \in {"invoice", "finish"}
  BY DEF Reconcile, Onwards, EventsInv, TypeOK
<1>2. e \in Happened /\ changes[e].time \in Nat /\ storedAt \in Nat
  BY <1>1, BusyHasEvent DEF Busy, Changes, EventsInv, TypeOK
<1>3. /\ snapshot[w] \in Happened /\ snapshot[w] # 0
      /\ changes[snapshot[w]].of = changes[e].of
      /\ changes[e].version <= snapshot[w]
  BY <1>1 DEF RowInv, ReadsAreRecent, Happened
<1>4. ChangesInOrder' /\ ReadsAreRecent'
  BY <1>1 DEF RowInv, ChangesInOrder, ReadsAreRecent, Happened, providerVars
<1>5. \A d \in Events : Reconciled(d)' => Reconciled(d) \/ d = e
  BY <1>1 DEF Reconciled, eventVars
<1>6. CASE stored # 0 /\ storedAt > changes[e].time /\ UNCHANGED <<stored, storedAt>>
  <2>1. RowHasASource' BY <1>1, <1>6 DEF RowInv, RowHasASource, Happened, providerVars
  <2>2. ReconciledIsCovered'
    BY <1>1, <1>2, <1>5, <1>6 DEF RowInv, ReconciledIsCovered, providerVars
  <2>3. QED BY <1>4, <2>1, <2>2 DEF RowInv
<1>7. CASE /\ stored = 0 \/ storedAt <= changes[e].time
           /\ stored' = snapshot[w] /\ storedAt' = changes[e].time
  <2>1. RowHasASource'
    BY <1>1, <1>2, <1>3, <1>7 DEF RowHasASource, Happened, providerVars
  <2>2. ReconciledIsCovered'
    <3> SUFFICES ASSUME NEW d \in Events, Reconciled(d)', changes'[d].of # None
                 PROVE  stored' # 0 /\ changes'[d].time <= storedAt'
      BY DEF ReconciledIsCovered
    <3>1. CASE d = e BY <1>1, <1>2, <1>3, <1>7, <3>1 DEF providerVars
    <3>2. CASE Reconciled(d)
      <4>1. stored # 0 /\ changes[d].time <= storedAt
        BY <1>1, <3>2 DEF RowInv, ReconciledIsCovered, providerVars
      <4>2. d \in Happened BY <3>2, ReconciledHasHappened
      <4>3. changes[d] \in Changes BY <4>2 DEF EventsInv, TypeOK, Happened
      <4>4. changes[d].time \in Nat BY <4>3 DEF Changes
      <4>5. QED BY <1>1, <1>2, <1>3, <1>7, <4>1, <4>4 DEF providerVars
    <3>3. QED BY <1>5, <3>1, <3>2
  <2>3. QED BY <1>4, <2>1, <2>2 DEF RowInv
<1>8. QED BY <1>1, <1>2, <1>6, <1>7 DEF Reconciles

\* An event that is received, selected, taken or ended is not reconciled by it.
LEMMA EventStepsKeepRow ==
  ASSUME EventsInv, RowInv, NEW e \in Events, EventStep(e)
  PROVE  RowInv'
<1>1. UNCHANGED <<providerVars, workerVars, call, rowVars>>
  BY DEF EventStep, Receive, BackoffElapses
<1>2. \A d \in Events : event'[d] = "PROCESSED" => event[d] = "PROCESSED"
  BY DEF EventStep, Receive, BackoffElapses, EventsInv, TypeOK
<1>3. QED BY <1>1, <1>2, OtherStepKeepsRow DEF Reconciled, workerVars, rowVars

LEMMA ClaimStepsKeepRow ==
  ASSUME EventsInv, RowInv, NEW w \in Workers, Select(w) \/ Claim(w)
  PROVE  RowInv'
<1>1. UNCHANGED <<providerVars, snapshot, call, rowVars>>
  BY DEF Select, Claim
<1>2. /\ \A v \in Workers : v # w => at'[v] = at[v] /\ taken'[v] = taken[v]
      /\ at'[w] \in {"idle", "batch", "taken"}
  BY DEF Select, Claim, Takes, EventsInv, TypeOK
<1>3. \A d \in Events : event'[d] = "PROCESSED" => event[d] = "PROCESSED"
  BY DEF Select, Claim, Takes, EventsInv, TypeOK, eventVars
<1>4. \A d \in Events : Reconciled(d)' => Reconciled(d)
  BY <1>2, <1>3 DEF Reconciled
<1>5. QED BY <1>1, <1>2, <1>4, OtherStepKeepsRow DEF rowVars

LEMMA EndStepsKeepRow ==
  ASSUME EventsInv, RowInv, NEW w \in Workers,
         PersistInvoice(w) \/ Ignore(w) \/ Finish(w) \/ Fail(w) \/ Crash(w)
  PROVE  RowInv'
<1>1. /\ UNCHANGED <<providerVars, call, stored, storedAt>>
      /\ \A v \in Workers : v # w =>
           at'[v] = at[v] /\ taken'[v] = taken[v] /\ snapshot'[v] = snapshot[v]
      /\ at'[w] # "read"
  BY DEF PersistInvoice, Ignore, Finish, Settle, Fail, Fails, Goes, Crash, rowVars,
     EventsInv, TypeOK
<1>2. \A d \in Events : Reconciled(d)' => Reconciled(d)
  <2>1. CASE PersistInvoice(w)
    BY <2>1 DEF PersistInvoice, Reconciled, eventVars, EventsInv, TypeOK
  <2>2. CASE Crash(w)
    BY <2>2 DEF Crash, Reconciled, eventVars, EventsInv, TypeOK
  <2>3. ASSUME NEW state \in EventStates, Goes(w),
               event' = [event EXCEPT ![taken[w]] = state],
               state = "PROCESSED" => at[w] = "finish", at[w] \in Busy
        PROVE  \A d \in Events : Reconciled(d)' => Reconciled(d)
    <3>1. /\ at'[w] \notin Busy
          /\ \A v \in Workers : v # w => at'[v] = at[v] /\ taken'[v] = taken[v]
      BY <2>3 DEF Goes, EventsInv, TypeOK, Busy
    <3>2. \A d \in Events : event'[d] = "PROCESSED" =>
            event[d] = "PROCESSED" \/ (d = taken[w] /\ at[w] = "finish")
      BY <2>3 DEF EventsInv, TypeOK
    <3>3. QED BY <3>1, <3>2 DEF Reconciled, Busy
  <2>4. CASE Ignore(w)
    BY <2>3, <2>4 DEF Ignore, Settle, EventStates, Busy
  <2>5. CASE Finish(w)
    BY <2>3, <2>5 DEF Finish, Settle, EventStates, Busy
  <2>6. CASE Fail(w)
    <3>1. \E state \in {"DEAD_LETTER", "FAILED"} :
            event' = [event EXCEPT ![taken[w]] = state]
      BY <2>6 DEF Fail, Fails
    <3>2. Goes(w) /\ at[w] \in Busy BY <2>6 DEF Fail, Fails, Busy
    <3>3. QED BY <2>3, <3>1, <3>2 DEF EventStates
  <2>7. QED BY <2>1, <2>2, <2>4, <2>5, <2>6
<1>3. \A v \in Workers : at'[v] = "read" =>
        at[v] = "read" /\ taken'[v] = taken[v] /\ snapshot'[v] = snapshot[v]
  BY <1>1
<1>4. QED BY <1>1, <1>2, <1>3, OtherStepKeepsRow

\* An event that names no subscription leaves the row as it is.
LEMMA PassOverKeepsRow ==
  ASSUME EventsInv, RowInv, NEW w \in Workers, PassOver(w)
  PROVE  RowInv'
<1>1. /\ UNCHANGED <<providerVars, eventVars, call, stored, storedAt, taken, snapshot>>
      /\ \A v \in Workers : v # w => at'[v] = at[v]
      /\ at'[w] # "read" /\ changes[taken[w]].of = None
  BY DEF PassOver, Onwards, EventsInv, TypeOK, rowVars
<1>2. \A d \in Events : Reconciled(d)' /\ changes[d].of # None => Reconciled(d)
  BY <1>1 DEF Reconciled, eventVars
<1>3. QED BY <1>1, <1>2, OtherStepKeepsRow

LEMMA NextKeepsRow == EventsInv /\ RowInv /\ [Next]_vars => RowInv'
<1> SUFFICES ASSUME EventsInv, RowInv, [Next]_vars PROVE RowInv'
  OBVIOUS
<1>1. CASE UNCHANGED vars
  BY <1>1, OtherStepKeepsRow
     DEF vars, providerVars, eventVars, workerVars, rowVars, Reconciled
<1>2. CASE Next
  BY <1>2, OutsideKeepsRow, EventStepsKeepRow, ClaimStepsKeepRow, RetrieveKeepsRow,
     PassOverKeepsRow,
     ReconcileKeepsRow, EndStepsKeepRow
     DEF Next, WorkerStep, Process
<1>3. QED BY <1>1, <1>2

LEMMA RowInvariant == Spec => [](EventsInv /\ RowInv)
<1>1. Init => EventsInv /\ RowInv BY EventsInit, RowInit
<1>2. EventsInv /\ RowInv /\ [Next]_vars => (EventsInv /\ RowInv)'
  BY NextKeepsEvents, NextKeepsRow
<1>3. QED BY <1>1, <1>2, PTL DEF Spec

\* ProcessedEventsAreReflected holds for any number of subscriptions and of
\* events of the same second, in whatever order the events are delivered,
\* retried and processed (reconcileSubscription).
THEOREM RowReflectsProcessedEvents == Spec => []ProcessedEventsAreReflected
<1>1. EventsInv /\ RowInv => ProcessedEventsAreReflected
  <2> SUFFICES ASSUME EventsInv, RowInv, NEW e \in Events, event[e] = "PROCESSED",
                      changes[e].of # None,
                      storedAt % 2 # 1,
                      \A d \in Happened :
                        d # e /\ SameTime(d, e) => changes[d].time # storedAt,
                      changes[stored].of = changes[e].of
               PROVE  stored # 0 /\ stored >= changes[e].version
    BY DEF ProcessedEventsAreReflected, Happened, RowInv, ReconciledIsCovered, Reconciled
  <2>1. /\ stored # 0 /\ changes[e].time <= storedAt /\ e \in Happened
        /\ stored \in Nat /\ storedAt \in Nat
    BY ReconciledHasHappened
       DEF RowInv, ReconciledIsCovered, Reconciled, EventsInv, TypeOK
  <2>2. storedAt % 2 = 0 BY <2>1
  <2>3. PICK d \in Happened : /\ changes[d].time = storedAt
                              /\ changes[stored].of = changes[d].of
                              /\ changes[d].version <= stored
    BY <2>1, <2>2 DEF RowInv, RowHasASource
  <2>4. changes[d] \in Changes /\ changes[e] \in Changes
    BY <2>1, <2>3 DEF EventsInv, TypeOK, Happened
  <2>5. CASE d = e BY <2>1, <2>3, <2>4, <2>5 DEF Changes, Versions
  <2>6. CASE d # e
    <3>1. changes[e].time < changes[d].time
      BY <2>1, <2>3, <2>4, <2>6 DEF SameTime, Changes
    <3>2. e <= d
      BY <2>1, <2>4, <3>1 DEF RowInv, ChangesInOrder, Happened, Changes
    <3>3. changes[e].version <= changes[d].version
      BY <2>1, <2>3, <3>2 DEF RowInv, ChangesInOrder
    <3>4. QED BY <2>1, <2>3, <2>4, <3>3 DEF Changes, Versions
  <2>7. QED BY <2>5, <2>6
<1>2. QED BY <1>1, RowInvariant, PTL
=============================================================================
