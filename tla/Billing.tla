------------------------------- MODULE Billing -------------------------------
(***************************************************************************)
(* BillingService (packages/billing): the webhook events of one customer,  *)
(* the BILLING_WEBHOOK job of each, the workers that process them, and the *)
(* subscription row they reconcile with the provider.  A worker reads the  *)
(* events that are ready, takes them one after the other, asks the         *)
(* provider for the subscription as it is then, and writes what it got     *)
(* unless the row comes from a later event.  Between any two of these      *)
(* steps other workers, requests and the provider go on.                   *)
(*                                                                         *)
(* The provider's changes are numbered; a snapshot of a subscription is    *)
(* the number of the last change it contains.  Times are half seconds: the *)
(* time of an event is a whole second, that of a request is not.  Prices,  *)
(* quantities, periods and the audit are not modelled.  A batch of 25 is   *)
(* never full.                                                             *)
(***************************************************************************)
EXTENDS Integers, Sequences

CONSTANTS
  Subscriptions, \* the customer's subscriptions at the provider
  Workers,       \* processes that call processQueued
  Kinds,         \* the kinds of change that happen
  Entitled,      \* may a status keep the paid plan, may it not?
  MaxAttempts,   \* eight in the code
  MaxChanges,    \* bound: changes at the provider
  SameSecond,    \* may two of them fall into the same second?
  LocalCalls,    \* does anybody change or reconcile a subscription by hand?
  MayCrash,      \* may a worker die?
  None

\* An event is about a subscription, an invoice or a checkout, of a type the
\* code does not know, or of a customer that has no row here.
AllKinds == {"subscription", "invoice", "checkout", "other", "unlinked"}
Supported == {"subscription", "invoice", "checkout"}

\* An invoice or a checkout of one payment only names no subscription.
MayNameNone == {"invoice", "checkout"}
Subjects == Subscriptions \cup {None}

ASSUME BillingAssumption ==
  /\ Kinds \subseteq AllKinds
  /\ Entitled \subseteq BOOLEAN
  /\ MaxAttempts \in Nat \ {0} /\ MaxChanges \in Nat
  /\ SameSecond \in BOOLEAN /\ LocalCalls \in BOOLEAN /\ MayCrash \in BOOLEAN
  /\ None \notin Nat /\ None \notin Subscriptions

VARIABLES
  changes,   \* the provider's changes, each of which has an event
  latest,    \* the last change of each subscription, 0 before it exists
  event,     \* billing_webhook_events.state, by change
  attempts,  \* billing_webhook_events.attempts
  job,       \* jobs.state of the event's job
  waiting,   \* jobs whose available_at lies ahead
  received,  \* the events in the order of their jobs
  at,        \* where each worker is
  batch,     \* the positions in received that it has read and not come to yet
  taken,     \* the event it works on
  snapshot,  \* the subscription it has retrieved and not written yet
  call,      \* the snapshot a request holds
  stored,    \* the change that billing_subscriptions reflects, 0 without a row
  storedAt,  \* provider_event_created_at
  invoice    \* the change that the billing_invoices row of each subject reflects

providerVars == <<changes, latest>>
eventVars == <<event, attempts, job, waiting, received>>
workerVars == <<at, batch, taken, snapshot>>
rowVars == <<stored, storedAt, invoice>>
vars == <<providerVars, eventVars, workerVars, call, rowVars>>

Events == 1 .. MaxChanges
Versions == 0 .. MaxChanges

\* entitled: does the status keep the paid plan?  version: the snapshot that
\* the change belongs to.
Changes == [kind : AllKinds, of : Subjects, entitled : Entitled, time : Nat,
            version : Versions]

EventStates == {"none", "QUEUED", "PROCESSING", "PROCESSED", "IGNORED",
                "FAILED", "DEAD_LETTER"}
Final == {"PROCESSED", "IGNORED", "DEAD_LETTER"}

TypeOK ==
  /\ changes \in Seq(Changes) /\ Len(changes) <= MaxChanges
  /\ latest \in [Subscriptions -> 0 .. Len(changes)]
  /\ event \in [Events -> EventStates]
  /\ attempts \in [Events -> 0 .. MaxAttempts]
  /\ job \in [Events -> {"none", "QUEUED", "SUCCEEDED", "DEAD_LETTER"}]
  /\ waiting \in SUBSET Events
  /\ received \in Seq(Events)
  /\ at \in [Workers -> {"idle", "batch", "taken", "read", "invoice", "finish"}]
  /\ batch \in [Workers -> SUBSET DOMAIN received]
  /\ taken \in [Workers -> Events \cup {None}]
  /\ snapshot \in [Workers -> 0 .. Len(changes)]
  /\ call \in 0 .. Len(changes) \cup {None}
  /\ stored \in 0 .. Len(changes) /\ storedAt \in Nat
  /\ invoice \in [Subjects -> Versions]

Init ==
  /\ changes = <<>> /\ latest = [s \in Subscriptions |-> 0]
  /\ event = [e \in Events |-> "none"]
  /\ attempts = [e \in Events |-> 0]
  /\ job = [e \in Events |-> "none"]
  /\ waiting = {} /\ received = <<>>
  /\ at = [w \in Workers |-> "idle"]
  /\ batch = [w \in Workers |-> {}]
  /\ taken = [w \in Workers |-> None]
  /\ snapshot = [w \in Workers |-> 0]
  /\ call = None
  /\ stored = 0 /\ storedAt = 0 /\ invoice = [s \in Subjects |-> 0]
-----------------------------------------------------------------------------
(***************************************************************************)
(* The provider and the webhook endpoint.                                  *)
(***************************************************************************)
Clock == IF changes = <<>> THEN 0 ELSE changes[Len(changes)].time

\* The second of the next change.
NextTimes == {Clock + 2} \cup (IF SameSecond THEN {Clock} ELSE {})

\* A change at the provider: only one of the subscription itself makes a new
\* snapshot of it.
Change(kind, s, entitled, time) ==
  LET new == Len(changes) + 1
      version == IF s = None THEN 0 ELSE IF kind = "subscription" THEN new ELSE latest[s]
  IN /\ new \in Events
     /\ s = None => kind \in MayNameNone
     /\ kind \in MayNameNone /\ s # None => latest[s] # 0
     /\ changes' = Append(changes, [kind |-> kind, of |-> s,
                                    entitled |-> entitled, time |-> time,
                                    version |-> version])
     /\ latest' = IF s = None THEN latest ELSE [latest EXCEPT ![s] = version]

ProviderChanges ==
  /\ \E kind \in Kinds, s \in Subjects, entitled \in Entitled,
        time \in NextTimes : Change(kind, s, entitled, time)
  /\ UNCHANGED <<eventVars, workerVars, call, rowVars>>

\* ingest: an event is inserted with its job, which it gets only when its
\* customer is known here.  The provider delivers an event any number of
\* times and in any order; one that is there already changes nothing.
Receive(e) ==
  /\ e <= Len(changes) /\ event[e] = "none"
  /\ event' = [event EXCEPT ![e] = "QUEUED"]
  /\ IF changes[e].kind = "unlinked" THEN UNCHANGED <<job, received>>
     ELSE /\ job' = [job EXCEPT ![e] = "QUEUED"]
          /\ received' = Append(received, e)
  /\ UNCHANGED <<providerVars, attempts, waiting, workerVars, call, rowVars>>

BackoffElapses(e) ==
  /\ e \in waiting
  /\ waiting' = waiting \ {e}
  /\ UNCHANGED <<providerVars, event, attempts, job, received, workerVars, call,
                 rowVars>>
-----------------------------------------------------------------------------
(***************************************************************************)
(* The workers.                                                            *)
(***************************************************************************)
\* A slip: failed events are forgotten.
Open_QueuedOnly(e) == event[e] = "QUEUED"

Open(e) == event[e] \in {"QUEUED", "FAILED"}
Ready(e) == Open(e) /\ job[e] = "QUEUED" /\ e \notin waiting

ReadyPositions == {i \in DOMAIN received : Ready(received[i])}

\* processQueued reads the events that are ready, without a lock.
Select(w) ==
  /\ at[w] = "idle" /\ ReadyPositions # {}
  /\ batch' = [batch EXCEPT ![w] = ReadyPositions]
  /\ at' = [at EXCEPT ![w] = "batch"]
  /\ UNCHANGED <<providerVars, eventVars, taken, snapshot, call, rowVars>>

\* The worker is through with an event.
Goes(w) ==
  /\ at' = [at EXCEPT ![w] = IF batch[w] = {} THEN "idle" ELSE "batch"]
  /\ taken' = [taken EXCEPT ![w] = None]
  /\ snapshot' = [snapshot EXCEPT ![w] = 0]
  /\ UNCHANGED batch

Takes(w, e) ==
  /\ event' = [event EXCEPT ![e] = "PROCESSING"]
  /\ attempts' = [attempts EXCEPT ![e] = @ + 1]
  /\ at' = [at EXCEPT ![w] = "taken"]
  /\ taken' = [taken EXCEPT ![w] = e]

\* processEvent: the next event of the batch is taken, if nobody took it
\* since it was read.  Its backoff is not looked at again.
Claim(w) ==
  /\ at[w] = "batch"
  /\ \E i \in batch[w] :
       /\ \A k \in batch[w] : i <= k
       /\ batch' = [batch EXCEPT ![w] = @ \ {i}]
       /\ \/ Open(received[i]) /\ Takes(w, received[i])
          \/ /\ ~Open(received[i])
             /\ at' = [at EXCEPT ![w] = IF batch[w] = {i} THEN "idle" ELSE "batch"]
             /\ UNCHANGED <<event, attempts, taken>>
  /\ UNCHANGED <<providerVars, job, waiting, received, snapshot, call, rowVars>>

\* The event ends, and its job with it.
Settle(w, state) ==
  /\ event' = [event EXCEPT ![taken[w]] = state]
  /\ job' = [job EXCEPT ![taken[w]] = "SUCCEEDED"]
  /\ Goes(w)
  /\ UNCHANGED <<providerVars, attempts, waiting, received, call, rowVars>>

Ignore(w) ==
  /\ at[w] = "taken" /\ changes[taken[w]].kind \notin Supported
  /\ Settle(w, "IGNORED")

\* Where a worker goes with an event whose subscription needs nothing more.
Onwards(e) == IF changes[e].kind = "invoice" THEN "invoice" ELSE "finish"

\* An event that names no subscription has nothing to be reconciled.
PassOver(w) ==
  /\ at[w] = "taken" /\ changes[taken[w]].kind \in Supported
  /\ changes[taken[w]].of = None
  /\ at' = [at EXCEPT ![w] = Onwards(taken[w])]
  /\ UNCHANGED <<providerVars, eventVars, batch, taken, snapshot, call, rowVars>>

\* The provider answers with the subscription as it is now.
Retrieve(w) ==
  /\ at[w] = "taken" /\ changes[taken[w]].kind \in Supported
  /\ changes[taken[w]].of # None
  /\ snapshot' = [snapshot EXCEPT ![w] = latest[changes[taken[w]].of]]
  /\ at' = [at EXCEPT ![w] = "read"]
  /\ UNCHANGED <<providerVars, eventVars, batch, taken, call, rowVars>>

\* A slip: reconcileSubscription does not compare the times.
Reconciles_Always(version, time) == stored' = version /\ storedAt' = time

\* reconcileSubscription: a row that comes from a later event stays.
Reconciles(version, time) ==
  IF stored # 0 /\ storedAt > time THEN UNCHANGED <<stored, storedAt>>
  ELSE stored' = version /\ storedAt' = time

Reconcile(w) ==
  LET e == taken[w]
  IN /\ at[w] = "read"
     /\ Reconciles(snapshot[w], changes[e].time)
     /\ at' = [at EXCEPT ![w] = Onwards(e)]
     /\ snapshot' = [snapshot EXCEPT ![w] = 0]
     /\ UNCHANGED <<providerVars, eventVars, batch, taken, call, invoice>>

\* persistInvoice writes what the event says.
PersistInvoice(w) ==
  /\ at[w] = "invoice"
  /\ invoice' = [invoice EXCEPT ![changes[taken[w]].of] = taken[w]]
  /\ at' = [at EXCEPT ![w] = "finish"]
  /\ UNCHANGED <<providerVars, eventVars, batch, taken, snapshot, call, stored,
                 storedAt>>

Finish(w) == at[w] = "finish" /\ Settle(w, "PROCESSED")

\* The provider or the database throws: the event fails, and after its last
\* attempt it is a dead letter.
Fails(w, terminal) ==
  LET e == taken[w]
  IN /\ at[w] \in {"taken", "read", "invoice", "finish"}
     /\ changes[e].kind \in Supported
     /\ event' = [event EXCEPT ![e] = IF terminal THEN "DEAD_LETTER" ELSE "FAILED"]
     /\ job' = [job EXCEPT ![e] = IF terminal THEN "DEAD_LETTER" ELSE "QUEUED"]
     /\ waiting' = IF terminal THEN waiting ELSE waiting \cup {e}
     /\ Goes(w)
     /\ UNCHANGED <<providerVars, attempts, received, call, rowVars>>

\* Slips: one attempt is given away; the limit is never reached.
Fail_Early(w) == Fails(w, attempts[taken[w]] + 1 >= MaxAttempts)

Fail(w) == Fails(w, attempts[taken[w]] >= MaxAttempts)

\* The worker dies, or its last statement fails as well.
Crash(w) ==
  /\ MayCrash /\ at[w] # "idle"
  /\ at' = [at EXCEPT ![w] = "idle"]
  /\ batch' = [batch EXCEPT ![w] = {}]
  /\ taken' = [taken EXCEPT ![w] = None]
  /\ snapshot' = [snapshot EXCEPT ![w] = 0]
  /\ UNCHANGED <<providerVars, eventVars, call, rowVars>>
-----------------------------------------------------------------------------
(***************************************************************************)
(* changeSubscription, and the operator's reconciliation.                  *)
(***************************************************************************)
CallChanges ==
  /\ LocalCalls /\ call = None /\ stored # 0
  /\ \E entitled \in Entitled, time \in NextTimes :
       Change("subscription", changes[stored].of, entitled, time)
  /\ call' = Len(changes')
  /\ UNCHANGED <<eventVars, workerVars, rowVars>>

CallRetrieves ==
  /\ LocalCalls /\ call = None
  /\ \E s \in Subscriptions : latest[s] # 0 /\ call' = latest[s]
  /\ UNCHANGED <<providerVars, eventVars, workerVars, rowVars>>

CallWrites ==
  /\ call # None
  /\ Reconciles(call, Clock + 1)
  /\ call' = None
  /\ UNCHANGED <<providerVars, eventVars, workerVars, invoice>>
-----------------------------------------------------------------------------
Process(w) == Ignore(w) \/ PassOver(w) \/ Retrieve(w) \/ Reconcile(w)
              \/ PersistInvoice(w) \/ Finish(w)
WorkerStep(w) == Select(w) \/ Claim(w) \/ Process(w) \/ Fail(w)
EventStep(e) == Receive(e) \/ BackoffElapses(e)
CallStep == CallChanges \/ CallRetrieves \/ CallWrites

Next ==
  \/ ProviderChanges \/ CallStep
  \/ \E e \in Events : EventStep(e)
  \/ \E w \in Workers : WorkerStep(w) \/ Crash(w)

Spec == Init /\ [][Next]_vars

\* The provider delivers its events in the end, time passes, and the workers
\* loop.  A call to the provider may fail every time; a worker does not die
\* each time before it takes an event.
Fairness ==
  /\ \A e \in Events : WF_vars(Receive(e)) /\ WF_vars(BackoffElapses(e))
  /\ \A w \in Workers : WF_vars(WorkerStep(w)) /\ SF_vars(Claim(w))
  /\ WF_vars(CallWrites)

FairSpec == Spec /\ Fairness
-----------------------------------------------------------------------------
\* An event is in the hands of one worker at most, and a worker's event is
\* marked so that no other one takes it.
OneWorkerPerEvent ==
  \A w \in Workers :
    taken[w] # None => /\ event[taken[w]] = "PROCESSING"
                       /\ \A v \in Workers : taken[v] = taken[w] => v = w

\* An event and its job end together; a dead letter has used up its attempts,
\* and an event that waits for a retry has some left; two workers never have
\* the same event.
EventsAndJobsAgree ==
  /\ OneWorkerPerEvent
  /\ \A e \in Events :
       /\ event[e] \in {"PROCESSED", "IGNORED"} <=> job[e] = "SUCCEEDED"
       /\ event[e] = "DEAD_LETTER" <=> job[e] = "DEAD_LETTER"
       /\ event[e] = "DEAD_LETTER" => attempts[e] = MaxAttempts
       /\ event[e] = "FAILED" => attempts[e] < MaxAttempts
       /\ e \in waiting => event[e] # "none"

SameTime(d, e) == changes[d].time = changes[e].time

\* A processed event that names a subscription is reflected: the subscription
\* row is not older than it, in whatever order the events came and were
\* processed, unless the row is a request's (whose times are odd), or another
\* subscription's, or that of another event of the same second: each of these
\* may hide a change.
ProcessedEventsAreReflected ==
  \A e \in Events : event[e] = "PROCESSED" /\ changes[e].of # None =>
    /\ stored # 0
    /\ \/ stored >= changes[e].version
       \/ storedAt % 2 = 1
       \/ changes[stored].of # changes[e].of
       \/ \E d \in 1 .. Len(changes) :
            d # e /\ SameTime(d, e) /\ changes[d].time = storedAt

\* Every event that has a job ends, also when the provider never answers,
\* unless its worker died.
Abandoned(e) == event[e] = "PROCESSING" /\ \A w \in Workers : taken[w] # e

EventsEnd ==
  \A e \in Events : job[e] = "QUEUED" ~> event[e] \in Final \/ Abandoned(e)

AllProcessed ==
  /\ call = None
  /\ \A e \in 1 .. Len(changes) : event[e] = "PROCESSED"

\* "Duplicate and out-of-order events are safe": when every event has been
\* processed, the row is the provider's.
SubscriptionConverges ==
  AllProcessed => \E s \in Subscriptions : stored = latest[s]

\* The same of the invoices: their rows show the last state of each.
InvoiceConverges ==
  AllProcessed => \A e \in 1 .. Len(changes) :
    changes[e].kind = "invoice" => invoice[changes[e].of] >= e

\* "Provider truth activates entitlements": who pays for a subscription has
\* its plan when every event has been processed.
PaidPlanIsActive ==
  AllProcessed /\ (\E s \in Subscriptions :
                     latest[s] # 0 /\ changes[latest[s]].entitled)
    => changes[stored].entitled

\* "... queues a durable job": it is done in the end, whatever happens to the
\* worker that took it.
JobsAreDurable == \A e \in Events : job[e] = "QUEUED" ~> event[e] \in Final
=============================================================================
