----------------------------- MODULE Submission -----------------------------
(***************************************************************************)
(* The order of a run by one organization, POST .../runs (packages/        *)
(* cloud-api): the hosted options are checked, createRun (packages/        *)
(* cloud-core) makes a run and its job under the caller's idempotency key, *)
(* and for a hosted order the request of HostedComputeService reserves     *)
(* compute for the job.  These are transactions of their own, and between  *)
(* them prices, plans and settings change, other orders are served, leases *)
(* come and go, and the process dies.                                      *)
(*                                                                         *)
(* The key stands for what createRun compares, which are not the hosted    *)
(* options.  The price of an order is the number of the resource class's   *)
(* version; the classes and networks it may choose from are left out.      *)
(* Of a lease, this module keeps whether it waits for a machine, takes a   *)
(* place or is closed, whether the provider is being asked, and its cost;  *)
(* the calls that bring this about step by step are in HostedCompute, and  *)
(* so is the job, which request pins to its lease if it is still queued.   *)
(***************************************************************************)
EXTENDS Integers, FiniteSets, Sequences

CONSTANTS
  Calls,       \* requests; one that is repeated is another request
  RunKeys,     \* values of the Idempotency-Key header
  Bodies,      \* what is ordered, but for the hosted options
  Limits,      \* the client's compute budgets of hosted orders
  MaxVersion,  \* versions of the resource class
  MaxQueued,   \* organization_hosted_policies.max_queued
  MaxActive,   \* organization_hosted_policies.max_concurrency
  Budget,      \* organization_hosted_policies.monthly_budget_micros
  MaxMonths,   \* bound on the months that pass
  Minutes,     \* of use, 1 being as many as are reserved
  None

SubmissionAssumption ==
  /\ {MaxVersion, MaxQueued, MaxActive, Budget, MaxMonths} \subseteq Nat
  /\ Limits \cup Minutes \subseteq Nat
  /\ None \notin Nat \cup [body : Bodies, job : Nat, expired : BOOLEAN]

VARIABLES
  keyRow,    \* idempotency_keys: body, run and whether it has expired, or None
  job,       \* the key of every job; jobs are numbered like their runs
  lease,     \* hosted_execution_leases by job: state, month, price, its cost
             \* (reserved_cost_micros), whether that is still what was
             \* reserved, and whether the provider has been asked
  call,      \* the requests: where they are and what they know
  offered,   \* the last enabled version, if the plan allows it, or None
  month

vars == <<keyRow, job, lease, call, offered, month>>
hosting == <<offered, month>>

Init ==
  /\ keyRow = [k \in RunKeys |-> None]
  /\ job = <<>> /\ lease = <<>>
  /\ call = [c \in Calls |-> [at |-> "idle"]]
  /\ offered = MaxVersion /\ month = 0

\* preflight for a client who pays at most the limit.
Preflight(limit) == offered # None /\ offered <= limit

Reserved == {j \in DOMAIN lease : lease[j].state # "NONE"}
Queued == Cardinality({j \in Reserved : lease[j].state = "REQUESTED"})

\* Those that occupy a place; READY stands for BOOTSTRAPPING to TERMINATING.
Occupied == Cardinality({j \in Reserved : lease[j].state \in {"PROVISIONING", "READY"}})

\* SUM in SQL, of the amounts in the rows.
Total(amounts) ==
  LET upTo[n \in 0 .. Len(amounts)] == IF n = 0 THEN 0 ELSE upTo[n - 1] + amounts[n]
  IN upTo[Len(amounts)]

InMonth(j, m) == lease[j].state # "NONE" /\ lease[j].month = m

\* The sum of reserved_cost_micros of the leases requested in a month.
Spent(m) == Total([j \in DOMAIN lease |-> IF InMonth(j, m) THEN lease[j].cost ELSE 0])
-----------------------------------------------------------------------------
(***************************************************************************)
(* The steps of a request.                                                 *)
(***************************************************************************)
Goes(c, at) == call' = [call EXCEPT ![c].at = at]

\* The request is refused, it fails, or its answer is lost.
Fails(c) == call' = [call EXCEPT ![c] = [at |-> "failed"]]

\* A hosted order, which has a limit, is checked before anything is written,
\* and if it is refused nothing has happened.
Post(c, key, body, limit) ==
  /\ call[c].at = "idle"
  /\ limit # None => Preflight(limit)
  /\ call' = [call EXCEPT ![c] =
       [at |-> "posted", key |-> key, body |-> body, limit |-> limit,
        job |-> 0, price |-> None]]
  /\ UNCHANGED <<keyRow, job, lease>> /\ UNCHANGED hosting

\* createRun is done: an order that is not hosted is answered.
Created(c, j) ==
  call' = [call EXCEPT ![c].job = j,
                       ![c].at = IF @ # "idle" /\ call[c].limit = None
                                 THEN "answered" ELSE "created"]

\* The key is looked up; an expired row is not found.
LookUpKey(c) ==
  /\ call[c].at = "posted"
  /\ LET row == keyRow[call[c].key]
     IN IF row = None \/ row.expired THEN Goes(c, "creating")
        ELSE IF row.body # call[c].body THEN Fails(c)
        ELSE Created(c, row.job)
  /\ UNCHANGED <<keyRow, job, lease>> /\ UNCHANGED hosting

\* A slip: a key that is there already is left as it is.
CreateRun_OnConflict(c) ==
  /\ call[c].at = "creating"
  /\ LET q == call[c]
         j == Len(job) + 1
     IN /\ job' = Append(job, q.key)
        /\ lease' = Append(lease, [state |-> "NONE"])
        /\ keyRow' = IF keyRow[q.key] # None THEN keyRow ELSE [keyRow EXCEPT ![q.key] =
             [body |-> q.body, job |-> j, expired |-> FALSE]]
        /\ Created(c, j)
  /\ UNCHANGED hosting

\* A run, its job and the key's row, which must be the first one: if there is
\* one, of a concurrent request or an expired one, the transaction fails.
CreateRun(c) ==
  /\ call[c].at = "creating"
  /\ LET q == call[c]
         j == Len(job) + 1
     IN IF keyRow[q.key] # None
        THEN Fails(c) /\ UNCHANGED <<keyRow, job, lease>>
        ELSE /\ job' = Append(job, q.key)
             /\ lease' = Append(lease, [state |-> "NONE"])
             /\ keyRow' = [keyRow EXCEPT ![q.key] =
                  [body |-> q.body, job |-> j, expired |-> FALSE]]
             /\ Created(c, j)
  /\ UNCHANGED hosting

\* request checks again, and keeps the price it has found ...
CheckAgain(c) ==
  /\ call[c].at = "created"
  /\ IF Preflight(call[c].limit)
     THEN call' = [call EXCEPT ![c].at = "checked", ![c].price = offered]
     ELSE Fails(c)
  /\ UNCHANGED <<keyRow, job, lease>> /\ UNCHANGED hosting

\* A slip: the budget is compared without the order's own price.
Request_SpentOnly(c) ==
  /\ call[c].at = "checked"
  /\ LET j == call[c].job
         refused == Queued >= MaxQueued \/ Spent(month) > Budget
     IN IF lease[j].state # "NONE" THEN Goes(c, "answered") /\ UNCHANGED lease
        ELSE IF refused THEN Fails(c) /\ UNCHANGED lease
        ELSE /\ lease' = [lease EXCEPT ![j] =
                  [state |-> "REQUESTED", provider |-> "unasked", meter |-> "open",
                   price |-> call[c].price, cost |-> call[c].price, month |-> month]]
             /\ Goes(c, "answered")
  /\ UNCHANGED <<keyRow, job>> /\ UNCHANGED hosting

\* ... at which, under the lock of all capacity, the lease is reserved: the
\* one that the job has is the answer; the queue and the month's budget have
\* room for another one, or it is refused.
Request(c) ==
  /\ call[c].at = "checked"
  /\ LET j == call[c].job
         refused == Queued >= MaxQueued \/ Spent(month) + call[c].price > Budget
     IN IF lease[j].state # "NONE" THEN Goes(c, "answered") /\ UNCHANGED lease
        ELSE IF refused THEN Fails(c) /\ UNCHANGED lease
        ELSE /\ lease' = [lease EXCEPT ![j] =
                  [state |-> "REQUESTED", provider |-> "unasked", meter |-> "open",
                   price |-> call[c].price, cost |-> call[c].price, month |-> month]]
             /\ Goes(c, "answered")
  /\ UNCHANGED <<keyRow, job>> /\ UNCHANGED hosting

\* A statement fails, the answer is lost or the process dies; or request
\* refuses because hosted compute is disabled or suspended by now.
Abandon(c) ==
  /\ call[c].at \notin {"idle", "answered", "failed"}
  /\ Fails(c)
  /\ UNCHANGED <<keyRow, job, lease>> /\ UNCHANGED hosting
-----------------------------------------------------------------------------
(***************************************************************************)
(* What happens around them.                                               *)
(***************************************************************************)
\* Whatever state its row has by then, a lease gets another one.
LeaseBecomes(j, state, provider, meter) ==
  /\ lease' = [lease EXCEPT ![j].state = state, ![j].provider = provider,
                            ![j].meter = meter]
  /\ UNCHANGED <<keyRow, job, call>> /\ UNCHANGED hosting

\* A lease that ends is to be metered, but once.
Due(j) == IF lease[j].meter = "open" THEN "due" ELSE lease[j].meter

\* provisionNext takes a requested lease when there is a place for it ...
Provision(j) ==
  /\ lease[j].state = "REQUESTED" /\ Occupied < MaxActive
  /\ LeaseBecomes(j, "PROVISIONING", "asked", lease[j].meter)

\* ... and writes the provider's answer, though the lease may have been closed
\* meanwhile: a machine, a failure that may be retried, or another one.
ProviderAnswers(j) ==
  /\ j \in Reserved /\ lease[j].provider = "asked"
  /\ \/ LeaseBecomes(j, "READY", "machine", lease[j].meter)
     \/ LeaseBecomes(j, "REQUESTED", "failed", lease[j].meter)
     \/ LeaseBecomes(j, "CLOSED", "failed", Due(j))

\* It is completed, cancelled or given up by reconcile, by a call that may have
\* read it long ago; while its machine is being terminated it takes a place.
Close(j) ==
  /\ j \in Reserved
  /\ \/ LeaseBecomes(j, "READY", lease[j].provider, lease[j].meter)
     \/ LeaseBecomes(j, "CLOSED", lease[j].provider, Due(j))

\* finalizeUsage: the cost that was reserved is replaced by that of the use,
\* which may be more; without a machine no time has passed, or a moment between
\* two looks at the clock.
Meter(j, minutes) ==
  /\ j \in Reserved /\ lease[j].meter = "due"
  /\ lease[j].provider # "machine" => minutes <= 1
  /\ lease' = [lease EXCEPT ![j].meter = "done", ![j].cost = minutes * lease[j].price]
  /\ UNCHANGED <<keyRow, job, call>> /\ UNCHANGED hosting

\* The row stays, and is not found any more.
ExpireKey(k) ==
  /\ keyRow[k] # None /\ ~ keyRow[k].expired
  /\ keyRow' = [keyRow EXCEPT ![k].expired = TRUE]
  /\ UNCHANGED <<job, lease, call>> /\ UNCHANGED hosting

\* Another version of the resource class is the current one, or it is
\* disabled, or the plan changes to one that does not allow it.
Offer(o) ==
  /\ o # offered /\ offered' = o
  /\ UNCHANGED <<keyRow, job, lease, call, month>>

MonthPasses ==
  /\ month < MaxMonths /\ month' = month + 1
  /\ UNCHANGED <<keyRow, job, lease, call, offered>>

Next ==
  \/ MonthPasses
  \/ \E o \in (1 .. MaxVersion) \cup {None} : Offer(o)
  \/ \E k \in RunKeys : ExpireKey(k)
  \/ \E j \in DOMAIN job : \/ Provision(j) \/ ProviderAnswers(j) \/ Close(j)
                         \/ \E n \in Minutes : Meter(j, n)
  \/ \E c \in Calls :
       \/ \E k \in RunKeys, b \in Bodies, l \in Limits \cup {None} : Post(c, k, b, l)
       \/ LookUpKey(c) \/ CreateRun(c) \/ CheckAgain(c) \/ Request(c) \/ Abandon(c)

Spec == Init /\ [][Next]_vars
-----------------------------------------------------------------------------
(***************************************************************************)
(* Properties.                                                             *)
(***************************************************************************)
\* However often an order is repeated, at once or after its key has expired,
\* one run is made of a key; who is answered is answered with that run, for
\* what the run was made of, and a hosted order with the lease of its job.
OneOrderPerKey ==
  /\ \A i, j \in DOMAIN job : job[i] = job[j] => i = j
  /\ \A c \in Calls : call[c].at = "answered" =>
       LET q == call[c] IN
       /\ job[q.job] = q.key /\ keyRow[q.key].body = q.body
       /\ q.limit # None => lease[q.job].state # "NONE"

Overrun(j, m) ==
  IF InMonth(j, m) /\ lease[j].cost > lease[j].price THEN lease[j].cost - lease[j].price ELSE 0

\* Leases that no provider has been asked for.
Unasked == {j \in Reserved : lease[j].state = "REQUESTED" /\ lease[j].provider = "unasked"}

\* Whatever orders are served at once, whatever prices were current when they
\* were checked, and however often machines are asked for in vain: no more
\* leases wait for their first machine than the policy allows, and those of a
\* month cost no more than its budget and what they have overrun their own
\* reservations by.
BudgetHolds ==
  /\ Cardinality(Unasked) <= MaxQueued
  /\ \A m \in 0 .. month :
       Spent(m) <= Budget + Total([j \in DOMAIN lease |-> Overrun(j, m)])

\* The queue of an organization keeps to max_queued.  It does not: a failure
\* that may be retried makes a lease wait beside one that was admitted since.
QueueIsCapped == Queued <= MaxQueued
=============================================================================
