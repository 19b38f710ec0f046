# A TLA+ model of RepoArena

RepoArena benchmarks coding agents: a command line tool runs tasks in isolated
workspaces, and a cloud service stores runs, hands their jobs to runners,
schedules runs, provisions hosted machines, sells subscriptions and listens to
GitHub. This directory models the parts of it that are hard to test, because
several processes, crashes or late messages take part. It is written from the
source (paths below are relative to `packages/` unless they say otherwise).

## 1. The system

| Component | State it keeps | Operations | What is hard | What makes it correct | Here |
| --- | --- | --- | --- | --- | --- |
| Job queue (`cloud-core`) | `benchmark_runs`, `jobs`, `job_credentials`, `runners`, `idempotency_keys` | createRun, claimJob, extendLease, submitResult, failJob, revokeRunner, cancelRun, listRuns, the Action's submitResult | claims race with everything; leases expire under slow runners; orders and results are repeated | run and job agree, a finished run is final, one owner per lease, one run per key, bounded failures, every job settles | `JobQueue` implements `RunContract`; `Submission`, `RunPages` |
| Scheduler (`cloud-core`, `cloud-worker`) | `schedules`, `schedule_occurrences` | createSchedule, setSchedule, deleteSchedule, schedulerTick | concurrent schedulers, rolled back ticks, outages | one run per occurrence, none lost, none early | `Scheduler` |
| Hosted compute (`hosted-compute`, `cloud-api`) | `hosted_execution_leases`, hosted runners, `hosted_compute_usage`, the provider's machines | preflight, request, provisionNext, runnerHeartbeat, runnerClaimed, cancel, complete, reconcile, finalizeUsage | asynchronous calls that write a row by id after awaiting the provider; crashes in between; prices found before they are reserved | machines of closed leases stop, leases move on, outcomes are final and metered truthfully, budgets hold | `HostedCompute`, `Submission` |
| Phase coordinator (`runner-core`) | two counters, two queues of waiters | enterAgent, enterPrivate, the releases | waking the right waiters; a release that is skipped | agents never run beside private material, no waiter is forgotten | `PhaseCoordinator` |
| Benchmark engine (`benchmark-engine`, `run-store`) | the run file; cursor, attempts, promise chain | runBenchmark, runIsolatedAttempt, writeRunAtomic, inspectRunRecovery | retries, abort, failing writes, crash | no attempt lost or run twice; the file never claims too much | `BenchmarkRun` |
| Billing (`billing`, `billing-stripe`) | `billing_webhook_events`, `billing_subscriptions`, `billing_invoices`, `billing_customers`, `billing_checkout_operations` | ingest, processEvent, reconcileSubscription, changeSubscription, checkout, portal | events come twice and out of order, snapshots age, workers die; checkouts overlap and lose answers | the row reflects every processed event; events end; one customer, one session per key | `Billing`, `Checkout` |
| GitHub integration (`github-integration`, `github-provider`) | `github_installations`, `repositories`, `github_webhook_deliveries`, `github_check_runs`, `github_managed_comments`, a token cache | linkInstallation, ingest, processDelivery, syncInstallation, handleTrigger, markRunStarted, publishRun, the OIDC exchange | as billing, and external effects before the row is written; installations change while they are synchronized; tokens are revoked | deliveries end with their jobs, a processed push has its run and its check, a removed installation has no active repository, no needless comment or token | `GitHubDelivery`, `GitHubChecks`, `GitHubTokens`, `SignIn` |
| Identity and entitlements (`cloud-core`, `cloud-api`) | `organizations`, `memberships`, `api_keys`, `sessions`, rate limits, OAuth states in memory | createOrganization, setPlan, setMembership, runners and keys, login, callback, logout | what is checked is read before it is used, in other statements; callbacks are repeated | an organization keeps an owner and its limits, as far as the code does; states are used once | `Organization`, `SignIn` |
| Catalogue and reports (`cloud-core`) | `repositories`, `tasks`, `task_versions`, `benchmarks`, report tables | createRepository, createTaskVersion, createBenchmark, saveReadiness, saveOptimization, listings | versions of a task made at once; identifiers of other organizations | versions are numbered as they are committed; organizations stay apart | `Catalogue` |
| Publishing (`public-publishing`) | `public_run_publications`, public ids | publish, unpublish, getPublic, latestRepository, leaderboard | publications overlap; a page reads twice | the ids that were answered serve for ever | `Publishing` |
| Local reports (`local-product`, `cli`, `readiness`) | files under `.repoarena/state` | the doctor command, the routes for readiness and optimizations | several processes write and list one directory | a history shows what was answered | `LocalReports` |
| Optimizer (`optimizer`) | trials, cache, what is spent | optimize | budgets, abort, failing trials | what is recommended is the best of what was tried | `Optimizer` |
| Artifacts (`object-storage`, `artifacts`) | objects, grants, rows | grant, upload, verify | upload against expiry | content addressed | no |
| Evaluator, statistics, integrity, task analysis | none | pure functions | boundaries | | no |
| CLI, local product, cloud product, reporter, sandboxes, adapters, git, redaction, config | files and processes | commands and pages | outside a model's reach | | no |

How they interact: the API (`cloud-api`) authenticates a request and calls a
service; services share one PostgreSQL database and meet in its rows. The
scheduler and the GitHub integration create runs, hosted compute pins jobs to
runners it provisions, runners claim jobs over the API, and the API tells hosted
compute about claims and results *after* the queue's transaction has committed.
An order of a hosted run is three transactions of two services, called one after
the other by the API. The engine runs inside the runner or the command line tool;
its attempts share one phase coordinator per process.

## 2. The modules

| Module | Models | Correspondence |
| --- | --- | --- |
| `RunContract` | what the queue promises of a run: absent, waiting, assigned, parked, delivered, cancelled | the abstract specification; it has no counterpart in the code |
| `JobQueue` | the job queue | one action per transaction; a claim is two, as claimJob reads the runner without a lock |
| `Scheduler` | schedules and ticks | one action per request statement; a tick is the locking SELECT and the commit, or the rollback |
| `HostedCompute` | hosted leases | each service call is a small process with a position and what it has read; one action per statement or provider call |
| `PhaseCoordinator` | `LocalAttemptPhaseCoordinator` | one action per method; `Drain` is called from the releases, as in the code; `Keep` is an attempt whose release is skipped |
| `BenchmarkRun` | `runBenchmark`, its workers and the promise chain of writes | one action per stretch of code between two awaits; instantiates `PhaseCoordinator` with its workers, and adds the private workspaces on disk (`assets`) |
| `Billing` | webhook events, workers, reconciliation | one action per statement, transaction or provider call |
| `GitHubDelivery` | the deliveries of one installation with one repository, from GitHub to the run and the check | one action per transaction or call of GitHub; what a worker has read is kept in its variables |
| `Organization` | members, keys, runners and the plan of one organization, with the runners that hosted compute inserts and revokes | one action per statement; the locking SELECT of setMembership is two, as it sees the rows of its beginning and returns their latest versions |
| `Checkout` | `BillingService.checkout` and the provider behind it | one action per statement or provider call, whose answer may be lost |
| `SignIn` | OAuth sign-in and the OIDC exchange | one action per stretch between two awaits; the states in the memory of the process are lost by a restart |
| `Submission` | an order of a run, from the route to the reserved lease, and what becomes of the lease as far as the queue, the capacity and the budget count it | one action per transaction; the calls that move a lease step by step, and the pinning of its job, are in `HostedCompute` |
| `Catalogue` | repositories, task versions, benchmarks, reports | createTaskVersion statement by statement with the row lock its upsert takes; the rest one action each |
| `Publishing` | publications of one repository | publish is its locking SELECT and its commit; the repository's page is two reads |
| `GitHubChecks` | markRunStarted and publishRun for one run | one action per statement or call of GitHub |
| `GitHubTokens` | `GitHubProvider.request` and the token it shares | one action per stretch between two awaits; GitHub issues and revokes |
| `RunPages` | listRuns with its cursor | one action per page |
| `Optimizer` | `optimize` | the loop as it awaits an executor; the result as operators on the trials |
| `LocalReports` | report files | one action per rename or read of a file |
| `Services` | instances of `Submission`, `Catalogue`, `RunPages`, `Publishing`, `GitHubChecks`, `GitHubTokens`, `Optimizer` and `LocalReports` with variables and constants of their own | no state or action of its own |
| `JobQueueProofs`, `PhaseCoordinatorProofs`, `SchedulerProofs`, `BillingProofs`, `GitHubDeliveryProofs`, `BenchmarkRunProofs`, `HostedComputeProofs` | theorems about the module in their name | |
| `ServiceProofs` | theorems about `Organization`, `Checkout` and `SignIn`, as `MCAccount` instantiates them, and about the modules of `Services` | |
| `MC...` | values for the constants, and symmetry | `MCAccount` and `MCServices` hold several modules that share no state: see below |

Conventions. Names are the source's where TLA+ allows it. A definition called
`X_Something` next to `X` is a slip: what the code of `X` would be with a
plausible mistake. Slips are never part of a specification; each property has
one that violates it, so that the property is known to be able to fail.
Variables marked *auxiliary* record history for a property and influence
nothing. Transactions run at READ COMMITTED; the row locks they take are what
makes them single steps, and where a statement reads without a lock the
transaction is split. Clocks are abstract: an expiry is the outcome of the
comparison with the clock, except in `Scheduler` and `Billing`, which are about
times, and in `RunPages`, `SignIn` and `Publishing`, which compare times too.
Limits per batch (100 schedules, 25 events) are not reached, except in
`GitHubBlocked`. A batch of events or deliveries that a worker has selected is the
set of their positions; it takes the least one that is left, as rows are selected
in the order in which they came.

`MCAccount` and `MCServices` hold several modules that share no variable. Their
product would multiply what is independent, so a variable (`part` and `service`)
names the module a behaviour belongs to and the others keep their initial state. The
properties are those of the modules, under the same names. As no behaviour has
values of two of them, one permutation of the symmetry may exchange values of
several modules at once (`SwapsOf`). In `MCAccount` the requests of a behaviour are
about members or about runners: no number of the one depends on the other's. In
`MCServices`, in a behaviour of the orders, keys expire or months pass, not both.

## 3. What is checked

The runs use the specification without fairness for safety alone and the fair
one wherever a liveness property is among the properties. Deadlock is not
checked where a system really stops: a queue whose bounded number of runs is
finished, a coordinator whose private phase is kept for ever, an engine that has
returned or waits for such a phase, a scheduler at the end of its time, billing or the GitHub integration with all events processed.

| Configuration | Instance | Shows |
| --- | --- | --- |
| `JobQueue` | 2 runs, 2 runners, 2 keys, 2 results, 2 attempts | the inductive invariant (types, agreement of runs, jobs and leases, replays, failure budget, one run per key); refinement of `RunContract` |
| `JobQueueLive` | 2 runs, 1 runner | every job settles |
| `PhaseCoordinator` | 6 attempts, for ever | mutual exclusion; whoever waits enters in the end, or a phase is kept |
| `BenchmarkRun` | 2 workers, 3 attempts, 1 provider retry, abort, crash | accounting, durability and truth of the run file; no agent works while private material is on disk; runs and workers end, or a phase is kept |
| `HostedCompute` | 1 hosted job, 1 self-hosted runner, 4 open calls, crash | agreement and truthful metering, one provisioning, pinning |
| `HostedComputeRecover` | 1 job, 1 open call, crash | the reconciler stops machines and moves leases on |
| `Scheduler` | 2 schedules of intervals 1 and 2, 2 processes, 3 times | one run per occurrence, none lost; due schedules fire as long as none was moved back onto an occurrence (section 4) |
| `Billing` | 2 changes of all kinds but a checkout, 2 workers, 2 attempts, crash, requests that write the row as well | events and jobs agree; processed events are reflected; events end unless their worker died |
| `GitHubDelivery` | a new installation and one more change of any kind, 2 workers, 2 attempts, crash | deliveries and jobs agree; pushes have runs and recorded checks; a removal archives; deliveries end unless their worker died |
| `Account` | 3 users, 2 requests, a plan of one member and no runner and one of two and one, one hosted runner at a time; 3 checkouts with 2 keys and 2 prices, a day that passes; 2 states, 2 callbacks, 1 assertion exchanged twice, 2 refs | an organization loses its last owner in one way only, and its limits are exceeded by what stale checks can let through and no more; one customer and one session per key; states and assertions are used once |
| `Services` | 2 orders with 2 keys and 2 bodies, prices 1 and 2, a budget of 3, a queue of 1, room for 1 machine, 2 months; 2 writers of task versions in 2 organizations; 3 requests about 2 runs to publish; 2 publishers and a starter of a check; 3 callers with a token; 4 candidates; a walk over 4 runs; 2 writers and a reader of reports | one run per key; leases that wait for their first machine keep to the queue's cap, and a month's cost to its budget and what was overrun; versions in order, organizations apart; published ids serve; comments and tokens; the optimizer's recommendation; pages; histories |
| `SchedulerPoisoned` | 2 schedules, 1 process | see section 4: the code does not do what it means to |

The properties of a component are few and large on purpose: `QueueInv`,
`OutcomesAgree`, `EventsAndJobsAgree`, `AnswersServe`, `CheckoutsAgree` and
`CatalogueAgrees` are conjunctions whose parts have names of their own. Type
invariants are not listed separately in the runs: they are proved (section 5), for the
modules of `ServiceProofs` as the types that its invariants begin with.

Larger instances, which are not among the configurations because they take longer
than a few minutes or show nothing new, and pass: `BenchmarkRun` with three workers
and without liveness; `Billing` with checkouts, which
take a part of the way of an invoice; `Billing` with one worker and three changes of a subscription and its
invoices and without liveness; `GitHubDelivery` with three changes and without
liveness (10.8 million states); `HostedCompute` without a crash, where every
lease that ends is metered (`EndedLeasesAreMetered`); `Services` with three publishers
of a check, six ids and three task versions.

### Why the bounds are enough

The races in this code are between two or three parties about one row: two
claimants and a canceller, two ticks and a request, two workers and the
provider, a call with a stale row and the call that makes it stale. Two runs are
needed for the order of the queue and for keys; a third would only repeat
either. Two attempts distinguish the first failure from the last. Six attempts
in the coordinator allow two agents inside, two private and two agent waiters.
Three attempts for two workers let a write overtake an attempt while another
one ends and a position is still free, and the retry limit of one has both of
its sides. The times 0 to 2 with intervals 1 and 2 contain an outage over
several occurrences of one cadence and over one of the other.
Two provider changes are the smallest number with an event that is late and a
snapshot that is younger than it. In
`GitHubDelivery` the first synchronization is under way while the second change
is delivered and processed, which is the smallest number of deliveries that
overlap.

In `Account` two requests are what a check and its consequence need to be
overtaken, and the excess is bounded by their number; the plan with room for one
member and the plan with room for two are apart by as much as the excess, so that a
stale plan and a stale count can be told from each other; one hosted runner is enough
to take the last place. Three checkouts let one find the customer the second has made
while the third repeats either, and one day is what makes the provider forget. In
`Services` the budget has room for one lease
of each price and not for two of the greater one, a lease may use twice what it
reserved, the second month begins with it, and of two leases one can fail to get its
machine while the other is admitted. Two versions fit into the catalogue, of one task or of
two organizations' tasks; a page of one
comment hides the second; three callers are one that asks, one that waits and one
that comes later; a walk with pages of one run passes a millisecond of two
microseconds that holds the ends of two pages; of four candidates three may be
tried, so that the budget ends the loop and the baseline comes from anywhere.

Versions of the most important invariants that do not depend on these numbers are
proved (section 5).

### Fairness

* `JobQueue`: an active runner keeps polling (`cloud-worker`'s loop), leases and
  backoffs elapse with the clock, and a runner that polls without end reports
  before its lease ends at some time: claims need strong fairness as a claim may
  be rolled back. Runners may die and be revoked; only that one of them stays
  active is assumed.
* `PhaseCoordinator`: whoever is inside leaves or keeps its phase. Agents and checks
  have timeouts and the releases are in `finally` blocks, but that of a private phase
  comes after the removal of the private workspace (`runner-core/src/index.ts:601-605`),
  and when the removal fails the release is never called. Fairness is therefore of
  `ReleasePrivate \/ Keep`, and the liveness properties excuse who waits for a kept
  phase. `BenchmarkRun`: code that runs when its promise is settled runs; nothing is
  assumed of outcomes.
* `HostedCompute`: open calls go on unless the process dies; reconciliation is
  performed again and again (the operator's schedule), not every pass fails
  (strong fairness), and a lease that stays in one state becomes too old.
* `Scheduler`: ticks are repeated; they need strong fairness as a tick may be
  rolled back and a row locked.
* `Billing`: the provider delivers an event in the end, workers loop. A worker's
  step is fair as a whole, so the provider may fail each time it is asked. An
  event that stays in reach of a worker is taken by it in the end.
* `Account`, `Services`: none. Requests are made by whoever likes, once, and may be
  abandoned at any point; nothing in these parts is repeated by the code until it
  succeeds, so nothing is bound to happen.
* `GitHubDelivery`: the same as `Billing`, and a worker that reads its batch again and again
  gets past its first entries: it does not die each time before it takes a
  delivery, or before it goes on to the next one. Without that an abandoned
  delivery at the head of every batch excuses everything.

## 4. Where the documents and the code disagree

Each row names a property that states what a document, a comment or a test says;
TLC finds a behaviour of the model that violates it. `SchedulerPoisoned` is among
the regular runs. A row that names a configuration is run by hand with it
(`tlc -config HostedOrphan.cfg MCHostedCompute`); for the others the property
takes the place of those of the configuration that is named, with the constants
that are given.

| Property | Instance | What is said | What happens |
| --- | --- | --- | --- |
| `DuplicatesDoNoHarm` | `SchedulerPoisoned` | the catch block of schedulerTick passes over a duplicate | the aborted transaction fails at the next statement, and so does every later tick, for all organizations |
| `ScheduleLimit` | `Scheduler` with 1 process, `MaxSchedules = 1`, `MaxTime = 1` | `docs/cloud-core.md:31`: entitlements on every access | two requests count before either inserts |
| `SchedulesCanBeRemoved` | `SchedulerRemoval` | a test "updates and removes schedules" | a foreign key keeps a schedule that has fired |
| `LimitsHold` | `Account` | `docs/cloud-core.md:31` | the limits are those of a plan that was read before, compared with rows that were counted before; members and runners of a better plan stay; and provisionNext inserts the runners of hosted compute without a look at the limit (`hosted-compute/src/index.ts:650`) |
| `OwnerRemains` | `Account` | `cloud-core/src/index.ts:452`: "Organization must retain an active owner." | a request about a user whose row is inserted after its locking SELECT began does not see it and updates it all the same; by then it may be the only owner's |
| `CancellationRevokesRunner` | `HostedCancel` | `docs/hosted-runners.md:14`: cancellation revokes the runner | cancel has read the row before provisionNext wrote the runner into it |
| `LossRevokesRunner` | `HostedCancel` | `docs/hosted-runners.md:14`: loss revokes the runner | reconcile fails the lease of a missing machine and leaves its runner active |
| `OrphansAreReclaimed` | `HostedOrphan` | `docs/hosted-runners.md:41`: stale leases are reconciled | ORPHANED leases are in neither of reconcile's loops |
| `ExactJob` | `HostedCompute` with `TwoJobs`, `SecondJob` hosted, 1 open call | `docs/hosted-runners.md:13`: the runner claims the exact job | claimJob gives it any job without requirements |
| `CapacityBoundsMachines` | `HostedCompute` with `TwoJobs` hosted, no other runner, `MaxActive = 1`, `MaxQueued = 2`, 1 open call, no crash | `docs/hosted-runners.md:9`: capacity is reserved | leases that ended no longer count, their machines still run |
| `LostJobRecovers` | `HostedLostJob` | `docs/cloud-core.md:44`: jobs recover | a job pinned to a lease that failed waits for ever |
| `JobsAreDurable` | `BillingCrash` | `docs/billing.md:15`: a durable job | nothing leaves PROCESSING when its worker died |
| `SubscriptionConverges` | `Billing` with subscriptions only, `Entitled = {TRUE}`, 1 attempt, `SameSecond = TRUE` | `docs/billing.md:36`: out-of-order events are safe | equal seconds let the older snapshot win |
| `InvoiceConverges` | `BillingInvoice` | the same | invoices are written in the order of processing |
| `PaidPlanIsActive` | `Billing` with subscriptions `{s, t}`, 1 worker, 1 attempt, 3 changes | `docs/billing.md:9`: ACTIVE retains the paid plan | one row per organization: the last event of any subscription wins |
| `OneCheckPerDelivery` | `GitHubDelivery` with 1 worker, pushes only, 2 events, `BatchLimit = 2`, no crash | `docs/github-integration.md:35`: duplicate processing cannot create another check | the check of an attempt whose answer was lost stays at GitHub, and the retry makes another |
| `SuspensionStopsRuns` | `GitHubSuspension` | `docs/github-integration.md:19`: suspension prevents new operations | handleTrigger looks at the repository only, which a suspension leaves active |
| `RemovalIsFinal` | `GitHubDelivery` with removals only, 2 events | the same of uninstalling | a synchronization that read the installation before writes ACTIVE after it; so does a late unsuspension |
| `NobodyBlocksTheQueue` | `GitHubBlocked` | `docs/github-integration.md:25`: durable retry | deliveries of dead workers keep their place at the head of the queue; a full batch of them hides all others |
| `ChecksMoveForward` | `Services` | `docs/github-integration.md:44`: checks go from in_progress to completed | markRunStarted has read a queued check that publishRun completes before its request; GitHub's check is set back |
| `OneMarkedComment` | `Services` | `docs/github-integration.md:45`: one marked comment | two calls list before either makes one, or the marked one is beyond the page that is listed |
| `EveryRunIsShown` | `Services` | a cursor goes on after the last run that was shown | the cursor is cut to milliseconds; runs of the same millisecond, as those of one scheduler tick, are skipped |
| `RankIsTheRuns` | `Services` | `docs/cloud-product.md:40`: mixed task sets are marked incomparable | what is mixed is what the page's limit lets in, so a run is ranked on a short page and not on a long one |
| `LatestIsNewest` | `Services` | `readiness/latest.json` | the older of two assessments is written last |
| `QueueIsCapped` | `Services` | `docs/hosted-runners.md:28-29`: a request is subject to queued-job caps | request keeps to the cap, but a provisioning that may be retried puts its lease back to REQUESTED (`hosted-compute/src/index.ts:671`) when another one has taken its place in the queue |

What else was met while modelling, and no property states:

* The removal of a private workspace that fails (`runner-core/src/index.ts:603`) keeps
  the private phase. The coordinator is one per process
  (`benchmark-engine/src/index.ts:95`), so every other attempt of this run and of later
  ones waits for ever. No agent ever runs beside what was left on disk: what the code
  gives up is progress, not the exclusion that
  `docs/development/execution-engine-closeout.md:11` lists as verified.
* A billing event that names no subscription is PROCESSED, and nothing is retrieved or
  reconciled for it (`billing/src/index.ts:306`).
* A repeated checkout is answered by its key alone; a different plan or interval
  under the same key is not noticed once the key is recorded.
* A key of an order does not stand for its hosted options. A replay may ask for
  compute for a job that a runner has already claimed. If the request for compute
  is refused after createRun, the run stays queued and unpinned, and any runner
  executes it. After 24 hours a key is refused for ever.
* A lease may cost more than was reserved (`BudgetHolds` says by how much), while
  `docs/hosted-runners.md:28` speaks of a hard compute budget.
* createBenchmark leaves out versions that are missing or of another organization
  without a word, and takes versions of another repository.
* A task whose content returns to an earlier one cannot get a version: content is
  unique among the versions of a task.
* What a failed optimizer trial has used is not charged to the budget. A grid is
  never empty, so NO_VALID_CANDIDATES is never the status.
* The API wants readiness and optimization reports with UUIDs; the engines make ids
  of 24 hexadecimal digits (`readiness/src/index.ts:453`), so what they make is not
  accepted as it is.
* A request that was given a revoked token by another's answer, and is refused
  again, fails with an authorization error although a new token would do.
* Public pages may be served from caches for minutes after a publication was
  withdrawn, which `docs/cloud-product.md` calls immediate; a copy that was public
  stays eligible when its repository becomes private.

## 5. What is proved

Every safety property of the runs is a theorem: what a run checks on an instance
holds for all values of the constants that satisfy the ASSUME of the module, or the
assumption that the theorem names. The assumptions ask for no more than the code
grants: finite sets of attempts, users and requests, positive intervals and attempt
limits, at least one worker (`benchmark-engine/src/index.ts:102`), pages of 1 to 200
rows, and a NULL that is no member of the other sets. The bounds of
counters (`MaxTime`, `MaxChanges`) are any numbers.

A property is seldom inductive as it stands. Each proof names the strengthening it
needs, one lemma per action shows that it is kept, and the property follows from it.

`JobQueueProofs`. `QueueInv` is inductive. It joins the type invariant with seven
invariants that need each other: run and job agree only because a lease names
the run's runner, and because the row a claim has locked stays claimable until
it commits; the failure budget needs the bookkeeping that each accepted failure
was preceded by a counted claim. From it follow `TypeCorrect`,
`RunsAndJobsAgree`, `LeasesNameTheRunner`, `FailuresAreBounded`, the action
property `FinishedRunsStayFinished`, and the refinement
`QueueImplementsContract`: each action maps to a step of `RunContract` or to a
stutter under `runStatus` and `runWorker`.

`PhaseCoordinatorProofs`. `PhaseInv` says that the counters count who is inside,
that the queues hold exactly the waiters, once each, and that somebody waits only
while somebody is inside. Mutual exclusion alone is not inductive: a drain
admits by the counters. The drain is covered by one lemma per outcome.

`SchedulerProofs`. `SchedulerInv` adds to the properties that a row still to be
inserted does not exist; this separates insertions from locked rows. Relative to
it `CadenceInv` is inductive: `next_run_at` is a whole number of intervals after
the time last set, so each commit passes over one time of the cadence, the one
whose occurrence it inserts. Whether the clock stops at `MaxTime` plays no part.

`TypeCorrect`, `SchedulerTypes`, `FailuresAreBounded` and `AgentsYieldToPrivate` are
proved and are no separate properties of the runs: the first three are parts of
`QueueInv` and `SchedulerInv`, the last one follows from `PhaseInv`.

`BillingProofs`. `EventsInv` ties an event, its job and the worker that has it to
the worker's position, which gives `EventsAndJobsAgree`. For
`ProcessedEventsAreReflected`, which is about the events that name a subscription, it is
joined by `RowInv`: the provider's changes and their
snapshots grow with time (`ChangesInOrder`), a snapshot that a worker has fetched
contains its event (`ReadsAreRecent`), a row that has an event's time has a snapshot that
contains such an event (`RowHasASource`), and the row is not older than any event that
has been reconciled (`ReconciledIsCovered`). The row's guard compares times only, so it
is `RowHasASource` that relates them to snapshots.

`GitHubDeliveryProofs`. `DeliveryInv` does the same for deliveries, and gives
`DeliveriesAndJobsAgree`. `PushInv` says what a push already has at each position of
its worker: the run from its creation on, the check before it is recorded. Neither a
retry nor a crash loses either, so a processed push has both (`PushesHaveChecks`).
`RemovalArchives` is inductive relative to them.

`BenchmarkRunProofs`. `RunInv` is the accounting of positions: which worker has which
attempt, that the writes of the promise chain are in order, and where the main
function is while workers run; `JobsAreAccounted` is part of it. `FileInv` compares
the file, and every snapshot still waiting to be written, with the attempts: a
snapshot only adds to the one before it, so a late write takes nothing back. It
gives `AttemptIsDurable` and `StatusTellsTheTruth`. For `HiddenAssetsStayHidden`
(theorem `AgentsOfARunNeverSeeHiddenAssets`) two things come together: workers call the
coordinator as `PhaseCoordinator` allows (`RunsUseTheCoordinator`, a lemma), so its
mutual exclusion, which counts kept phases, carries over; and whoever has private
material on disk is in a private phase or has kept it.

`HostedComputeProofs`. The invariant is one per lease, as a call has one lease only:
how run, job and bill may combine, given which calls are still to meter the lease
(`OutcomeHolds`), what a call that has read the row may still rely on (`RowHolds`), and
whom a pinned job belongs to (`PinHolds`). `RowHolds` is why one call provisions a
lease, and why a stale row does no harm to these properties: the runner it lacks has
been inserted by then, and stays.

`ServiceProofs`. What is read before it is used is the difficulty of all of these, so
each invariant says what a request in the middle knows:

* `Organization`: `OwnersAreLostUnseen` needs to know which rows the locking SELECT of
  a request has seen (`SeenRowsStay`). `ExcessInv` says for every number that no plan's
  limit has exceeded: a request that has counted rows lacks no more of today's members
  than there are requests beside those that counted before it, or there is room for all
  of them. Of the runners it counts those that are registered; hosted ones, which are
  inserted unchecked, only make a count greater. This is proved for all such numbers at once, as a plan may change later.
* `Checkout`: `RequestHolds` and `CustomerHolds` relate what a request has read to the
  customer that was recorded and to what the provider still remembers of a key.
* `SignIn`: an admitted callback has taken its state out of memory, and is the only one
  that has (`CallbacksHold`); a credential was admitted by the trust of its time, and its
  assertion is remembered (`CredentialsHold`).
* `GitHubTokens`: one caller asks while the others wait for it (`OneAsks`), and to one that
  began after the last revocation no token is given that GitHub refuses twice
  (`SureHolds`).
* `Submission`: for `OneOrderPerKey`, recorded keys have their jobs, and `CallHolds` says
  what an order knows at each position. `BudgetInv` splits what a lease adds to a month
  into the part up to its price and what overruns it. The former was admitted within
  the budget under the policy's lock and only shrinks, also when a lease waits again for
  a machine; `TotalAdds` and `TotalGrows`
  carry this to the sums.
* `GitHubChecks`: a publisher that has listed the comments and found none has seen no
  marked one within its page (`ListedHolds`).
* `LocalReports`: what a reader has to show it has read or is still to read
  (`ReaderHolds`), and what is to become the latest report has a file (`ScannerHolds`).
* `Publishing`: of two visits between the locking SELECT and the commit each has a run
  and an id of its own (`Apart`), so an id that was answered is the one that is kept.
* `RunPages`: a run that was there at the beginning has been shown, is still to come after
  the cursor, or is of the millisecond that some page ended in (`WalkHolds`).
* `Catalogue`: the number of a version is how many of its task are committed by then, as
  one writer at a time has the lock of the task's row (`NumbersHold`); and whatever
  refers to a row is of its organization (`OwnersHold`).
* `Optimizer`: no candidate is tried twice, so that the ranking is a total order with a
  first element (`BestExists`); what dominated it would be ranked before it
  (`BestStands`). `WithinBudget` remembers that the budget was not reached when the last
  paid trial began.

The provers have no induction over data, as the library's induction theorems take an
operator. Where an argument is inductive all the same (sums of leases, a first
element of a finite ranking, the least row of a page), the set of positions at which it
fails is shown to have no least element, with `WFMin` of the library. Sums are
recursive functions for that reason.

Only model-checked: liveness and everything under fairness, which is out of the
prover's reach, namely that jobs settle, waiters enter, runs, events and deliveries
end, due schedules fire and the reconciler moves leases on; and the runs of section 4,
which are violations.

## 6. What is not modelled, and the plan

Left out for good: parsing, pages, formatting, redaction, subprocesses, the file
system below one atomic rename, floating-point statistics, cryptography. `JobQueue`,
`Scheduler`, `HostedCompute` and `Billing` assume an authenticated and authorized
caller; who that is, is in `Organization` and `SignIn`.

Artifacts (`object-storage`, `artifacts`) have no caller in the repository but their
tests: nothing allocates, finalizes or stores one. createActionRun, priorities of
jobs, setTriggerPolicy, the settings of hosted compute and its second organization,
portal, the expiry of API keys and the states of organizations are not modelled.
Entitlement overrides, which `entitlements` reads and nothing in the repository writes,
are part of what an element of `Plans` stands for.

Next, in this order:

1. `HostedCompute` with two organizations and the heartbeat's capabilities.
2. setTriggerPolicy and createActionRun in `GitHubDelivery`.
