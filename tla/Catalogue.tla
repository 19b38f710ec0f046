----------------------------- MODULE Catalogue ------------------------------
(***************************************************************************)
(* What organizations order runs of (packages/cloud-core): repositories,   *)
(* the versions of their tasks, and benchmarks, which name versions; and   *)
(* the reports on repositories that are uploaded.                          *)
(* Identifiers are global, and a request may name any of them.             *)
(* createTaskVersion is a transaction of several statements, which read    *)
(* what is committed when they run; the others are as good as one step.    *)
(*                                                                         *)
(* Who may call an operation, and whether a repository may be private, is  *)
(* decided by Organization.  Titles, configurations and private payloads   *)
(* are left out.                                                           *)
(***************************************************************************)
EXTENDS Integers, FiniteSets, Sequences

CONSTANTS
  Tenants,       \* organizations
  Repositories, TaskKeys, Contents,
  Reports,       \* ids of reports, which the client chooses
  Writers,       \* requests to make a version of a task
  MaxRows,       \* bound on the versions of all tasks
  MaxBenchmarks, \* bound on the benchmarks
  None

CatalogueAssumption ==
  /\ {MaxRows, MaxBenchmarks} \subseteq Nat
  /\ None \notin Tenants \cup [org : Tenants, state : {"ACTIVE", "ARCHIVED"}]

Tasks == Repositories \X TaskKeys

VARIABLES
  repository, \* repositories: organization and state, or None
  task,       \* tasks: the organization, or None
  version,    \* task_versions: task, version and content, as they committed
  benchmark,  \* benchmarks with their first version and its tasks
  report,     \* readiness_snapshots or optimization_runs, by id, or None
  writer      \* the transactions of createTaskVersion

vars == <<repository, task, version, benchmark, report, writer>>

Init ==
  /\ repository = [r \in Repositories |-> None]
  /\ task = [t \in Tasks |-> None] /\ version = <<>>
  /\ benchmark = <<>> /\ report = [s \in Reports |-> None]
  /\ writer = [w \in Writers |-> [at |-> "idle"]]

Owns(o, r) == repository[r] # None /\ repository[r].org = o

CreateRepository(o, r) ==
  /\ repository[r] = None
  /\ repository' = [repository EXCEPT ![r] = [org |-> o, state |-> "ACTIVE"]]
  /\ UNCHANGED <<task, version, benchmark, report, writer>>

\* By the synchronization with GitHub.
Archive(r) ==
  /\ repository[r] # None
  /\ \E s \in {"ACTIVE", "ARCHIVED"} \ {repository[r].state} :
       repository' = [repository EXCEPT ![r].state = s]
  /\ UNCHANGED <<task, version, benchmark, report, writer>>
-----------------------------------------------------------------------------
(***************************************************************************)
(* createTaskVersion                                                       *)
(***************************************************************************)
CheckOwnership(w, o, t, content) ==
  /\ writer[w].at = "idle"
  /\ Owns(o, t[1]) /\ repository[t[1]].state = "ACTIVE"
  /\ writer' = [writer EXCEPT ![w] =
       [at |-> "owns", org |-> o, task |-> t, content |-> content]]
  /\ UNCHANGED <<repository, task, version, benchmark, report>>

LocksTask(w, t) == writer[w].at \in {"locked", "numbered"} /\ writer[w].task = t

\* A slip: ON CONFLICT DO NOTHING, which locks no row that is there.
UpsertTask_DoNothing(w) ==
  /\ writer[w].at = "owns"
  /\ task[writer[w].task] = None =>
       \A v \in Writers : ~ LocksTask(v, writer[w].task)
  /\ writer' = [writer EXCEPT ![w].at = "locked"]
  /\ UNCHANGED <<repository, task, version, benchmark, report>>

\* The row is inserted or updated, and locked until the transaction ends.
UpsertTask(w) ==
  /\ writer[w].at = "owns"
  /\ \A v \in Writers : ~ LocksTask(v, writer[w].task)
  /\ writer' = [writer EXCEPT ![w].at = "locked"]
  /\ UNCHANGED <<repository, task, version, benchmark, report>>

VersionsOf(t) == {i \in DOMAIN version : version[i].task = t}

NumberVersion(w) ==
  /\ writer[w].at = "locked"
  /\ LET used == {version[i].number : i \in VersionsOf(writer[w].task)} \cup {0}
         last == CHOOSE n \in used : \A m \in used : m <= n
     IN writer' = [writer EXCEPT ![w] =
          [at |-> "numbered", org |-> @.org, task |-> @.task, content |-> @.content,
           number |-> last + 1]]
  /\ UNCHANGED <<repository, task, version, benchmark, report>>

\* A task has every number and every content once; otherwise nothing of the
\* transaction stays.
InsertVersion(w) ==
  /\ writer[w].at = "numbered" /\ Len(version) < MaxRows
  /\ LET q == writer[w]
         taken == \E i \in VersionsOf(q.task) :
                    version[i].number = q.number \/ version[i].content = q.content
     IN IF taken THEN UNCHANGED <<task, version>>
        ELSE /\ task' = [task EXCEPT ![q.task] = IF @ = None THEN q.org ELSE @]
             /\ version' = Append(version,
                  [task |-> q.task, number |-> q.number, content |-> q.content])
  /\ writer' = [writer EXCEPT ![w] = [at |-> "idle"]]
  /\ UNCHANGED <<repository, benchmark, report>>

AbortVersion(w) ==
  /\ writer[w].at # "idle" /\ writer' = [writer EXCEPT ![w] = [at |-> "idle"]]
  /\ UNCHANGED <<repository, task, version, benchmark, report>>
-----------------------------------------------------------------------------
(***************************************************************************)
(* createBenchmark and what createRun reads of it; getPublicTask and the   *)
(* listings write nothing.                                                 *)
(***************************************************************************)
\* getPublicTask and the listings: what an organization sees.
Visible(o) == {i \in DOMAIN version : task[version[i].task] = o}

\* A version that is listed for a task is its last one.
Listed(t) == {i \in VersionsOf(t) :
                \A j \in VersionsOf(t) : version[j].number <= version[i].number}

\* "ids" are the versions that are named and exist: others, and another
\* organization's, are left out without a word; they need not be of the
\* benchmark's repository.
CreateBenchmark(o, r, ids) ==
  /\ Len(benchmark) < MaxBenchmarks
  /\ Owns(o, r)
  /\ benchmark' = Append(benchmark,
       [org |-> o, repository |-> r, tasks |-> ids \cap Visible(o)])
  /\ UNCHANGED <<repository, task, version, report, writer>>

\* What createRun admits; the repository may be archived by now.
MayOrder(o, r, b) == b.org = o /\ b.repository = r
-----------------------------------------------------------------------------
(***************************************************************************)
(* saveReadiness and saveOptimization, whose tables have the same form.    *)
(***************************************************************************)
\* An archived repository is as good as another one.  The id is the key of
\* the table for all organizations: one that is there is refused.
SaveReport(o, r, s) ==
  /\ Owns(o, r) /\ report[s] = None
  /\ report' = [report EXCEPT ![s] = [org |-> o, repository |-> r]]
  /\ UNCHANGED <<repository, task, version, benchmark, writer>>

\* listReadiness and listOptimizations of a repository.
ReportsOn(o, r) ==
  {s \in Reports : report[s] # None /\ report[s].org = o /\ report[s].repository = r}

Next ==
  \/ \E r \in Repositories : Archive(r)
  \/ \E o \in Tenants, r \in Repositories :
       \/ CreateRepository(o, r) \/ \E s \in Reports : SaveReport(o, r, s)
       \/ \E ids \in SUBSET DOMAIN version : CreateBenchmark(o, r, ids)
  \/ \E w \in Writers :
       \/ \E o \in Tenants, t \in Tasks, x \in Contents : CheckOwnership(w, o, t, x)
       \/ UpsertTask(w) \/ NumberVersion(w) \/ InsertVersion(w) \/ AbortVersion(w)

Spec == Init /\ [][Next]_vars
-----------------------------------------------------------------------------
(***************************************************************************)
(* Properties.                                                             *)
(***************************************************************************)
\* Versions of a task that are made at once get the numbers 1, 2, ... in the
\* order they are committed, so that the listed one is the newest, and nobody
\* draws a number that another one has taken.
VersionsInOrder ==
  /\ \A t \in Tasks : Listed(t) = {i \in VersionsOf(t) : \A j \in VersionsOf(t) : j <= i}
  /\ \A i \in DOMAIN version :
       version[i].number = Cardinality({j \in VersionsOf(version[i].task) : j <= i})
  /\ \A w \in Writers : writer[w].at = "numbered" =>
       writer[w].number = Cardinality(VersionsOf(writer[w].task)) + 1

\* Whatever identifiers the requests name, a run executes tasks of its own
\* organization only: its benchmark, their repositories and the tasks agree;
\* and every report is listed for one organization, which has the repository.
TenantsAreSeparate ==
  /\ \A t \in Tasks : task[t] # None => Owns(task[t], t[1])
  /\ \A o \in Tenants, r \in Repositories, k \in DOMAIN benchmark :
       MayOrder(o, r, benchmark[k]) =>
         Owns(o, r) /\ \A i \in benchmark[k].tasks : task[version[i].task] = o
  /\ \A s \in Reports : report[s] # None =>
       /\ Owns(report[s].org, report[s].repository)
       /\ \A o \in Tenants, r \in Repositories : s \in ReportsOn(o, r) => Owns(o, r)

\* Both.
CatalogueAgrees == VersionsInOrder /\ TenantsAreSeparate
=============================================================================
