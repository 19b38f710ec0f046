------------------------------ MODULE Scheduler ------------------------------
(***************************************************************************)
(* Scheduled runs of CloudService (packages/cloud-core): the schedules of  *)
(* one organization, the requests that create, change and delete them, and *)
(* the scheduler processes, each of which performs one transactional tick  *)
(* at a time.  A tick locks the rows of the due schedules it can get, then *)
(* inserts for each of them a run, its occurrence and its job and advances *)
(* the schedule; everything commits or nothing does.  The locks are held   *)
(* until then, so a tick is two steps here.                                *)
(*                                                                         *)
(* Time is counted in the shortest interval.  The limit of a hundred       *)
(* schedules per tick is not reached, and the plan does not change.  What  *)
(* becomes of the jobs is JobQueue's matter.                               *)
(***************************************************************************)
EXTENDS Integers, FiniteSets

CONSTANTS
  Schedules,     \* schedules that may be created
  Processes,     \* scheduler processes
  Interval,      \* the cadence of each schedule
  MaxSchedules,  \* entitlements.max_schedules
  MaxTime,       \* bound: the clock stops there, and nothing is set to later
  MayRewind      \* may setSchedule move next_run_at back?

ASSUME SchedulerAssumption ==
  /\ IsFiniteSet(Schedules)
  /\ Interval \in [Schedules -> Nat \ {0}]
  /\ MaxTime \in Nat /\ MaxSchedules \in Nat
  /\ MayRewind \in BOOLEAN

VARIABLES
  now,         \* the clock
  row,         \* the schedule's row: absent, enabled, disabled or deleted
  nextRun,     \* schedules.next_run_at
  occurrence,  \* schedule_occurrences of each schedule
  runs,        \* how many runs, each with its job, were made for an occurrence
  counted,     \* createSchedule calls that have passed the entitlement check
  batch,       \* the rows the open tick of a process has read and locked
  start        \* auxiliary: next_run_at as a request last set it

svars == <<now, row, nextRun, occurrence, runs, counted, batch, start>>

Times == 0 .. MaxTime
Read == [schedule : Schedules, time : Times]

TypeOK ==
  /\ now \in Times
  /\ row \in [Schedules -> {"absent", "enabled", "disabled", "deleted"}]
  /\ nextRun \in [Schedules -> Nat]
  /\ occurrence \in [Schedules -> SUBSET Times]
  /\ runs \in [Schedules -> [Times -> Nat]]
  /\ counted \in SUBSET Schedules
  /\ batch \in [Processes -> SUBSET Read]
  /\ start \in [Schedules -> Times]

Init ==
  /\ now = 0
  /\ row = [s \in Schedules |-> "absent"]
  /\ nextRun = [s \in Schedules |-> 0]
  /\ occurrence = [s \in Schedules |-> {}]
  /\ runs = [s \in Schedules |-> [t \in Times |-> 0]]
  /\ counted = {}
  /\ batch = [p \in Processes |-> {}]
  /\ start = [s \in Schedules |-> 0]

Enabled == {s \in Schedules : row[s] = "enabled"}
Due == {s \in Enabled : nextRun[s] <= now}
Batch(p) == {b.schedule : b \in batch[p]}
Unlocked(s) == \A p \in Processes : s \notin Batch(p)

Tick ==
  /\ now < MaxTime
  /\ now' = now + 1
  /\ UNCHANGED <<row, nextRun, occurrence, runs, counted, batch, start>>
-----------------------------------------------------------------------------
\* createSchedule reads the entitlements and counts the enabled schedules ...
CountSchedules(s) ==
  /\ row[s] = "absent" /\ s \notin counted
  /\ Cardinality(Enabled) < MaxSchedules
  /\ counted' = counted \cup {s}
  /\ UNCHANGED <<now, row, nextRun, occurrence, runs, batch, start>>

\* A request writes the row; the time is the caller's.
Write(s, state, t) ==
  /\ row' = [row EXCEPT ![s] = state]
  /\ nextRun' = [nextRun EXCEPT ![s] = t]
  /\ start' = [start EXCEPT ![s] = t]
  /\ UNCHANGED <<now, occurrence, runs, batch>>

\* ... and inserts the row with a statement of its own.
InsertSchedule(s, t) ==
  /\ s \in counted
  /\ counted' = counted \ {s}
  /\ Write(s, "enabled", t)

\* setSchedule: one statement that waits for a tick that has the row locked.
\* It does not look at the entitlements, and takes any next_run_at.
SetSchedule(s, state, t) ==
  /\ row[s] \in {"enabled", "disabled"} /\ Unlocked(s)
  /\ t >= nextRun[s] \/ MayRewind
  /\ Write(s, state, t)
  /\ UNCHANGED counted

\* The same without a next_run_at.
SwitchSchedule(s, state) ==
  /\ row[s] \in {"enabled", "disabled"} /\ Unlocked(s)
  /\ row' = [row EXCEPT ![s] = state]
  /\ UNCHANGED <<now, nextRun, occurrence, runs, counted, batch, start>>

\* deleteSchedule: the occurrences refer to the row, so it can be deleted
\* only before the first of them.
DeleteSchedule(s) ==
  /\ row[s] \in {"enabled", "disabled"} /\ Unlocked(s)
  /\ occurrence[s] = {}
  /\ row' = [row EXCEPT ![s] = "deleted"]
  /\ UNCHANGED <<now, nextRun, occurrence, runs, counted, batch, start>>
-----------------------------------------------------------------------------
ReadOf(S) == {[schedule |-> s, time |-> nextRun[s]] : s \in S}

\* A slip: a schedule is selected only at its very time.
TickSelect_Exact(p) ==
  /\ batch[p] = {}
  /\ batch' = [batch EXCEPT ![p] = ReadOf({s \in Due : nextRun[s] = now /\ Unlocked(s)})]
  /\ batch'[p] # {}
  /\ UNCHANGED <<now, row, nextRun, occurrence, runs, counted, start>>

\* schedulerTick, the SELECT: it locks every due row that nobody has locked.
TickSelect(p) ==
  /\ batch[p] = {}
  /\ batch' = [batch EXCEPT ![p] = ReadOf({s \in Due : Unlocked(s)})]
  /\ batch'[p] # {}
  /\ UNCHANGED <<now, row, nextRun, occurrence, runs, counted, start>>

\* No occurrence of the batch is in the table already.
Fresh(p) == \A b \in batch[p] : b.time \notin occurrence[b.schedule]

\* The rows of the batch are written, and its schedules go on at next.
Fires(p, next) ==
  /\ batch[p] # {}
  /\ occurrence' = [s \in Schedules |->
       occurrence[s] \cup {b.time : b \in {c \in batch[p] : c.schedule = s}}]
  /\ runs' = [s \in Schedules |-> [t \in Times |->
       IF [schedule |-> s, time |-> t] \in batch[p] THEN runs[s][t] + 1
       ELSE runs[s][t]]]
  /\ nextRun' = [s \in Schedules |-> IF s \in Batch(p) THEN next[s] ELSE nextRun[s]]
  /\ batch' = [batch EXCEPT ![p] = {}]
  /\ UNCHANGED <<now, row, counted, start>>

AfterThis == [s \in Schedules |-> nextRun[s] + Interval[s]]

\* Slips: an occurrence that exists is no obstacle; the schedule goes on from
\* the time of the tick.
TickCommit_Upsert(p) == Fires(p, AfterThis)

TickCommit_FromNow(p) ==
  Fresh(p) /\ Fires(p, [s \in Schedules |-> now + Interval[s]])

\* The loop and the commit.  The unique violation of a duplicate has aborted
\* the transaction when the catch block wants to delete the run, so that
\* statement fails as well and with it the tick.
TickCommit(p) == Fresh(p) /\ Fires(p, AfterThis)

\* The tick is rolled back: a duplicate, an error of the database, a crash.
TickAbort(p) ==
  /\ batch[p] # {}
  /\ batch' = [batch EXCEPT ![p] = {}]
  /\ UNCHANGED <<now, row, nextRun, occurrence, runs, counted, start>>
-----------------------------------------------------------------------------
RequestStep(s) ==
  \/ CountSchedules(s)
  \/ DeleteSchedule(s)
  \/ \E t \in Times : InsertSchedule(s, t)
  \/ \E state \in {"enabled", "disabled"} :
       \/ SwitchSchedule(s, state)
       \/ \E t \in Times : SetSchedule(s, state, t)

ProcessStep(p) == TickSelect(p) \/ TickCommit(p) \/ TickAbort(p)

Next ==
  \/ Tick
  \/ \E s \in Schedules : RequestStep(s)
  \/ \E p \in Processes : ProcessStep(p)

Spec == Init /\ [][Next]_svars

\* Ticks are performed again and again, and not every one of them is rolled
\* back when it need not be.
Fairness ==
  /\ WF_svars(Tick)
  /\ \A p \in Processes :
       /\ SF_svars(TickSelect(p)) /\ SF_svars(TickCommit(p))
       /\ WF_svars(TickAbort(p))

FairSpec == Spec /\ Fairness

\* The owner asks for the deletion of a schedule again and again.
DeletingSpec == FairSpec /\ \A s \in Schedules : SF_svars(DeleteSchedule(s))
-----------------------------------------------------------------------------
\* Each occurrence of a schedule has exactly one run, however many scheduler
\* processes work and however often a tick is rolled back or repeated, and no
\* run exists without one.
OneRunPerOccurrence ==
  \A s \in Schedules : \A t \in Times :
    runs[s][t] = IF t \in occurrence[s] THEN 1 ELSE 0

\* No run is made before its time, and none for a schedule that was deleted.
RunsAreOnTime ==
  \A s \in Schedules : /\ \A t \in occurrence[s] : t <= now
                       /\ row[s] = "deleted" => occurrence[s] = {}

\* An outage loses no occurrence: every time the schedule passed since its
\* owner last set it has one.
NoOccurrenceLost ==
  \A s \in Schedules : \A k \in 0 .. MaxTime :
    start[s] + k * Interval[s] < nextRun[s]
      => start[s] + k * Interval[s] \in occurrence[s]

\* The rows of two open ticks are different ones, and what a tick has read of
\* a row is still there, and still due, when it writes.
LockedRowsAreCurrent ==
  /\ \A p, q \in Processes : p # q => Batch(p) \cap Batch(q) = {}
  /\ \A p \in Processes : \A b \in batch[p] :
       row[b.schedule] = "enabled" /\ nextRun[b.schedule] = b.time /\ b.time <= now

\* A row that is still to be inserted does not exist.
CountedAreAbsent == \A s \in counted : row[s] = "absent"

\* The inductive invariant.
SchedulerInv ==
  TypeOK /\ OneRunPerOccurrence /\ RunsAreOnTime /\ LockedRowsAreCurrent
  /\ CountedAreAbsent

\* A due schedule that was moved back onto an occurrence of its own.
Poisoned(s) == s \in Due /\ nextRun[s] \in occurrence[s]

\* A schedule that is due is run, whatever is rolled back, switched or moved
\* meanwhile, unless its owner changes it or some schedule is poisoned.
DueSchedulesFire ==
  \A s \in Schedules : \A t \in Times :
    (row[s] = "enabled" /\ nextRun[s] = t /\ t <= now)
      ~> \/ t \in occurrence[s] \/ row[s] # "enabled" \/ nextRun[s] # t
         \/ \E x \in Schedules : Poisoned(x)

\* The code means to pass over a duplicate (its catch block goes on with the
\* next schedule): other schedules that are due are run all the same.
DuplicatesDoNoHarm ==
  \A s \in Schedules : \A t \in Times :
    (row[s] = "enabled" /\ nextRun[s] = t /\ t <= now /\ t \notin occurrence[s])
      ~> (t \in occurrence[s] \/ row[s] # "enabled" \/ nextRun[s] # t)

\* "RBAC and live entitlements are evaluated in the service layer on every
\* access": an organization never has more enabled schedules than its plan
\* allows.
ScheduleLimit == Cardinality(Enabled) <= MaxSchedules

\* "updates and removes schedules": an owner who wants to get rid of a
\* schedule can.
SchedulesCanBeRemoved ==
  \A s \in Schedules : row[s] \in {"enabled", "disabled"} ~> row[s] = "deleted"
=============================================================================
