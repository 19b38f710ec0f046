--------------------------- MODULE SchedulerProofs ---------------------------
(***************************************************************************)
(* Machine-checked proofs about Scheduler, for any number of schedules,    *)
(* processes, cadences and any limit: SchedulerInv is inductive, so every  *)
(* occurrence has one run, no run is early, and what a tick has read of    *)
(* the rows it locked is still true when it writes.  CadenceInv is         *)
(* inductive relative to it, so an outage loses no occurrence.             *)
(***************************************************************************)
EXTENDS Scheduler, TLAPS

LEMMA InitEstablishesInv == Init => SchedulerInv
BY SchedulerAssumption DEF Init, SchedulerInv, TypeOK, OneRunPerOccurrence,
   RunsAreOnTime, LockedRowsAreCurrent, CountedAreAbsent, Batch, Times, Read

\* Time passes: what was due stays due.
LEMMA ClockKeepsInv == ASSUME SchedulerInv, Tick PROVE SchedulerInv'
<1>1. TypeOK' BY SchedulerAssumption DEF Tick, SchedulerInv, TypeOK, Times, Read
<1>2. OneRunPerOccurrence' BY DEF Tick, SchedulerInv, OneRunPerOccurrence
<1>3. RunsAreOnTime'
  BY SchedulerAssumption DEF Tick, SchedulerInv, TypeOK, RunsAreOnTime, Times
<1>4. LockedRowsAreCurrent'
  <2>1. ASSUME NEW p \in Processes, NEW b \in batch[p] PROVE b.time <= now + 1
    <3>1. b.time \in Int /\ now \in Int
      BY SchedulerAssumption DEF SchedulerInv, TypeOK, Times, Read
    <3>2. b.time <= now BY DEF SchedulerInv, LockedRowsAreCurrent
    <3>3. QED BY <3>1, <3>2
  <2>2. QED BY <2>1 DEF Tick, SchedulerInv, LockedRowsAreCurrent, Batch
<1>5. CountedAreAbsent' BY DEF Tick, SchedulerInv, CountedAreAbsent
<1>6. QED BY <1>1, <1>2, <1>3, <1>4, <1>5 DEF SchedulerInv

\* A change of one row that no tick has locked and no insertion waits for
\* disturbs nobody, as long as a deleted row has never fired.
LEMMA RowChangeKeepsInv ==
  ASSUME SchedulerInv, NEW s \in Schedules, Unlocked(s),
         NEW state \in {"enabled", "disabled", "deleted"},
         state = "deleted" => occurrence[s] = {},
         row' = [row EXCEPT ![s] = state],
         nextRun' \in [Schedules -> Nat], start' \in [Schedules -> Times],
         \A r \in Schedules : r # s => nextRun'[r] = nextRun[r],
         counted' \subseteq counted, s \notin counted',
         UNCHANGED <<now, occurrence, runs, batch>>
  PROVE  SchedulerInv'
<1>1. TypeOK' BY DEF SchedulerInv, TypeOK
<1>2. OneRunPerOccurrence' BY DEF SchedulerInv, OneRunPerOccurrence
<1>3. RunsAreOnTime' BY DEF SchedulerInv, TypeOK, RunsAreOnTime
<1>4. LockedRowsAreCurrent'
  <2>1. \A p \in Processes : \A b \in batch[p] :
          b.schedule \in Schedules /\ b.schedule # s
    BY DEF SchedulerInv, TypeOK, Read, Unlocked, Batch
  <2>2. QED BY <2>1 DEF SchedulerInv, TypeOK, LockedRowsAreCurrent, Batch
<1>5. CountedAreAbsent' BY DEF SchedulerInv, TypeOK, CountedAreAbsent
<1>6. QED BY <1>1, <1>2, <1>3, <1>4, <1>5 DEF SchedulerInv

\* A row that does not exist is in nobody's batch.
LEMMA AbsentIsUnlocked ==
  ASSUME SchedulerInv, NEW s \in Schedules, row[s] # "enabled"
  PROVE  Unlocked(s)
BY DEF SchedulerInv, LockedRowsAreCurrent, Unlocked, Batch

LEMMA RequestKeepsInv ==
  ASSUME SchedulerInv, NEW s \in Schedules, RequestStep(s)
  PROVE  SchedulerInv'
<1>1. CASE CountSchedules(s)
  BY <1>1 DEF CountSchedules, SchedulerInv, TypeOK, OneRunPerOccurrence,
     RunsAreOnTime, LockedRowsAreCurrent, CountedAreAbsent, Batch
<1>2. CASE DeleteSchedule(s)
  <2>1. s \notin counted BY <1>2 DEF DeleteSchedule, SchedulerInv, CountedAreAbsent
  <2>2. nextRun' \in [Schedules -> Nat] /\ start' \in [Schedules -> Times]
    BY <1>2 DEF DeleteSchedule, SchedulerInv, TypeOK
  <2>3. QED BY <1>2, <2>1, <2>2, RowChangeKeepsInv DEF DeleteSchedule
<1>3. ASSUME NEW t \in Times, InsertSchedule(s, t) PROVE SchedulerInv'
  <2>1. Unlocked(s)
    BY <1>3, AbsentIsUnlocked DEF InsertSchedule, SchedulerInv, CountedAreAbsent
  <2>2. nextRun' \in [Schedules -> Nat] /\ start' \in [Schedules -> Times]
    BY <1>3, SchedulerAssumption
       DEF InsertSchedule, Write, SchedulerInv, TypeOK, Times
  <2>3. \A r \in Schedules : r # s => nextRun'[r] = nextRun[r]
    BY <1>3 DEF InsertSchedule, Write, SchedulerInv, TypeOK
  <2>4. counted' \subseteq counted /\ s \notin counted'
    BY <1>3 DEF InsertSchedule
  <2>5. QED
    BY <1>3, <2>1, <2>2, <2>3, <2>4, RowChangeKeepsInv DEF InsertSchedule, Write
<1>4. ASSUME NEW state \in {"enabled", "disabled"}, SwitchSchedule(s, state)
      PROVE  SchedulerInv'
  <2>1. s \notin counted BY <1>4 DEF SwitchSchedule, SchedulerInv, CountedAreAbsent
  <2>2. nextRun' \in [Schedules -> Nat] /\ start' \in [Schedules -> Times]
    BY <1>4 DEF SwitchSchedule, SchedulerInv, TypeOK
  <2>3. QED BY <1>4, <2>1, <2>2, RowChangeKeepsInv DEF SwitchSchedule
<1>5. ASSUME NEW state \in {"enabled", "disabled"}, NEW t \in Times,
             SetSchedule(s, state, t)
      PROVE  SchedulerInv'
  <2>1. s \notin counted BY <1>5 DEF SetSchedule, SchedulerInv, CountedAreAbsent
  <2>2. nextRun' \in [Schedules -> Nat] /\ start' \in [Schedules -> Times]
    BY <1>5, SchedulerAssumption DEF SetSchedule, Write, SchedulerInv, TypeOK, Times
  <2>3. \A r \in Schedules : r # s => nextRun'[r] = nextRun[r]
    BY <1>5 DEF SetSchedule, Write, SchedulerInv, TypeOK
  <2>4. QED BY <1>5, <2>1, <2>2, <2>3, RowChangeKeepsInv DEF SetSchedule, Write
<1>6. QED BY <1>1, <1>2, <1>3, <1>4, <1>5 DEF RequestStep

\* A tick locks rows that nobody has locked, and reads them as they are.
LEMMA SelectKeepsInv ==
  ASSUME SchedulerInv, NEW p \in Processes, TickSelect(p)
  PROVE  SchedulerInv'
<1> DEFINE got == ReadOf({s \in Due : Unlocked(s)})
<1>1. /\ batch' = [batch EXCEPT ![p] = got] /\ batch[p] = {}
      /\ UNCHANGED <<now, row, nextRun, occurrence, runs, counted, start>>
  BY DEF TickSelect
<1>2. \A b \in got : /\ b.schedule \in Schedules /\ Unlocked(b.schedule)
                     /\ row[b.schedule] = "enabled"
                     /\ b.time = nextRun[b.schedule] /\ b.time <= now
  BY DEF ReadOf, Due, Enabled
<1>3. got \subseteq Read
  <2> SUFFICES ASSUME NEW s \in Schedules, nextRun[s] <= now
               PROVE  [schedule |-> s, time |-> nextRun[s]] \in Read
    BY DEF ReadOf, Due, Enabled
  <2>1. nextRun[s] \in Times
    BY SchedulerAssumption DEF SchedulerInv, TypeOK, Times
  <2>2. QED BY <2>1 DEF Read
<1> HIDE DEF got
<1>4. TypeOK' BY <1>1, <1>3 DEF SchedulerInv, TypeOK
<1>5. OneRunPerOccurrence' BY <1>1 DEF SchedulerInv, OneRunPerOccurrence
<1>6. RunsAreOnTime' BY <1>1 DEF SchedulerInv, RunsAreOnTime
<1>7. LockedRowsAreCurrent'
  <2>1. \A q \in Processes : q # p => batch'[q] = batch[q]
    BY <1>1 DEF SchedulerInv, TypeOK
  <2>2. batch'[p] = got BY <1>1 DEF SchedulerInv, TypeOK
  <2>3. \A q \in Processes : q # p => Batch(p)' \cap Batch(q)' = {}
    BY <1>2, <2>1, <2>2 DEF Unlocked, Batch
  <2>4. \A q, r \in Processes : q # r => Batch(q)' \cap Batch(r)' = {}
    BY <2>1, <2>3 DEF SchedulerInv, LockedRowsAreCurrent, Batch
  <2>5. \A q \in Processes : \A b \in batch'[q] :
          row[b.schedule] = "enabled" /\ nextRun[b.schedule] = b.time /\ b.time <= now
    BY <1>2, <2>1, <2>2 DEF SchedulerInv, LockedRowsAreCurrent
  <2>6. QED BY <1>1, <2>4, <2>5 DEF LockedRowsAreCurrent
<1>8. CountedAreAbsent' BY <1>1 DEF SchedulerInv, CountedAreAbsent
<1>9. QED BY <1>4, <1>5, <1>6, <1>7, <1>8 DEF SchedulerInv

\* A tick commits: the fresh occurrences of its rows get their run, and the
\* rows of the other ticks are not among them.
LEMMA CommitKeepsInv ==
  ASSUME SchedulerInv, NEW p \in Processes, TickCommit(p)
  PROVE  SchedulerInv'
<1>1. /\ UNCHANGED <<now, row, counted, start>>
      /\ batch' = [batch EXCEPT ![p] = {}]
      /\ occurrence' = [s \in Schedules |->
           occurrence[s] \cup {b.time : b \in {c \in batch[p] : c.schedule = s}}]
      /\ runs' = [s \in Schedules |-> [t \in Times |->
           IF [schedule |-> s, time |-> t] \in batch[p] THEN runs[s][t] + 1
           ELSE runs[s][t]]]
      /\ nextRun' = [s \in Schedules |->
           IF s \in Batch(p) THEN AfterThis[s] ELSE nextRun[s]]
  BY DEF TickCommit, Fires
<1>2. batch[p] \subseteq Read BY DEF SchedulerInv, TypeOK
<1>3. \A b \in batch[p] : /\ b.schedule \in Schedules /\ b.time \in Times
                          /\ b = [schedule |-> b.schedule, time |-> b.time]
                          /\ row[b.schedule] = "enabled" /\ b.time <= now
                          /\ b.time \notin occurrence[b.schedule]
  BY <1>2 DEF Read, TickCommit, Fresh, SchedulerInv, LockedRowsAreCurrent
<1>4. \A s \in Schedules : \A t \in Times :
        t \in occurrence'[s]
          <=> t \in occurrence[s] \/ [schedule |-> s, time |-> t] \in batch[p]
  BY <1>1, <1>3
<1>5. \A q \in Processes : batch'[q] = IF q = p THEN {} ELSE batch[q]
  BY <1>1 DEF SchedulerInv, TypeOK
<1>6. TypeOK'
  <2>1. nextRun' \in [Schedules -> Nat]
    BY <1>1, SchedulerAssumption DEF SchedulerInv, TypeOK, AfterThis
  <2>2. occurrence' \in [Schedules -> SUBSET Times]
    BY <1>1, <1>3 DEF SchedulerInv, TypeOK
  <2>3. runs' \in [Schedules -> [Times -> Nat]]
    <3>1. ASSUME NEW s \in Schedules, NEW t \in Times
          PROVE  (IF [schedule |-> s, time |-> t] \in batch[p] THEN runs[s][t] + 1
                  ELSE runs[s][t]) \in Nat
      <4>1. runs[s][t] \in Nat BY DEF SchedulerInv, TypeOK
      <4>2. QED BY <4>1
    <3>2. QED BY <1>1, <3>1
  <2>4. batch' \in [Processes -> SUBSET Read] BY <1>1 DEF SchedulerInv, TypeOK
  <2>5. QED BY <1>1, <2>1, <2>2, <2>3, <2>4 DEF SchedulerInv, TypeOK
<1>7. OneRunPerOccurrence'
  <2> SUFFICES ASSUME NEW s \in Schedules, NEW t \in Times
               PROVE  runs'[s][t] = IF t \in occurrence'[s] THEN 1 ELSE 0
    BY DEF OneRunPerOccurrence
  <2>1. runs[s][t] = IF t \in occurrence[s] THEN 1 ELSE 0
    BY DEF SchedulerInv, OneRunPerOccurrence
  <2>2. [schedule |-> s, time |-> t] \in batch[p] => t \notin occurrence[s]
    BY <1>3
  <2>3. runs'[s][t] = IF [schedule |-> s, time |-> t] \in batch[p]
                      THEN runs[s][t] + 1 ELSE runs[s][t]
    BY <1>1
  <2>4. QED BY <1>4, <2>1, <2>2, <2>3
<1>8. RunsAreOnTime'
  <2>1. \A s \in Schedules : \A t \in occurrence'[s] : t <= now
    BY <1>1, <1>3 DEF SchedulerInv, RunsAreOnTime
  <2>2. \A s \in Schedules : row[s] = "deleted" => occurrence'[s] = {}
    BY <1>1, <1>3 DEF SchedulerInv, RunsAreOnTime
  <2>3. QED BY <1>1, <2>1, <2>2 DEF RunsAreOnTime
<1>9. LockedRowsAreCurrent'
  <2>1. \A q, r \in Processes : q # r => Batch(q)' \cap Batch(r)' = {}
    BY <1>5 DEF SchedulerInv, LockedRowsAreCurrent, Batch
  <2>2. ASSUME NEW q \in Processes, q # p, NEW b \in batch[q]
        PROVE  nextRun'[b.schedule] = nextRun[b.schedule]
    <3>1. b.schedule \in Schedules BY DEF SchedulerInv, TypeOK, Read
    <3>2. b.schedule \notin Batch(p)
      BY <2>2 DEF SchedulerInv, LockedRowsAreCurrent, Batch
    <3>3. QED BY <1>1, <3>1, <3>2
  <2>3. \A q \in Processes : \A b \in batch'[q] :
          row[b.schedule] = "enabled" /\ nextRun'[b.schedule] = b.time /\ b.time <= now
    BY <1>5, <2>2 DEF SchedulerInv, LockedRowsAreCurrent
  <2>4. QED BY <1>1, <2>1, <2>3 DEF LockedRowsAreCurrent
<1>10. CountedAreAbsent' BY <1>1 DEF SchedulerInv, CountedAreAbsent
<1>11. QED BY <1>6, <1>7, <1>8, <1>9, <1>10 DEF SchedulerInv

LEMMA AbortKeepsInv ==
  ASSUME SchedulerInv, NEW p \in Processes, TickAbort(p)
  PROVE  SchedulerInv'
<1>1. \A q \in Processes : batch'[q] \subseteq batch[q]
  BY DEF TickAbort, SchedulerInv, TypeOK
<1>2. TypeOK' BY DEF TickAbort, SchedulerInv, TypeOK
<1>3. LockedRowsAreCurrent'
  BY <1>1 DEF TickAbort, SchedulerInv, LockedRowsAreCurrent, Batch
<1>4. OneRunPerOccurrence' /\ RunsAreOnTime' /\ CountedAreAbsent'
  BY DEF TickAbort, SchedulerInv, OneRunPerOccurrence, RunsAreOnTime, CountedAreAbsent
<1>5. QED BY <1>2, <1>3, <1>4 DEF SchedulerInv

\* SchedulerInv is inductive.
LEMMA NextKeepsInv == SchedulerInv /\ [Next]_svars => SchedulerInv'
<1> SUFFICES ASSUME SchedulerInv, [Next]_svars PROVE SchedulerInv'
  OBVIOUS
<1>1. CASE Tick BY <1>1, ClockKeepsInv
<1>2. ASSUME NEW s \in Schedules, RequestStep(s) PROVE SchedulerInv'
  BY <1>2, RequestKeepsInv
<1>3. ASSUME NEW p \in Processes, ProcessStep(p) PROVE SchedulerInv'
  BY <1>3, SelectKeepsInv, CommitKeepsInv, AbortKeepsInv DEF ProcessStep
<1>4. CASE UNCHANGED svars
  BY <1>4 DEF svars, SchedulerInv, TypeOK, OneRunPerOccurrence, RunsAreOnTime,
     LockedRowsAreCurrent, CountedAreAbsent, Batch
<1>5. QED BY <1>1, <1>2, <1>3, <1>4 DEF Next
-----------------------------------------------------------------------------
(***************************************************************************)
(* No occurrence is lost: next_run_at is always a whole number of          *)
(* intervals after the time the owner set, so a commit passes over one     *)
(* occurrence of the cadence exactly, the one it records.                  *)
(***************************************************************************)
Aligned == \A s \in Schedules : \E m \in Nat :
             nextRun[s] = start[s] + m * Interval[s]

CadenceInv == Aligned /\ NoOccurrenceLost

\* Whole numbers of intervals lie an interval apart.
LEMMA MultiplesApart ==
  ASSUME NEW m \in Nat, NEW k \in Nat, NEW i \in Nat \ {0}, m < k
  PROVE  k * i >= m * i + i
<1>1. k - m \in Nat /\ k - m >= 1 /\ k = m + (k - m) OBVIOUS
<1>2. k * i = m * i + (k - m) * i BY <1>1
<1>3. (k - m) * i >= i BY <1>1
<1>4. QED BY <1>2, <1>3

\* A step that leaves the occurrences alone and sets the schedules it changes
\* to a new start.
LEMMA SettingKeepsCadence ==
  ASSUME SchedulerInv, CadenceInv, occurrence' = occurrence,
         \A s \in Schedules :
           \/ nextRun'[s] = nextRun[s] /\ start'[s] = start[s]
           \/ nextRun'[s] \in Times /\ start'[s] = nextRun'[s]
  PROVE  CadenceInv'
<1>1. ASSUME NEW s \in Schedules, nextRun'[s] \in Times, start'[s] = nextRun'[s]
      PROVE  /\ nextRun'[s] = start'[s] + 0 * Interval[s]
             /\ \A k \in 0 .. MaxTime : start'[s] + k * Interval[s] >= nextRun'[s]
  <2>1. nextRun'[s] \in Nat /\ Interval[s] \in Nat
    BY <1>1, SchedulerAssumption DEF Times
  <2>2. \A k \in 0 .. MaxTime : k * Interval[s] \in Nat
    BY <2>1, SchedulerAssumption
  <2>3. QED BY <1>1, <2>1, <2>2
<1>2. Aligned'
  <2> SUFFICES ASSUME NEW s \in Schedules
               PROVE  \E m \in Nat : nextRun'[s] = start'[s] + m * Interval[s]
    BY DEF Aligned
  <2>1. CASE nextRun'[s] = nextRun[s] /\ start'[s] = start[s]
    BY <2>1 DEF CadenceInv, Aligned
  <2>2. CASE nextRun'[s] \in Times /\ start'[s] = nextRun'[s]
    BY <1>1, <2>2
  <2>3. QED BY <2>1, <2>2
<1>3. NoOccurrenceLost'
  <2> SUFFICES ASSUME NEW s \in Schedules, NEW k \in 0 .. MaxTime,
                      start'[s] + k * Interval[s] < nextRun'[s]
               PROVE  start'[s] + k * Interval[s] \in occurrence[s]
    BY DEF NoOccurrenceLost
  <2>1. CASE nextRun'[s] = nextRun[s] /\ start'[s] = start[s]
    BY <2>1 DEF CadenceInv, NoOccurrenceLost
  <2>2. CASE nextRun'[s] \in Times /\ start'[s] = nextRun'[s]
    <3>1. start'[s] + k * Interval[s] >= nextRun'[s] BY <1>1, <2>2
    <3>2. start'[s] \in Nat /\ k * Interval[s] \in Nat
      BY <2>2, SchedulerAssumption DEF Times
    <3>3. nextRun'[s] \in Nat BY <2>2, SchedulerAssumption DEF Times
    <3>4. QED BY <3>1, <3>2, <3>3
  <2>3. QED BY <2>1, <2>2
<1>4. QED BY <1>2, <1>3 DEF CadenceInv

\* The commit moves each schedule of its batch from the occurrence that it
\* records to the next one.
LEMMA CommitKeepsCadence ==
  ASSUME SchedulerInv, CadenceInv, NEW p \in Processes, TickCommit(p)
  PROVE  CadenceInv'
<1>1. /\ start' = start
      /\ occurrence' = [s \in Schedules |->
           occurrence[s] \cup {b.time : b \in {c \in batch[p] : c.schedule = s}}]
      /\ nextRun' = [s \in Schedules |->
           IF s \in Batch(p) THEN AfterThis[s] ELSE nextRun[s]]
  BY DEF TickCommit, Fires
<1>2. \A s \in Schedules : /\ occurrence[s] \subseteq occurrence'[s]
                           /\ s \in Batch(p) => nextRun[s] \in occurrence'[s]
  BY <1>1 DEF SchedulerInv, LockedRowsAreCurrent, Batch
<1>3. \A s \in Schedules : nextRun'[s] = IF s \in Batch(p)
                                         THEN nextRun[s] + Interval[s] ELSE nextRun[s]
  BY <1>1 DEF AfterThis
<1>4. ASSUME NEW s \in Schedules
      PROVE  /\ \E m \in Nat : nextRun'[s] = start[s] + m * Interval[s]
             /\ \A k \in 0 .. MaxTime : start[s] + k * Interval[s] < nextRun'[s]
                  => start[s] + k * Interval[s] \in occurrence'[s]
  <2>1. Interval[s] \in Nat \ {0} /\ start[s] \in Nat /\ nextRun[s] \in Nat
    BY SchedulerAssumption DEF SchedulerInv, TypeOK, Times
  <2>2. PICK m \in Nat : nextRun[s] = start[s] + m * Interval[s]
    BY DEF CadenceInv, Aligned
  <2>3. \A k \in 0 .. MaxTime : start[s] + k * Interval[s] < nextRun[s]
          => start[s] + k * Interval[s] \in occurrence'[s]
    BY <1>2 DEF CadenceInv, NoOccurrenceLost
  <2>4. CASE s \notin Batch(p) BY <1>3, <2>2, <2>3, <2>4
  <2>5. CASE s \in Batch(p)
    <3>1. nextRun'[s] = nextRun[s] + Interval[s] BY <1>3, <2>5
    <3>2. m * Interval[s] \in Nat BY <2>1
    <3>3. (m + 1) * Interval[s] = m * Interval[s] + Interval[s] BY <2>1
    <3>4. nextRun'[s] = start[s] + (m + 1) * Interval[s]
      BY <2>1, <2>2, <3>1, <3>2, <3>3
    <3>5. ASSUME NEW k \in 0 .. MaxTime,
                 start[s] + k * Interval[s] < nextRun'[s]
          PROVE  start[s] + k * Interval[s] \in occurrence'[s]
      <4>1. k \in Nat /\ k * Interval[s] \in Nat BY <2>1, SchedulerAssumption
      <4>2. k <= m
        <5>1. SUFFICES ASSUME m < k PROVE FALSE BY <4>1
        <5>2. k * Interval[s] >= m * Interval[s] + Interval[s]
          BY <2>1, <4>1, <5>1, MultiplesApart
        <5>3. QED BY <2>1, <2>2, <3>1, <3>2, <3>5, <4>1, <5>2
      <4>3. CASE k = m BY <1>2, <2>2, <2>5, <4>3
      <4>4. CASE k < m
        <5>1. m * Interval[s] >= k * Interval[s] + Interval[s]
          BY <2>1, <4>1, <4>4, MultiplesApart
        <5>2. start[s] + k * Interval[s] < nextRun[s]
          BY <2>1, <2>2, <3>2, <4>1, <5>1
        <5>3. QED BY <2>3, <5>2
      <4>5. QED BY <4>1, <4>2, <4>3, <4>4
    <3>6. m + 1 \in Nat OBVIOUS
    <3>7. QED BY <3>4, <3>5, <3>6
  <2>6. QED BY <2>4, <2>5
<1>5. QED BY <1>1, <1>4 DEF CadenceInv, Aligned, NoOccurrenceLost

LEMMA NextKeepsCadence ==
  SchedulerInv /\ CadenceInv /\ [Next]_svars => CadenceInv'
<1> SUFFICES ASSUME SchedulerInv, CadenceInv, [Next]_svars PROVE CadenceInv'
  OBVIOUS
<1>1. CASE UNCHANGED <<nextRun, start, occurrence>>
  BY <1>1, SettingKeepsCadence
<1>2. ASSUME NEW s \in Schedules, NEW state, NEW t \in Times, Write(s, state, t)
      PROVE  CadenceInv'
  <2>1. /\ nextRun' = [nextRun EXCEPT ![s] = t]
        /\ start' = [start EXCEPT ![s] = t]
        /\ occurrence' = occurrence
    BY <1>2 DEF Write
  <2>2. nextRun \in [Schedules -> Nat] /\ start \in [Schedules -> Times]
    BY DEF SchedulerInv, TypeOK
  <2>3. \A r \in Schedules :
           \/ nextRun'[r] = nextRun[r] /\ start'[r] = start[r]
           \/ nextRun'[r] \in Times /\ start'[r] = nextRun'[r]
    BY <2>1, <2>2
  <2>4. QED BY <2>1, <2>3, SettingKeepsCadence
<1>3. ASSUME NEW s \in Schedules, RequestStep(s) PROVE CadenceInv'
  BY <1>1, <1>2, <1>3 DEF RequestStep, CountSchedules, DeleteSchedule,
     InsertSchedule, SwitchSchedule, SetSchedule
<1>4. ASSUME NEW p \in Processes, ProcessStep(p) PROVE CadenceInv'
  BY <1>1, <1>4, CommitKeepsCadence DEF ProcessStep, TickSelect, TickAbort
<1>5. CASE Tick BY <1>1, <1>5 DEF Tick
<1>6. CASE UNCHANGED svars BY <1>1, <1>6 DEF svars
<1>7. QED BY <1>3, <1>4, <1>5, <1>6 DEF Next
-----------------------------------------------------------------------------
\* The inductive invariant holds in every reachable state of the scheduler.
THEOREM SchedulerInvariant == Spec => []SchedulerInv
BY InitEstablishesInv, NextKeepsInv, PTL DEF Spec

\* The scheduler's variables keep their types.
THEOREM SchedulerTypes == Spec => []TypeOK
<1>1. SchedulerInv => TypeOK BY DEF SchedulerInv
<1>2. QED BY <1>1, SchedulerInvariant, PTL

\* Concurrent, repeated and rolled back ticks (schedulerTick) make exactly one
\* run for each occurrence.
THEOREM OccurrencesRunOnce == Spec => []OneRunPerOccurrence
<1>1. SchedulerInv => OneRunPerOccurrence BY DEF SchedulerInv
<1>2. QED BY <1>1, SchedulerInvariant, PTL

\* No occurrence is run before its time, and none of a deleted schedule.
THEOREM NoRunIsEarly == Spec => []RunsAreOnTime
<1>1. SchedulerInv => RunsAreOnTime BY DEF SchedulerInv
<1>2. QED BY <1>1, SchedulerInvariant, PTL

\* What FOR UPDATE SKIP LOCKED promises: open ticks have different rows, and
\* the rows stay as they were read.
THEOREM TicksReadCurrentRows == Spec => []LockedRowsAreCurrent
<1>1. SchedulerInv => LockedRowsAreCurrent BY DEF SchedulerInv
<1>2. QED BY <1>1, SchedulerInvariant, PTL

\* However long the schedulers were down, each time of a schedule's cadence
\* that next_run_at has passed has its occurrence.
THEOREM OutagesLoseNothing == Spec => []NoOccurrenceLost
<1>1. Init => CadenceInv
  <2>1. Init => \A s \in Schedules : /\ nextRun[s] = start[s] + 0 * Interval[s]
                                     /\ nextRun[s] = 0 /\ start[s] = 0
    BY SchedulerAssumption DEF Init
  <2>2. \A s \in Schedules : \A k \in 0 .. MaxTime : k * Interval[s] \in Nat
    BY SchedulerAssumption
  <2>3. QED BY <2>1, <2>2 DEF CadenceInv, Aligned, NoOccurrenceLost
<1>2. CadenceInv => NoOccurrenceLost BY DEF CadenceInv
<1>3. QED BY <1>1, <1>2, SchedulerInvariant, NextKeepsCadence, PTL DEF Spec
=============================================================================
