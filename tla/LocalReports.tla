---------------------------- MODULE LocalReports ----------------------------
(***************************************************************************)
(* The reports under .repoarena/state: readiness reports, made by the      *)
(* doctor command (packages/cli) and by the local server (packages/        *)
(* local-product), and optimization runs, in several processes at once.  A *)
(* readiness report is written under its id, which is a hash of what was   *)
(* assessed and not of the time, and then as the latest one; the histories *)
(* list a directory and read its files one by one.                         *)
(*                                                                         *)
(* A file is written under a temporary name, which no listing matches, and *)
(* renamed: one step, or none and a temporary file that stays.             *)
(***************************************************************************)
EXTENDS Integers, FiniteSets, Sequences

CONSTANTS
  Scanners,  \* calls that make a report
  Readers,   \* calls that list a history
  States,    \* states of the repository that make a difference to it
  MaxTime,   \* bound on the time
  None

Kinds == {"readiness", "optimization"}

LocalReportsAssumption ==
  /\ MaxTime \in Nat
  /\ None \notin States
  /\ None \notin [kind : Kinds, created : Nat, id : Seq(States \cup Nat)]

VARIABLES
  state,    \* of the repository
  time,
  file,     \* the reports that are stored: kind, id and created_at
  latest,   \* readiness/latest.json, or None
  scanner,  \* the calls that make a report
  reader    \* the calls that list, and what they have read so far

vars == <<state, time, file, latest, scanner, reader>>

Init ==
  /\ state \in States /\ time = 0 /\ file = {} /\ latest = None
  /\ scanner = [s \in Scanners |-> [at |-> "idle"]]
  /\ reader = [q \in Readers |-> [at |-> "idle"]]

Goes(s, at) == scanner' = [scanner EXCEPT ![s].at = at]

WorkGoesOn ==
  /\ \/ \E x \in States \ {state} : state' = x /\ UNCHANGED time
     \/ time < MaxTime /\ time' = time + 1 /\ UNCHANGED state
  /\ UNCHANGED <<file, latest, scanner, reader>>

\* assessRepository, or optimize, whose id takes in the time.
Assess(s, kind) ==
  /\ scanner[s].at = "idle"
  /\ scanner' = [scanner EXCEPT ![s] =
       [at |-> "assessed",
        report |-> [kind |-> kind, created |-> time,
                    id |-> IF kind = "readiness" THEN <<state>> ELSE <<state, time>>]]]
  /\ UNCHANGED <<state, time, file, latest, reader>>

Same(a, b) == a.kind = b.kind /\ a.id = b.id

\* atomicJson(<id>.json): whatever was there is replaced.
Store(s) ==
  /\ scanner[s].at = "assessed"
  /\ LET report == scanner[s].report
     IN /\ file' = {f \in file : ~ Same(f, report)} \cup {report}
        /\ Goes(s, IF report.kind = "readiness" THEN "stored" ELSE "answered")
  /\ UNCHANGED <<state, time, latest, reader>>

\* A slip: the latest report is written before it has a file of its own.
SetLatest_First(s) ==
  /\ scanner[s].at \in {"assessed", "stored"} /\ scanner[s].report.kind = "readiness"
  /\ latest' = scanner[s].report
  /\ IF scanner[s].at = "stored" THEN Goes(s, "answered") ELSE UNCHANGED scanner
  /\ UNCHANGED <<state, time, file, reader>>

\* atomicJson(latest.json), even if another call has written a newer one.
SetLatest(s) ==
  /\ scanner[s].at = "stored"
  /\ latest' = scanner[s].report
  /\ Goes(s, "answered")
  /\ UNCHANGED <<state, time, file, reader>>

\* A write fails or the process dies.
Abandon(s) ==
  /\ scanner[s].at \in {"assessed", "stored"} /\ Goes(s, "failed")
  /\ UNCHANGED <<state, time, file, latest, reader>>

Answered == {s \in Scanners : scanner[s].at = "answered"}

\* readdir; latest.json is among the readiness reports, the last of them.
List(q, kind) ==
  /\ reader[q].at = "idle"
  /\ reader' = [reader EXCEPT ![q] =
       [at |-> "reading", kind |-> kind, found |-> {},
        names |-> {f.id : f \in {g \in file : g.kind = kind}},
        latest |-> kind = "readiness" /\ latest # None,
        due |-> {scanner[s].report.id :
                   s \in {t \in Answered : scanner[t].report.kind = kind}}]]
  /\ UNCHANGED <<state, time, file, latest, scanner>>

Read(q) ==
  /\ reader[q].at = "reading" /\ reader[q].names # {}
  /\ \E id \in reader[q].names, f \in file :
       /\ f.kind = reader[q].kind /\ f.id = id
       /\ reader' = [reader EXCEPT ![q].names = @ \ {id}, ![q].found = @ \cup {f}]
  /\ UNCHANGED <<state, time, file, latest, scanner>>

\* Of two reports of one id the one that was read last is kept.
ReadLatest(q) ==
  /\ reader[q].at = "reading" /\ reader[q].names = {}
  /\ reader' = [reader EXCEPT ![q].at = "done", ![q].found =
       IF reader[q].latest THEN {f \in @ : ~ Same(f, latest)} \cup {latest} ELSE @]
  /\ UNCHANGED <<state, time, file, latest, scanner>>

Next ==
  \/ WorkGoesOn
  \/ \E s \in Scanners : \/ \E k \in Kinds : Assess(s, k)
                         \/ Store(s) \/ SetLatest(s) \/ Abandon(s)
  \/ \E q \in Readers : \/ \E k \in Kinds : List(q, k)
                        \/ Read(q) \/ ReadLatest(q)

Spec == Init /\ [][Next]_vars
-----------------------------------------------------------------------------
(***************************************************************************)
(* Properties.                                                             *)
(***************************************************************************)
\* Whoever writes, fails or dies: the latest report has a file of its own,
\* and a history shows, once, each report that had been answered when it was
\* asked for.
HistoryIsKept ==
  /\ latest # None => \E f \in file : Same(f, latest)
  /\ \A q \in Readers : reader[q].at = "done" =>
       LET found == reader[q].found
       IN /\ \A id \in reader[q].due : \E f \in found : f.id = id
          /\ \A f, g \in found : Same(f, g) => f = g

\* What the name says, and does not hold: of two assessments the older one may
\* be written last.
LatestIsNewest == [][latest # None => latest'.created >= latest.created]_vars
=============================================================================
