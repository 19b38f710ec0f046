------------------------------ MODULE RunPages ------------------------------
(***************************************************************************)
(* listRuns (packages/cloud-core) and GET .../runs (packages/cloud-api):   *)
(* a client walks through an organization's runs, newest first, page by    *)
(* page, while runs are created.  The cursor that it hands back names the  *)
(* last run it was shown, its time in milliseconds; the database keeps     *)
(* microseconds.  Runs are never deleted.                                  *)
(***************************************************************************)
EXTENDS Integers, FiniteSets

CONSTANTS
  Clients,   \* walks through the runs
  Ids,       \* uuids, in their order
  PageSize,  \* the limit of a page
  PerMilli,  \* microseconds in a millisecond
  MaxTime,   \* bound on the time, in microseconds
  None

RunPagesAssumption ==
  /\ Ids \subseteq Nat /\ IsFiniteSet(Ids)
  /\ None \notin Nat \cup [time : Nat, id : Ids]
  /\ PageSize \in 1 .. 200 /\ PerMilli \in Nat \ {0} /\ MaxTime \in Nat

VARIABLES
  created, \* benchmark_runs: created_at by id, or None
  now,
  walk     \* the walks: cursor, what was there, what was shown

vars == <<created, now, walk>>

Listed == {i \in Ids : created[i] # None}
Milli(time) == PerMilli * (time \div PerMilli)

Init ==
  /\ created = [i \in Ids |-> None] /\ now = 0
  /\ walk = [c \in Clients |-> [at |-> "idle"]]

\* created_at is the time at which the transaction began, which is the same
\* for all runs that it makes.
CreateRuns(ids, time) ==
  /\ ids # {} /\ ids \cap Listed = {} /\ time <= now
  /\ created' = [i \in Ids |-> IF i \in ids THEN time ELSE created[i]]
  /\ UNCHANGED <<now, walk>>

Tick == now < MaxTime /\ now' = now + 1 /\ UNCHANGED <<created, walk>>

\* (created_at, id) < (t, j)
Older(i, t, j) == created[i] < t \/ (created[i] = t /\ i < j)

\* ORDER BY created_at DESC, id DESC LIMIT
FirstOf(rows) ==
  {i \in rows : Cardinality({j \in rows : Older(i, created[j], j)}) < PageSize}

Begin(c) ==
  /\ walk[c].at = "idle"
  /\ walk' = [walk EXCEPT ![c] = [at |-> "walking", cursor |-> None, there |-> Listed,
                                  shown |-> {}, ends |-> {}, again |-> FALSE]]
  /\ UNCHANGED <<created, now>>

\* A slip: the run that the cursor names is shown again.
After_Inclusive(cursor) ==
  {i \in Listed : cursor # None => Older(i, cursor.time, cursor.id) \/ i = cursor.id}

After(cursor) == {i \in Listed : cursor # None => Older(i, cursor.time, cursor.id)}

\* One page; there is a next one if a row more than the page was found.
NextPage(c) ==
  /\ walk[c].at = "walking"
  /\ LET w == walk[c]
         rows == After(w.cursor)
         items == FirstOf(rows)
         last == CHOOSE i \in items : \A j \in items : ~ Older(j, created[i], i)
         more == items # rows
     IN walk' = [walk EXCEPT ![c] =
          [at |-> IF more THEN "walking" ELSE "done",
           cursor |-> IF more THEN [time |-> Milli(created[last]), id |-> last] ELSE None,
           there |-> w.there, shown |-> w.shown \cup items,
           ends |-> w.ends \cup (IF more THEN {last} ELSE {}),
           again |-> w.again \/ items \cap w.shown # {}]]
  /\ UNCHANGED <<created, now>>

Next ==
  \/ Tick
  \/ \E ids \in SUBSET Ids, time \in 0 .. MaxTime : CreateRuns(ids, time)
  \/ \E c \in Clients : Begin(c) \/ NextPage(c)

Spec == Init /\ [][Next]_vars
-----------------------------------------------------------------------------
(***************************************************************************)
(* Properties.                                                             *)
(***************************************************************************)
\* Whatever is created during a walk, no run is shown twice, and one that was
\* there when the walk began is missed only if it was created in the same
\* millisecond as the last run of a page, and comes after it.
OnlyTheSameMillisecondIsMissed ==
  \A c \in Clients : walk[c].at # "idle" =>
    /\ ~ walk[c].again
    /\ walk[c].at = "done" =>
         \A i \in walk[c].there \ walk[c].shown : \E e \in walk[c].ends :
           Milli(created[i]) = Milli(created[e]) /\ Older(i, created[e], e)

\* What a caller expects of pages: all runs that were there are shown.
EveryRunIsShown ==
  \A c \in Clients : walk[c].at = "done" => walk[c].there \subseteq walk[c].shown
=============================================================================
