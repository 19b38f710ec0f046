---------------------------- MODULE RunContract ----------------------------
(***************************************************************************)
(* What the run queue promises the owner of a run, with no job table, no   *)
(* locks and no clock: a run waits, is assigned to one runner at a time,   *)
(* and is delivered once, by the runner it is assigned to or by the GitHub *)
(* Action; or it is parked after its failures, or cancelled.  What is      *)
(* delivered or cancelled never changes again.                             *)
(***************************************************************************)
EXTENDS Naturals

CONSTANTS Runs, Runners, Results, None

VARIABLES
  status,  \* where the run stands
  worker,  \* the runner an assigned run is assigned to
  result,  \* what was delivered
  author   \* who delivered it

cvars == <<status, worker, result, author>>

Init ==
  /\ status = [r \in Runs |-> "absent"]
  /\ worker = [r \in Runs |-> None]
  /\ result = [r \in Runs |-> None]
  /\ author = [r \in Runs |-> None]

Move(r, to, w) ==
  /\ status' = [status EXCEPT ![r] = to]
  /\ worker' = [worker EXCEPT ![r] = w]

Admit(r) ==
  /\ status[r] = "absent"
  /\ Move(r, "waiting", None)
  /\ UNCHANGED <<result, author>>

\* A waiting run is handed out, or taken over from a runner that lost it.
Assign(r, w) ==
  /\ status[r] \in {"waiting", "assigned"}
  /\ Move(r, "assigned", w)
  /\ UNCHANGED <<result, author>>

\* The runner's failure report: the run waits again or is given up.
GiveBack(r) ==
  /\ status[r] = "assigned"
  /\ \E to \in {"waiting", "parked"} : Move(r, to, None)
  /\ UNCHANGED <<result, author>>

\* A revoked runner loses every run assigned to it in one step.
Recall(w) ==
  /\ status' = [r \in Runs |-> IF worker[r] = w THEN "waiting" ELSE status[r]]
  /\ worker' = [r \in Runs |-> IF worker[r] = w THEN None ELSE worker[r]]
  /\ UNCHANGED <<result, author>>

Deliver(r, by, v) ==
  /\ \/ status[r] = "assigned" /\ worker[r] = by
     \/ status[r] \in {"waiting", "assigned", "parked"} /\ by = "action"
  /\ Move(r, "delivered", None)
  /\ result' = [result EXCEPT ![r] = v]
  /\ author' = [author EXCEPT ![r] = by]

Cancel(r) ==
  /\ status[r] \in {"waiting", "assigned", "parked"}
  /\ Move(r, "cancelled", None)
  /\ UNCHANGED <<result, author>>

Next ==
  \/ \E r \in Runs :
       \/ Admit(r)
       \/ GiveBack(r)
       \/ Cancel(r)
       \/ \E w \in Runners : Assign(r, w)
       \/ \E by \in Runners \cup {"action"}, v \in Results : Deliver(r, by, v)
  \/ \E w \in Runners : Recall(w)

Spec == Init /\ [][Next]_cvars
=============================================================================
