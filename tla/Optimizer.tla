----------------------------- MODULE Optimizer ------------------------------
(***************************************************************************)
(* optimize (packages/optimizer): candidate configurations are tried one   *)
(* after the other, the baseline first, until the budget is used up or the *)
(* caller aborts, which may happen before it begins or while an executor   *)
(* is at work, and which the executor may ignore; a trial that fails is    *)
(* kept without a result.  Then the trials are ranked.                     *)
(*                                                                         *)
(* Candidates are numbered as their ids are sorted.  The provenance of a   *)
(* cached result is the same for all candidates of a run, so the cache is  *)
(* by candidate.                                                           *)
(***************************************************************************)
EXTENDS Integers, FiniteSets, Sequences

CONSTANTS
  Candidates,   \* the grid of the search space, and a baseline outside it
  Metrics,      \* results that an executor can return
  Objectives,   \* lists of objectives
  MaxTrials, MaxAttempts, MaxCost, \* the budget; None is no limit
  None

Goals == {"correctness", "cost", "duration"}
Metric == [success : Int, attempts : Nat, cost : Nat \cup {None}, duration : Nat \cup {None}]

OptimizerAssumption ==
  /\ Candidates \subseteq Nat /\ IsFiniteSet(Candidates) /\ Metrics \subseteq Metric
  /\ Objectives \subseteq Seq(Goals) \ {<<>>}
  /\ MaxTrials \in Nat \ {0} /\ None \notin Nat
  /\ {MaxAttempts, MaxCost} \subseteq Nat \cup {None}

VARIABLES
  todo,       \* the candidates that are still to be tried, in order
  trial,      \* the trials: candidate, status and metrics
  cache,      \* the results that are known, by candidate
  spent,      \* attempts and cost so far
  aborted,    \* whether the caller has aborted
  at,         \* where the loop is
  exhausted,  \* whether the budget has ended the loop
  objectives

vars == <<todo, trial, cache, spent, aborted, at, exhausted, objectives>>

\* The baseline, which may be outside the grid, and then the grid without it.
Orders ==
  {order \in [1 .. Cardinality(Candidates) -> Candidates] :
     \A i, j \in DOMAIN order :
       i < j => order[i] # order[j] /\ (i # 1 => order[i] < order[j])}

Init ==
  /\ todo \in Orders
  /\ trial = <<>> /\ spent = [attempts |-> 0, cost |-> 0]
  /\ \E known \in {{}} \cup {{c} : c \in Candidates}, m \in Metrics :
       cache = [c \in Candidates |-> IF c \in known THEN m ELSE None]
  /\ aborted \in BOOLEAN /\ at = "next" /\ exhausted = FALSE
  /\ objectives \in Objectives

Reached(limit, n) == limit # None /\ n >= limit

BudgetReached ==
  \/ Len(trial) >= MaxTrials
  \/ Reached(MaxAttempts, spent.attempts) \/ Reached(MaxCost, spent.cost)

\* The caller aborts while an executor is awaited.
Abort ==
  /\ ~ aborted /\ aborted' = TRUE
  /\ at = "try" /\ cache[Head(todo)] = None
  /\ UNCHANGED <<todo, trial, cache, spent, at, exhausted, objectives>>

\* The head of the loop; "late" is whether the time is used up.
NextCandidate(late) ==
  /\ at = "next"
  /\ at' = IF todo = <<>> \/ aborted \/ BudgetReached \/ late THEN "done" ELSE "try"
  /\ exhausted' = (todo # <<>> /\ ~ aborted /\ (BudgetReached \/ late))
  /\ UNCHANGED <<todo, trial, cache, spent, aborted, objectives>>

Record(status, metrics) ==
  /\ trial' = Append(trial, [candidate |-> Head(todo), status |-> status, metrics |-> metrics])
  /\ todo' = Tail(todo)
  /\ UNCHANGED <<aborted, exhausted, objectives>>

Valid(metrics) == metrics.success \in 0 .. 100

\* A known result costs nothing.
Cached ==
  /\ at = "try" /\ cache[Head(todo)] # None /\ Valid(cache[Head(todo)])
  /\ Record("CACHED", cache[Head(todo)]) /\ at' = "next"
  /\ UNCHANGED <<cache, spent>>

\* The executor returns a result, even after an abort.
Complete(metrics) ==
  /\ at = "try" /\ cache[Head(todo)] = None /\ Valid(metrics)
  /\ Record("COMPLETED", metrics) /\ at' = "next"
  /\ cache' = [cache EXCEPT ![Head(todo)] = metrics]
  /\ spent' = [attempts |-> spent.attempts + metrics.attempts,
               cost |-> spent.cost + (IF metrics.cost = None THEN 0 ELSE metrics.cost)]

\* It fails, or its result is not valid, as a known one may be; what it has
\* used is not counted.
Fail ==
  /\ at = "try" /\ (cache[Head(todo)] # None => ~ Valid(cache[Head(todo)]))
  /\ Record(IF aborted THEN "CANCELLED" ELSE "FAILED", None)
  /\ at' = IF aborted THEN "done" ELSE "next"
  /\ UNCHANGED <<cache, spent>>

Next ==
  \/ Abort \/ Cached \/ Fail
  \/ \E late \in BOOLEAN : NextCandidate(late)
  \/ \E m \in Metrics : Complete(m)

Spec == Init /\ [][Next]_vars
-----------------------------------------------------------------------------
(***************************************************************************)
(* The result, when the loop is done.                                      *)
(***************************************************************************)
\* More is better; an unknown cost or duration is the worst.  Reliability is
\* left out, it is to be treated like correctness.
Unknown == 1000000
Worth(m, o) ==
  IF o = "correctness" THEN m.success
  ELSE IF m[o] = None THEN - Unknown ELSE - m[o]

\* dominates
Dominates(m, n) ==
  /\ \A k \in DOMAIN objectives : Worth(m, objectives[k]) >= Worth(n, objectives[k])
  /\ \E k \in DOMAIN objectives : Worth(m, objectives[k]) > Worth(n, objectives[k])

Completed == {i \in DOMAIN trial : trial[i].status \in {"COMPLETED", "CACHED"}}

\* The objectives by which two trials differ.
Differ(i, j) ==
  {k \in DOMAIN objectives :
     Worth(trial[i].metrics, objectives[k]) # Worth(trial[j].metrics, objectives[k])}

First(S) == CHOOSE k \in S : \A l \in S : k <= l
Last(S) == CHOOSE k \in S : \A l \in S : k >= l

Better(i, j, k) ==
  Worth(trial[i].metrics, objectives[k]) > Worth(trial[j].metrics, objectives[k])

\* A slip: the last objective counts most.
Before_Last(i, j) ==
  IF Differ(i, j) = {} THEN trial[i].candidate < trial[j].candidate
  ELSE Better(i, j, Last(Differ(i, j)))

\* choose: the first objective that differs decides, or else the id.
Before(i, j) ==
  IF Differ(i, j) = {} THEN trial[i].candidate < trial[j].candidate
  ELSE Better(i, j, First(Differ(i, j)))

\* The first of the ranked trials.
Best == CHOOSE i \in Completed : \A j \in Completed \ {i} : Before(i, j)

Pareto == {i \in Completed : \A j \in Completed :
             ~ Dominates(trial[j].metrics, trial[i].metrics)}

\* Only if the baseline, which is tried first, has a result.
Recommended == IF 1 \in Completed THEN Best ELSE None

Status ==
  IF aborted THEN "CANCELLED" ELSE IF exhausted THEN "BUDGET_EXHAUSTED" ELSE "COMPLETED"
-----------------------------------------------------------------------------
(***************************************************************************)
(* Property.                                                               *)
(***************************************************************************)
\* However the loop ends, what is recommended is not dominated by any trial,
\* and none, the baseline included, is better by the first objective; a
\* budget is overshot by no more than the last trial that was paid for,
\* cached trials count; and a result says that it is complete only if every
\* candidate has been tried.
RecommendationStands ==
  LET paid == {i \in DOMAIN trial : trial[i].status = "COMPLETED"}
      last == trial[Last(paid)].metrics
  IN /\ Recommended # None =>
          /\ Recommended \in Pareto
          /\ \A i \in Completed : Worth(trial[i].metrics, objectives[1])
                                  <= Worth(trial[Recommended].metrics, objectives[1])
     /\ Len(trial) <= MaxTrials
     /\ paid # {} /\ MaxAttempts # None => spent.attempts - last.attempts < MaxAttempts
     /\ paid # {} /\ MaxCost # None /\ last.cost # None => spent.cost - last.cost < MaxCost
     /\ at = "done" /\ Status = "COMPLETED" => todo = <<>>
=============================================================================
