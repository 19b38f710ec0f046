-------------------------- MODULE PhaseCoordinator --------------------------
(***************************************************************************)
(* LocalAttemptPhaseCoordinator (packages/runner-core): the attempts of a  *)
(* process run their agents concurrently, but no agent may run while an    *)
(* evaluator-private phase of any sibling attempt has the hidden assets    *)
(* on disk.  Each call runs to completion on the JavaScript thread, so it  *)
(* is one step; a caller that has to wait holds a promise, which a later   *)
(* release resolves.                                                       *)
(*                                                                         *)
(* The attempts follow runIsolatedAttempt: the agent phase first, then, if *)
(* the agent succeeded, the private phase, each released at most once (the *)
(* code's `released` flag is the attempt's phase here).  An attempt that   *)
(* is over may start again: a worker then runs its next one.  A private    *)
(* phase whose workspace cannot be removed is never released.              *)
(***************************************************************************)
EXTENDS Integers, Sequences, FiniteSets

CONSTANT Attempts   \* the attempts in flight, one per worker

ASSUME AttemptsAssumption == IsFiniteSet(Attempts)

VARIABLES
  activeAgents,     \* how many agent phases are running
  privateActive,    \* a private phase is running
  waitingAgents,    \* attempts waiting to run their agent; they enter together
  waitingPrivate,   \* queue of attempts waiting for their private phase
  phase             \* where each attempt is

pvars == <<activeAgents, privateActive, waitingAgents, waitingPrivate, phase>>

PhaseTypeOK ==
  /\ activeAgents \in Nat
  /\ privateActive \in BOOLEAN
  /\ waitingAgents \in SUBSET Attempts
  /\ waitingPrivate \in Seq(Attempts)
  /\ phase \in [Attempts -> {"outside", "awaitAgent", "agent", "verifying",
                             "awaitPrivate", "private", "kept"}]

PhaseInit ==
  /\ activeAgents = 0
  /\ privateActive = FALSE
  /\ waitingAgents = {}
  /\ waitingPrivate = <<>>
  /\ phase = [a \in Attempts |-> "outside"]

In(p) == {a \in Attempts : phase[a] = p}
-----------------------------------------------------------------------------
\* enterAgent: in at once, unless a private phase runs or waits.
EnterAgent(a) ==
  /\ phase[a] = "outside"
  /\ IF ~privateActive /\ waitingPrivate = <<>>
     THEN /\ activeAgents' = activeAgents + 1
          /\ phase' = [phase EXCEPT ![a] = "agent"]
          /\ UNCHANGED waitingAgents
     ELSE /\ waitingAgents' = waitingAgents \cup {a}
          /\ phase' = [phase EXCEPT ![a] = "awaitAgent"]
          /\ UNCHANGED activeAgents
  /\ UNCHANGED <<privateActive, waitingPrivate>>

\* A slip: only a running private phase is looked at.
EnterPrivate_IgnoresAgents(a) ==
  /\ phase[a] = "verifying"
  /\ IF ~privateActive
     THEN /\ privateActive' = TRUE
          /\ phase' = [phase EXCEPT ![a] = "private"]
          /\ UNCHANGED waitingPrivate
     ELSE /\ waitingPrivate' = Append(waitingPrivate, a)
          /\ phase' = [phase EXCEPT ![a] = "awaitPrivate"]
          /\ UNCHANGED privateActive
  /\ UNCHANGED <<activeAgents, waitingAgents>>

\* enterPrivate: in at once when nothing at all runs.
EnterPrivate(a) ==
  /\ phase[a] = "verifying"
  /\ IF ~privateActive /\ activeAgents = 0
     THEN /\ privateActive' = TRUE
          /\ phase' = [phase EXCEPT ![a] = "private"]
          /\ UNCHANGED waitingPrivate
     ELSE /\ waitingPrivate' = Append(waitingPrivate, a)
          /\ phase' = [phase EXCEPT ![a] = "awaitPrivate"]
          /\ UNCHANGED privateActive
  /\ UNCHANGED <<activeAgents, waitingAgents>>

\* The phase function once the attempts of S have been let in.
Admitted(S, p, ph) == [a \in Attempts |-> IF a \in S THEN p ELSE ph[a]]

\* A slip: the agents are let in although a private phase waits for them.
Drain_AgentsFirst(agents, private, ph) ==
  IF private \/ agents > 0
  THEN /\ activeAgents' = agents /\ privateActive' = private /\ phase' = ph
       /\ UNCHANGED <<waitingAgents, waitingPrivate>>
  ELSE IF waitingAgents = {} /\ waitingPrivate # <<>>
  THEN /\ activeAgents' = agents /\ privateActive' = TRUE
       /\ phase' = Admitted({Head(waitingPrivate)}, "private", ph)
       /\ waitingPrivate' = Tail(waitingPrivate)
       /\ UNCHANGED waitingAgents
  ELSE /\ activeAgents' = agents + Cardinality(waitingAgents)
       /\ privateActive' = private
       /\ phase' = Admitted(waitingAgents, "agent", ph)
       /\ waitingAgents' = {}
       /\ UNCHANGED waitingPrivate

\* drain, with the counters and phases the release has just written: nothing
\* while someone is inside; else the oldest private phase that waits; else
\* every agent that waits.
Drain(agents, private, ph) ==
  \/ /\ private \/ agents > 0
     /\ activeAgents' = agents /\ privateActive' = private /\ phase' = ph
     /\ UNCHANGED <<waitingAgents, waitingPrivate>>
  \/ /\ ~(private \/ agents > 0) /\ waitingPrivate # <<>>
     /\ activeAgents' = agents /\ privateActive' = TRUE
     /\ phase' = Admitted({Head(waitingPrivate)}, "private", ph)
     /\ waitingPrivate' = Tail(waitingPrivate)
     /\ UNCHANGED waitingAgents
  \/ /\ ~(private \/ agents > 0) /\ waitingPrivate = <<>>
     /\ activeAgents' = agents + Cardinality(waitingAgents)
     /\ privateActive' = private
     /\ phase' = Admitted(waitingAgents, "agent", ph)
     /\ waitingAgents' = {}
     /\ UNCHANGED waitingPrivate

\* The release an agent phase was given.  The attempt goes on to verify its
\* work, or is over: its agent failed, timed out, threw or was cancelled.
ReleaseAgent(a, next) ==
  /\ phase[a] = "agent"
  /\ Drain(activeAgents - 1, privateActive, [phase EXCEPT ![a] = next])

\* The release a private phase was given.
ReleasePrivate(a) ==
  /\ phase[a] = "private"
  /\ Drain(activeAgents, FALSE, [phase EXCEPT ![a] = "outside"])

\* The finally block removes the private workspace before it releases: when the
\* removal throws, the release is not called and the phase is kept for ever.
Keep(a) ==
  /\ phase[a] = "private"
  /\ phase' = [phase EXCEPT ![a] = "kept"]
  /\ UNCHANGED <<activeAgents, privateActive, waitingAgents, waitingPrivate>>

\* The attempt ends during public verification or collection.
Leave(a) ==
  /\ phase[a] = "verifying"
  /\ phase' = [phase EXCEPT ![a] = "outside"]
  /\ UNCHANGED <<activeAgents, privateActive, waitingAgents, waitingPrivate>>

PhaseStep(a) ==
  \/ EnterAgent(a)
  \/ \E next \in {"verifying", "outside"} : ReleaseAgent(a, next)
  \/ EnterPrivate(a)
  \/ ReleasePrivate(a)
  \/ Keep(a)
  \/ Leave(a)

PhaseNext == \E a \in Attempts : PhaseStep(a)

PhaseSpec == PhaseInit /\ [][PhaseNext]_pvars

\* Agents and private checks have a timeout, and removing a workspace ends, so
\* whoever is inside leaves or, when the removal fails, keeps its phase; an
\* attempt does not verify for ever.
PhaseFairness ==
  \A a \in Attempts :
    /\ WF_pvars(\E next \in {"verifying", "outside"} : ReleaseAgent(a, next))
    /\ WF_pvars(EnterPrivate(a) \/ Leave(a))
    /\ WF_pvars(ReleasePrivate(a) \/ Keep(a))

FairPhaseSpec == PhaseSpec /\ PhaseFairness
-----------------------------------------------------------------------------
\* The private phases that have not been released, whether they run or were
\* kept by an attempt that is over.
Unreleased == In("private") \cup In("kept")

\* An agent never runs while a private phase does, nor after one was kept, and
\* private phases run one at a time.
PhasesExclude ==
  /\ In("agent") = {} \/ Unreleased = {}
  /\ \A a, b \in Unreleased : a = b

\* The counter and the flag of the coordinator say who is inside.
CountersAgree ==
  /\ activeAgents = Cardinality(In("agent"))
  /\ privateActive <=> Unreleased # {}

\* Every attempt that waits is in the queue a release will look at, once, and
\* someone is inside whose release will look.
NobodyIsForgotten ==
  /\ waitingAgents = In("awaitAgent")
  /\ \A a \in Attempts : phase[a] = "awaitPrivate" <=>
       \E i \in 1 .. Len(waitingPrivate) : waitingPrivate[i] = a
  /\ \A i, j \in 1 .. Len(waitingPrivate) :
       waitingPrivate[i] = waitingPrivate[j] => i = j
  /\ In("awaitAgent") \cup In("awaitPrivate") # {} =>
       privateActive \/ activeAgents > 0

PhaseInv ==
  /\ PhaseTypeOK
  /\ PhasesExclude
  /\ CountersAgree
  /\ NobodyIsForgotten

\* Agents do not starve the private phases: while one waits no agent enters.
PrivateBeforeAgents ==
  [][In("awaitPrivate") # {} =>
       \A a \in Attempts : phase'[a] = "agent" => phase[a] = "agent"]_pvars

\* Every attempt that waits for a phase is let in some day, unless a private
\* phase is kept: that one everybody waits for, for the life of the process.
WaitersEnter ==
  \A a \in Attempts :
    /\ phase[a] = "awaitAgent" ~> (phase[a] = "agent" \/ In("kept") # {})
    /\ phase[a] = "awaitPrivate" ~> (phase[a] = "private" \/ In("kept") # {})
=============================================================================
