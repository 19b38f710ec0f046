----------------------- MODULE PhaseCoordinatorProofs -----------------------
(***************************************************************************)
(* Machine-checked proofs about PhaseCoordinator, for any finite set of    *)
(* attempts: PhaseInv is inductive, so agents and private phases exclude   *)
(* each other and nobody who waits is forgotten.                           *)
(***************************************************************************)
EXTENDS PhaseCoordinator, FiniteSetTheorems, TLAPS

\* Every set of attempts in some phase is finite, and its size is a number.
LEMMA PhasesFinite ==
  ASSUME NEW p
  PROVE  IsFiniteSet(In(p)) /\ Cardinality(In(p)) \in Nat
BY AttemptsAssumption, FS_Subset, FS_CardinalityType DEF In

\* Nobody is inside the agent phase exactly when the counter is zero.
LEMMA NoAgents ==
  ASSUME PhaseTypeOK, CountersAgree
  PROVE  activeAgents = 0 <=> In("agent") = {}
BY PhasesFinite, FS_EmptySet DEF CountersAgree

\* What shifting the queue of private phases does to its positions.
LEMMA QueueShift ==
  ASSUME NEW s \in Seq(Attempts), s # <<>>
  PROVE  /\ Head(s) \in Attempts /\ Head(s) = s[1]
         /\ Tail(s) \in Seq(Attempts)
         /\ Len(s) \in Nat /\ Len(s) >= 1 /\ Len(Tail(s)) = Len(s) - 1
         /\ \A i \in 1 .. Len(s) - 1 : Tail(s)[i] = s[i + 1]
OBVIOUS

\* The drain with nobody left inside and a private phase at the head.
LEMMA AdmitOnePrivate ==
  ASSUME PhaseInv,
         NEW a \in Attempts, NEW to \in {"verifying", "outside"},
         phase[a] \in {"agent", "private"},
         waitingPrivate # <<>>,
         \A b \in Attempts : phase[b] \in {"agent", "private", "kept"} => b = a,
         activeAgents' = 0, privateActive' = TRUE,
         phase' = Admitted({Head(waitingPrivate)}, "private",
                           [phase EXCEPT ![a] = to]),
         waitingPrivate' = Tail(waitingPrivate),
         UNCHANGED waitingAgents
  PROVE  PhaseInv'
<1> DEFINE h == Head(waitingPrivate)
<1> USE DEF PhaseInv, PhaseTypeOK
<1>1. /\ h \in Attempts /\ h = waitingPrivate[1]
      /\ Tail(waitingPrivate) \in Seq(Attempts)
      /\ Len(waitingPrivate) \in Nat /\ Len(waitingPrivate) >= 1
      /\ Len(Tail(waitingPrivate)) = Len(waitingPrivate) - 1
      /\ \A i \in 1 .. Len(waitingPrivate) - 1 :
           Tail(waitingPrivate)[i] = waitingPrivate[i + 1]
  BY QueueShift
<1>2. phase[h] = "awaitPrivate"
  BY <1>1 DEF NobodyIsForgotten
<1>3. phase' = [b \in Attempts |-> IF b = h THEN "private"
                                   ELSE IF b = a THEN to ELSE phase[b]]
  BY <1>2 DEF Admitted
<1>4. PhaseTypeOK'
  <2>1. \A b \in Attempts : phase'[b] \in
          {"outside", "awaitAgent", "agent", "verifying", "awaitPrivate",
           "private", "kept"}
    BY <1>3
  <2>2. phase' \in [Attempts -> {"outside", "awaitAgent", "agent", "verifying",
                                 "awaitPrivate", "private", "kept"}]
    BY <1>3, <2>1
  <2>. QED
    BY <1>1, <2>2
<1>5. In("agent")' = {} /\ Unreleased' = {h}
  BY <1>1, <1>2, <1>3 DEF In, Unreleased
<1>6. PhasesExclude' /\ CountersAgree'
  BY <1>5, FS_EmptySet DEF PhasesExclude, CountersAgree
<1>7. waitingAgents' = In("awaitAgent")'
  BY <1>2, <1>3 DEF NobodyIsForgotten, In
<1>8. \A b \in Attempts : phase'[b] = "awaitPrivate" <=>
        \E i \in 1 .. Len(waitingPrivate') : waitingPrivate'[i] = b
  <2> TAKE b \in Attempts
  <2>1. phase'[b] = "awaitPrivate" <=> phase[b] = "awaitPrivate" /\ b # h
    BY <1>2, <1>3
  <2>2. ASSUME phase[b] = "awaitPrivate", b # h
        PROVE  \E i \in 1 .. Len(waitingPrivate') : waitingPrivate'[i] = b
    <3>1. PICK i \in 1 .. Len(waitingPrivate) : waitingPrivate[i] = b
      BY <2>2 DEF NobodyIsForgotten
    <3>2. i # 1 /\ i - 1 \in 1 .. Len(waitingPrivate')
      BY <1>1, <2>2, <3>1
    <3>3. waitingPrivate'[i - 1] = b
      BY <1>1, <3>1, <3>2
    <3>. QED
      BY <3>2, <3>3
  <2>3. ASSUME NEW i \in 1 .. Len(waitingPrivate'), waitingPrivate'[i] = b
        PROVE  phase[b] = "awaitPrivate" /\ b # h
    <3>1. i + 1 \in 1 .. Len(waitingPrivate) /\ waitingPrivate[i + 1] = b
      BY <1>1, <2>3
    <3>. QED
      BY <1>1, <3>1 DEF NobodyIsForgotten
  <2>. QED
    BY <2>1, <2>2, <2>3
<1>9. \A i, j \in 1 .. Len(waitingPrivate') :
        waitingPrivate'[i] = waitingPrivate'[j] => i = j
  <2>1. ASSUME NEW i \in 1 .. Len(waitingPrivate'),
               NEW j \in 1 .. Len(waitingPrivate'),
               waitingPrivate'[i] = waitingPrivate'[j]
        PROVE  i = j
    <3>1. /\ i + 1 \in 1 .. Len(waitingPrivate)
          /\ j + 1 \in 1 .. Len(waitingPrivate)
          /\ waitingPrivate[i + 1] = waitingPrivate[j + 1]
      BY <1>1, <2>1
    <3>2. i + 1 = j + 1
      BY <3>1 DEF NobodyIsForgotten
    <3>. QED
      BY <1>1, <3>2
  <2>. QED
    BY <2>1
<1>. QED
  BY <1>4, <1>6, <1>7, <1>8, <1>9 DEF NobodyIsForgotten

\* The drain with nobody left inside and no private phase waiting: all the
\* agents that wait enter.
LEMMA AdmitAllAgents ==
  ASSUME PhaseInv,
         NEW a \in Attempts, NEW to \in {"verifying", "outside"},
         phase[a] \in {"agent", "private"},
         waitingPrivate = <<>>,
         \A b \in Attempts : phase[b] \in {"agent", "private", "kept"} => b = a,
         activeAgents' = Cardinality(waitingAgents), privateActive' = FALSE,
         phase' = Admitted(waitingAgents, "agent", [phase EXCEPT ![a] = to]),
         waitingAgents' = {},
         UNCHANGED waitingPrivate
  PROVE  PhaseInv'
<1> USE DEF PhaseInv, PhaseTypeOK
<1>1. waitingAgents = In("awaitAgent") /\ a \notin waitingAgents
  BY DEF NobodyIsForgotten, In
<1>2. phase' = [b \in Attempts |-> IF b \in waitingAgents THEN "agent"
                                   ELSE IF b = a THEN to ELSE phase[b]]
  BY <1>1 DEF Admitted
<1>3. activeAgents' \in Nat
  BY <1>1, PhasesFinite
<1>4. PhaseTypeOK'
  BY <1>2, <1>3
<1>5. In("agent")' = waitingAgents /\ Unreleased' = {}
  BY <1>1, <1>2 DEF In, Unreleased
<1>6. PhasesExclude' /\ CountersAgree'
  BY <1>5 DEF PhasesExclude, CountersAgree
<1>7. \A b \in Attempts : phase[b] # "awaitPrivate"
  BY DEF NobodyIsForgotten
<1>8. In("awaitAgent")' = {} /\ In("awaitPrivate")' = {}
  BY <1>1, <1>2, <1>7 DEF In
<1>9. waitingPrivate' = <<>> /\ 1 .. Len(waitingPrivate') = {}
  <2>1. Len(<<>>) = 0 /\ 1 .. 0 = {}
    OBVIOUS
  <2>. QED
    BY <2>1
<1>10. \A b \in Attempts : phase'[b] # "awaitPrivate"
  BY <1>2, <1>7
<1>11. NobodyIsForgotten'
  BY <1>8, <1>9, <1>10 DEF NobodyIsForgotten
<1>. QED
  BY <1>4, <1>6, <1>11

\* Removing one attempt from a phase, and adding one.
LEMMA OneLeaves ==
  ASSUME NEW p, NEW a \in In(p)
  PROVE  Cardinality(In(p) \ {a}) = Cardinality(In(p)) - 1
BY PhasesFinite, FS_RemoveElement

LEMMA OneJoins ==
  ASSUME NEW p, NEW a, a \notin In(p)
  PROVE  Cardinality(In(p) \cup {a}) = Cardinality(In(p)) + 1
BY PhasesFinite, FS_AddElement

\* A step that moves one attempt between phases and leaves the queues alone
\* keeps the queues right, as long as someone stays inside.
LEMMA QueuesUntouched ==
  ASSUME PhaseInv, NEW a \in Attempts, NEW to,
         phase' = [phase EXCEPT ![a] = to],
         phase[a] \notin {"awaitAgent", "awaitPrivate"},
         to \notin {"awaitAgent", "awaitPrivate"},
         UNCHANGED <<waitingAgents, waitingPrivate>>,
         In("awaitAgent") \cup In("awaitPrivate") # {} =>
           (privateActive \/ activeAgents > 0)'
  PROVE  NobodyIsForgotten'
<1>1. In("awaitAgent")' = In("awaitAgent") /\ In("awaitPrivate")' = In("awaitPrivate")
  BY DEF PhaseInv, PhaseTypeOK, In
<1>2. \A b \in Attempts : phase'[b] = "awaitPrivate" <=> phase[b] = "awaitPrivate"
  BY DEF PhaseInv, PhaseTypeOK
<1>. QED
  BY <1>1, <1>2 DEF PhaseInv, NobodyIsForgotten

\* A step that moves nobody into or out of a phase and keeps the counters
\* keeps them right.
LEMMA CountersUntouched ==
  ASSUME PhaseInv, In("agent")' = In("agent"), Unreleased' = Unreleased,
         UNCHANGED <<activeAgents, privateActive>>
  PROVE  CountersAgree' /\ PhasesExclude'
BY DEF PhaseInv, CountersAgree, PhasesExclude

\* PhaseInv is inductive: one step per action.
LEMMA PhaseInvStep == PhaseInv /\ [PhaseNext]_pvars => PhaseInv'
<1> SUFFICES ASSUME PhaseInv, [PhaseNext]_pvars
             PROVE  PhaseInv'
  OBVIOUS
<1> USE DEF PhaseInv, PhaseTypeOK
<1>1. ASSUME NEW a \in Attempts, EnterAgent(a)
      PROVE  PhaseInv'
  <2>1. CASE ~privateActive /\ waitingPrivate = <<>>
    <3>1. /\ phase' = [phase EXCEPT ![a] = "agent"]
          /\ activeAgents' = activeAgents + 1
          /\ UNCHANGED <<privateActive, waitingAgents, waitingPrivate>>
      BY <1>1, <2>1 DEF EnterAgent
    <3>2. In("agent")' = In("agent") \cup {a} /\ a \notin In("agent")
      BY <1>1, <3>1 DEF EnterAgent, In
    <3>3. Unreleased' = Unreleased /\ Unreleased = {}
      BY <1>1, <2>1, <3>1 DEF EnterAgent, CountersAgree, In, Unreleased
    <3>4. CountersAgree'
      BY <2>1, <3>1, <3>2, <3>3, OneJoins DEF CountersAgree
    <3>5. PhasesExclude'
      BY <3>3 DEF PhasesExclude
    <3>6. NobodyIsForgotten'
      <4>1. (privateActive \/ activeAgents > 0)'
        BY <3>1
      <4>2. phase[a] = "outside"
        BY <1>1 DEF EnterAgent
      <4>. QED
        BY <3>1, <4>1, <4>2, QueuesUntouched
    <3>. QED
      BY <3>1, <3>4, <3>5, <3>6
  <2>2. CASE ~(~privateActive /\ waitingPrivate = <<>>)
    <3>1. /\ phase' = [phase EXCEPT ![a] = "awaitAgent"]
          /\ waitingAgents' = waitingAgents \cup {a}
          /\ UNCHANGED <<activeAgents, privateActive, waitingPrivate>>
      BY <1>1, <2>2 DEF EnterAgent
    <3>2. In("agent")' = In("agent") /\ Unreleased' = Unreleased
      BY <1>1, <3>1 DEF EnterAgent, In, Unreleased
    <3>3. CountersAgree' /\ PhasesExclude'
      BY <3>1, <3>2, CountersUntouched
    <3>4. privateActive \/ activeAgents > 0
      <4>1. CASE waitingPrivate # <<>>
        <5>1. Len(waitingPrivate) \in Nat /\ Len(waitingPrivate) >= 1
          BY <4>1, QueueShift
        <5>2. waitingPrivate[1] \in In("awaitPrivate")
          BY <5>1, <4>1, QueueShift DEF NobodyIsForgotten, In
        <5>. QED
          BY <5>2 DEF NobodyIsForgotten
      <4>. QED
        BY <2>2, <4>1
    <3>5. In("awaitAgent")' = In("awaitAgent") \cup {a}
      BY <3>1 DEF In
    <3>6. \A b \in Attempts : phase'[b] = "awaitPrivate" <=> phase[b] = "awaitPrivate"
      BY <1>1, <3>1 DEF EnterAgent
    <3>7. NobodyIsForgotten'
      BY <3>1, <3>4, <3>5, <3>6 DEF NobodyIsForgotten
    <3>. QED
      BY <3>1, <3>3, <3>7
  <2>. QED
    BY <2>1, <2>2
<1>2. ASSUME NEW a \in Attempts, EnterPrivate(a)
      PROVE  PhaseInv'
  <2>1. CASE ~privateActive /\ activeAgents = 0
    <3>1. /\ phase' = [phase EXCEPT ![a] = "private"]
          /\ privateActive' = TRUE
          /\ UNCHANGED <<activeAgents, waitingAgents, waitingPrivate>>
      BY <1>2, <2>1 DEF EnterPrivate
    <3>2. In("agent") = {} /\ Unreleased = {}
      BY <2>1, NoAgents DEF CountersAgree
    <3>3. In("agent")' = {} /\ Unreleased' = {a}
      BY <1>2, <3>1, <3>2 DEF EnterPrivate, In, Unreleased
    <3>4. CountersAgree' /\ PhasesExclude'
      BY <2>1, <3>1, <3>3, FS_EmptySet DEF CountersAgree, PhasesExclude
    <3>5. NobodyIsForgotten'
      BY <1>2, <3>1, QueuesUntouched DEF EnterPrivate
    <3>. QED
      BY <3>1, <3>4, <3>5
  <2>2. CASE ~(~privateActive /\ activeAgents = 0)
    <3>1. /\ phase' = [phase EXCEPT ![a] = "awaitPrivate"]
          /\ waitingPrivate' = Append(waitingPrivate, a)
          /\ UNCHANGED <<activeAgents, privateActive, waitingAgents>>
      BY <1>2, <2>2 DEF EnterPrivate
    <3>2. /\ In("agent")' = In("agent") /\ Unreleased' = Unreleased
          /\ In("awaitAgent")' = In("awaitAgent")
      BY <1>2, <3>1 DEF EnterPrivate, In, Unreleased
    <3>3. CountersAgree' /\ PhasesExclude'
      BY <3>1, <3>2, CountersUntouched
    <3>4. /\ Len(waitingPrivate) \in Nat
          /\ Len(waitingPrivate') = Len(waitingPrivate) + 1
          /\ waitingPrivate'[Len(waitingPrivate) + 1] = a
          /\ \A i \in 1 .. Len(waitingPrivate) :
               waitingPrivate'[i] = waitingPrivate[i]
      BY <3>1
    <3>5. \A i \in 1 .. Len(waitingPrivate) : waitingPrivate[i] # a
      BY <1>2 DEF EnterPrivate, NobodyIsForgotten
    <3>6. \A b \in Attempts : phase'[b] = "awaitPrivate" <=>
            phase[b] = "awaitPrivate" \/ b = a
      BY <3>1
    <3>7. \A b \in Attempts : phase'[b] = "awaitPrivate" <=>
            \E i \in 1 .. Len(waitingPrivate') : waitingPrivate'[i] = b
      <4> TAKE b \in Attempts
      <4>1. CASE b = a
        BY <3>4, <3>6, <4>1
      <4>2. CASE b # a
        <5>1. ASSUME NEW i \in 1 .. Len(waitingPrivate), waitingPrivate[i] = b
              PROVE  \E j \in 1 .. Len(waitingPrivate') : waitingPrivate'[j] = b
          <6>1. i \in 1 .. Len(waitingPrivate') /\ waitingPrivate'[i] = b
            BY <3>4, <5>1
          <6>. QED
            BY <6>1
        <5>2. ASSUME NEW i \in 1 .. Len(waitingPrivate'), waitingPrivate'[i] = b
              PROVE  \E j \in 1 .. Len(waitingPrivate) : waitingPrivate[j] = b
          <6>1. i \in 1 .. Len(waitingPrivate) /\ waitingPrivate[i] = b
            BY <3>4, <4>2, <5>2
          <6>. QED
            BY <6>1
        <5>. QED
          BY <3>6, <4>2, <5>1, <5>2 DEF NobodyIsForgotten
      <4>. QED
        BY <4>1, <4>2
    <3>8. \A i, j \in 1 .. Len(waitingPrivate') :
            waitingPrivate'[i] = waitingPrivate'[j] => i = j
      BY <3>4, <3>5 DEF NobodyIsForgotten
    <3>9. privateActive' \/ activeAgents' > 0
      BY <2>2, <3>1
    <3>10. NobodyIsForgotten'
      BY <3>1, <3>2, <3>7, <3>8, <3>9 DEF NobodyIsForgotten
    <3>. QED
      BY <3>1, <3>3, <3>10
  <2>. QED
    BY <2>1, <2>2
<1>3. ASSUME NEW a \in Attempts, NEW next \in {"verifying", "outside"},
             ReleaseAgent(a, next)
      PROVE  PhaseInv'
  <2>1. a \in In("agent") /\ activeAgents >= 1 /\ privateActive = FALSE
    <3>1. a \in In("agent") /\ Unreleased = {}
      BY <1>3 DEF ReleaseAgent, PhasesExclude, In
    <3>. QED
      BY <3>1, NoAgents DEF CountersAgree
  <2>2. CASE activeAgents - 1 > 0
    <3>1. /\ phase' = [phase EXCEPT ![a] = next]
          /\ activeAgents' = activeAgents - 1
          /\ UNCHANGED <<privateActive, waitingAgents, waitingPrivate>>
      BY <1>3, <2>1, <2>2 DEF ReleaseAgent, Drain
    <3>2. In("agent")' = In("agent") \ {a} /\ Unreleased' = Unreleased
      BY <1>3, <3>1 DEF ReleaseAgent, In, Unreleased
    <3>3. CountersAgree'
      BY <2>1, <3>1, <3>2, OneLeaves DEF CountersAgree
    <3>4. PhasesExclude'
      BY <3>2 DEF PhasesExclude
    <3>5. NobodyIsForgotten'
      BY <1>3, <2>2, <3>1, QueuesUntouched DEF ReleaseAgent
    <3>. QED
      BY <2>2, <3>1, <3>3, <3>4, <3>5
  <2>3. CASE ~(activeAgents - 1 > 0)
    <3>1. activeAgents - 1 = 0
      BY <2>1, <2>3
    <3>2. In("agent") = {a}
      <4>1. Cardinality(In("agent") \ {a}) = 0
        BY <2>1, <3>1, OneLeaves DEF CountersAgree
      <4>2. IsFiniteSet(In("agent") \ {a})
        BY PhasesFinite, FS_Subset
      <4>3. In("agent") \ {a} = {}
        BY <4>1, <4>2, FS_EmptySet
      <4>. QED
        BY <2>1, <4>3
    <3>3. \A b \in Attempts : phase[b] \in {"agent", "private", "kept"} => b = a
      BY <2>1, <3>2 DEF CountersAgree, In, Unreleased
    <3>4. CASE waitingPrivate # <<>>
      <4>1. /\ activeAgents' = 0 /\ privateActive' = TRUE
            /\ phase' = Admitted({Head(waitingPrivate)}, "private",
                                 [phase EXCEPT ![a] = next])
            /\ waitingPrivate' = Tail(waitingPrivate)
            /\ UNCHANGED waitingAgents
        BY <1>3, <2>1, <3>1, <3>4 DEF ReleaseAgent, Drain
      <4>2. phase[a] \in {"agent", "private"}
        BY <1>3 DEF ReleaseAgent
      <4>. QED
        BY <3>3, <3>4, <4>1, <4>2, AdmitOnePrivate
    <3>5. CASE waitingPrivate = <<>>
      <4>1. /\ activeAgents' = 0 + Cardinality(waitingAgents)
            /\ privateActive' = FALSE
            /\ phase' = Admitted(waitingAgents, "agent",
                                 [phase EXCEPT ![a] = next])
            /\ waitingAgents' = {}
            /\ UNCHANGED waitingPrivate
        BY <1>3, <2>1, <3>1, <3>5 DEF ReleaseAgent, Drain
      <4>2. activeAgents' = Cardinality(waitingAgents)
        BY <4>1, PhasesFinite DEF NobodyIsForgotten
      <4>. QED
        BY <1>3, <3>3, <3>5, <4>1, <4>2, AdmitAllAgents DEF ReleaseAgent
    <3>. QED
      BY <3>4, <3>5
  <2>. QED
    BY <2>2, <2>3
<1>4. ASSUME NEW a \in Attempts, ReleasePrivate(a)
      PROVE  PhaseInv'
  <2>1. In("agent") = {} /\ \A b \in Unreleased : b = a
    <3>1. a \in Unreleased
      BY <1>4 DEF ReleasePrivate, In, Unreleased
    <3>. QED
      BY <3>1 DEF PhasesExclude
  <2>2. activeAgents = 0
    BY <2>1, NoAgents
  <2>3. \A b \in Attempts : phase[b] \in {"agent", "private", "kept"} => b = a
    BY <2>1 DEF In, Unreleased
  <2>4. CASE waitingPrivate # <<>>
    <3>1. /\ activeAgents' = 0 /\ privateActive' = TRUE
          /\ phase' = Admitted({Head(waitingPrivate)}, "private",
                               [phase EXCEPT ![a] = "outside"])
          /\ waitingPrivate' = Tail(waitingPrivate)
          /\ UNCHANGED waitingAgents
      BY <1>4, <2>2, <2>4 DEF ReleasePrivate, Drain
    <3>2. phase[a] \in {"agent", "private"}
      BY <1>4 DEF ReleasePrivate
    <3>. QED
      BY <2>3, <2>4, <3>1, <3>2, AdmitOnePrivate
  <2>5. CASE waitingPrivate = <<>>
    <3>1. /\ activeAgents' = 0 + Cardinality(waitingAgents)
          /\ privateActive' = FALSE
          /\ phase' = Admitted(waitingAgents, "agent",
                               [phase EXCEPT ![a] = "outside"])
          /\ waitingAgents' = {}
          /\ UNCHANGED waitingPrivate
      BY <1>4, <2>2, <2>5 DEF ReleasePrivate, Drain
    <3>2. activeAgents' = Cardinality(waitingAgents)
      BY <3>1, PhasesFinite DEF NobodyIsForgotten
    <3>. QED
      BY <1>4, <2>3, <2>5, <3>1, <3>2, AdmitAllAgents DEF ReleasePrivate
  <2>. QED
    BY <2>4, <2>5
<1>5. ASSUME NEW a \in Attempts, Leave(a)
      PROVE  PhaseInv'
  <2>1. /\ phase' = [phase EXCEPT ![a] = "outside"]
        /\ UNCHANGED <<activeAgents, privateActive, waitingAgents,
                       waitingPrivate>>
    BY <1>5 DEF Leave
  <2>2. In("agent")' = In("agent") /\ Unreleased' = Unreleased
    BY <1>5, <2>1 DEF Leave, In, Unreleased
  <2>3. CountersAgree' /\ PhasesExclude'
    BY <2>1, <2>2, CountersUntouched
  <2>4. NobodyIsForgotten'
    <3>1. In("awaitAgent") \cup In("awaitPrivate") # {} =>
            (privateActive \/ activeAgents > 0)'
      BY <2>1 DEF NobodyIsForgotten
    <3>. QED
      BY <1>5, <2>1, <3>1, QueuesUntouched DEF Leave
  <2>. QED
    BY <2>1, <2>3, <2>4
<1>6. ASSUME NEW a \in Attempts, Keep(a)
      PROVE  PhaseInv'
  <2>1. /\ phase' = [phase EXCEPT ![a] = "kept"]
        /\ UNCHANGED <<activeAgents, privateActive, waitingAgents,
                       waitingPrivate>>
    BY <1>6 DEF Keep
  <2>2. In("agent")' = In("agent") /\ Unreleased' = Unreleased
    BY <1>6, <2>1 DEF Keep, In, Unreleased
  <2>3. CountersAgree' /\ PhasesExclude'
    BY <2>1, <2>2, CountersUntouched
  <2>4. In("awaitAgent") \cup In("awaitPrivate") # {} =>
          (privateActive \/ activeAgents > 0)'
    BY <2>1 DEF NobodyIsForgotten
  <2>5. NobodyIsForgotten'
    BY <1>6, <2>1, <2>4, QueuesUntouched DEF Keep
  <2>. QED
    BY <2>1, <2>3, <2>5
<1>7. CASE UNCHANGED pvars
  BY <1>7 DEF pvars, PhasesExclude, CountersAgree, NobodyIsForgotten, In, Unreleased
<1> HIDE DEF PhaseInv, PhaseTypeOK
<1>. QED
  BY <1>1, <1>2, <1>3, <1>4, <1>5, <1>6, <1>7 DEF PhaseNext, PhaseStep

\* Nobody is moved out of a private phase by what another attempt does.
LEMMA InsideStays ==
  ASSUME PhaseInv, NEW a \in Attempts, NEW b \in Attempts, a # b,
         phase[b] \in {"private", "kept"}, PhaseStep(a)
  PROVE  phase'[b] = phase[b]
<1> USE DEF PhaseInv, PhaseTypeOK
<1>1. CASE EnterAgent(a) \/ EnterPrivate(a) \/ Leave(a) \/ Keep(a)
  BY <1>1 DEF EnterAgent, EnterPrivate, Leave, Keep
<1>2. ASSUME NEW agents, NEW private, NEW to,
             Drain(agents, private, [phase EXCEPT ![a] = to])
      PROVE  phase'[b] = phase[b]
  <2>1. b \notin waitingAgents
    BY DEF NobodyIsForgotten, In
  <2>2. ASSUME waitingPrivate # <<>>
        PROVE  b # Head(waitingPrivate)
    <3>1. Head(waitingPrivate) = waitingPrivate[1] /\ 1 \in 1 .. Len(waitingPrivate)
      BY <2>2, QueueShift
    <3>. QED
      BY <3>1 DEF NobodyIsForgotten
  <2>. QED
    BY <1>2, <2>1, <2>2 DEF Drain, Admitted
<1>. QED
  BY <1>1, <1>2 DEF PhaseStep, ReleaseAgent, ReleasePrivate

\* The coordinator's invariant, with the counters, the queues and the phases.
THEOREM PhaseInvariant == PhaseSpec => []PhaseInv
<1>1. PhaseInit => PhaseInv
  <2> SUFFICES ASSUME PhaseInit PROVE PhaseInv
    OBVIOUS
  <2>1. In("agent") = {} /\ Unreleased = {} /\ In("awaitAgent") = {}
        /\ In("awaitPrivate") = {}
    BY DEF PhaseInit, In, Unreleased
  <2>2. PhaseTypeOK
    <3>1. <<>> \in Seq(Attempts)
      OBVIOUS
    <3>2. [a \in Attempts |-> "outside"] \in
            [Attempts -> {"outside", "awaitAgent", "agent", "verifying",
                          "awaitPrivate", "private", "kept"}]
      OBVIOUS
    <3>. QED
      BY <3>1, <3>2 DEF PhaseInit, PhaseTypeOK
  <2>3. PhasesExclude /\ CountersAgree
    BY <2>1, FS_EmptySet DEF PhaseInit, PhasesExclude, CountersAgree
  <2>4. Len(waitingPrivate) = 0 /\ 1 .. 0 = {}
    BY DEF PhaseInit
  <2>5. NobodyIsForgotten
    BY <2>1, <2>4 DEF PhaseInit, NobodyIsForgotten
  <2>. QED
    BY <2>2, <2>3, <2>5 DEF PhaseInv
<1>. QED
  BY <1>1, PhaseInvStep, PTL DEF PhaseSpec

\* No agent runs while a sibling's private phase does, or after one was kept
\* because its workspace could not be removed.
THEOREM AgentsNeverSeePrivatePhases == PhaseSpec => []PhasesExclude
BY PhaseInvariant, PTL DEF PhaseInv

\* Whoever waits is queued, and someone inside will look at the queue.
THEOREM WaitersAreRemembered == PhaseSpec => []NobodyIsForgotten
BY PhaseInvariant, PTL DEF PhaseInv

\* While a private phase waits, no agent enters.
THEOREM AgentsYieldToPrivate == PhaseSpec => PrivateBeforeAgents
<1>1. PhaseInv /\ [PhaseNext]_pvars =>
        [In("awaitPrivate") # {} =>
           \A a \in Attempts : phase'[a] = "agent" => phase[a] = "agent"]_pvars
  <2> USE DEF PhaseInv, PhaseTypeOK
  <2>1. ASSUME PhaseInv, PhaseNext, In("awaitPrivate") # {},
               NEW b \in Attempts, phase'[b] = "agent"
        PROVE  phase[b] = "agent"
    <3>1. waitingPrivate # <<>>
      <4>1. 1 .. Len(<<>>) = {}
        OBVIOUS
      <4>. QED
        BY <2>1, <4>1 DEF NobodyIsForgotten, In
    <3>2. PICK a \in Attempts : PhaseStep(a)
      BY <2>1 DEF PhaseNext
    <3>3. CASE EnterAgent(a) \/ EnterPrivate(a) \/ Leave(a) \/ Keep(a)
      BY <2>1, <3>1, <3>3 DEF EnterAgent, EnterPrivate, Leave, Keep
    <3>4. ASSUME NEW agents, NEW private, NEW to \in {"verifying", "outside"},
                 Drain(agents, private, [phase EXCEPT ![a] = to])
          PROVE  phase[b] = "agent"
      BY <2>1, <3>1, <3>4 DEF Drain, Admitted
    <3>. QED
      BY <3>2, <3>3, <3>4 DEF PhaseStep, ReleaseAgent, ReleasePrivate
  <2>. QED
    BY <2>1
<1>. QED
  BY <1>1, PhaseInvariant, PTL DEF PhaseSpec, PrivateBeforeAgents
=============================================================================
