--------------------------- MODULE ServiceProofs ---------------------------
(***************************************************************************)
(* Machine-checked proofs about the services around a run: the members,    *)
(* keys and runners of an organization (Organization), its customer        *)
(* (Checkout), its callers' credentials (SignIn), the tokens of its GitHub *)
(* installation (GitHubTokens), its orders (Submission), what GitHub shows *)
(* of its runs (GitHubChecks), the local reports (LocalReports), its       *)
(* public pages (Publishing), the walk through its runs (RunPages) and its *)
(* tasks (Catalogue); for any number of requests, users, plans, runs and   *)
(* limits.  Each theorem is about the specification of one of them.  The   *)
(* first three are instantiated in MCAccount, the others in Services.      *)
(***************************************************************************)
EXTENDS MCAccount, Services, FiniteSetTheorems, SequenceTheorems,
        WellFoundedInduction, TLAPS

(***************************************************************************)
(* The organization.                                                       *)
(*                                                                         *)
(* The bound on the members is not inductive: what a request may add       *)
(* depends on the rows that its SELECT has found.  They are never deleted, *)
(* so the rows that open requests have found are included in one another,  *)
(* and a request stands with all those that have found no more than it.    *)
(* StaleHolds says that the rows it does not know and the requests it      *)
(* stands with are no more than there are requests, or that there is room  *)
(* for all of these.                                                       *)
(***************************************************************************)
N == Cardinality(Requests)

Selected(r) == request[r].at = "selected"

\* The requests whose SELECT has found no more rows than that of r.
Older(r) == {q \in Requests : Selected(q) /\ request[q].seen \subseteq request[r].seen}

\* n is no less than the limit of any plan the organization has had.
AtLeast(n, limit) == \A p \in history : limit[p] <= n

\* Nothing exists before the organization, and its plan is in its history.
Existence ==
  /\ plan = None =>
       /\ \A u \in Users : member[u] = None
       /\ \A k \in Keys : key[k] = "absent"
       /\ \A r \in Requests : request[r] = Idle
       /\ runners = [registered |-> 0, hosted |-> 0] /\ history = {}
  /\ plan # None => plan \in history

\* A request goes by the limit of a plan that the organization has had.
LimitsAreKnown ==
  \A r \in Requests :
    /\ request[r].at \in {"entitled", "selected"} /\ request[r].kind = "member" =>
         \E p \in history : request[r].limit = MaxMembers[p]
    /\ request[r].at = "entitled" /\ request[r].kind = "runner" =>
         \E p \in history : request[r].limit = MaxRunners[p]

\* What has been seen is there, and was seen in some order.
SeenRowsStay ==
  /\ \A r \in Requests : Selected(r) => \A u \in request[r].seen : member[u] # None
  /\ \A q, r \in Requests : Selected(q) /\ Selected(r) =>
       request[q].seen \subseteq request[r].seen \/ request[r].seen \subseteq request[q].seen

HasGreatest(limit) ==
  plan # None => \E p \in history : \A q \in history : limit[q] <= limit[p]

StaleHolds(r, n) ==
  \/ Cardinality(Members \ request[r].seen) + Cardinality(Older(r)) <= N
  \/ Cardinality(Members) + Cardinality(Older(r)) <= n + N - 1

MembersHold(n) ==
  AtLeast(n, MaxMembers) =>
    /\ Cardinality(Members) <= n + N - 1
    /\ \A r \in Requests : Selected(r) => StaleHolds(r, n)

Counted == {r \in Requests : request[r].at = "counted"}

RunnersHold(n) ==
  AtLeast(n, MaxRunners) => runners.registered + Cardinality(Counted) <= n + N - 1

OrganizationInv ==
  /\ TypeOK /\ Existence /\ LimitsAreKnown /\ SeenRowsStay
  /\ HasGreatest(MaxMembers) /\ HasGreatest(MaxRunners)

ExcessInv == \A n \in Nat : MembersHold(n) /\ RunnersHold(n)
-----------------------------------------------------------------------------
LEMMA RequestForms ==
  ASSUME TypeOK, NEW r \in Requests
  PROVE  /\ request[r].at \in {"idle", "authorized", "entitled", "selected", "counted"}
         /\ request[r].at = "idle" => request[r] = Idle
         /\ request[r].at # "idle" => request[r].kind \in {"member", "runner", "key"}
         /\ request[r].at # "idle" /\ request[r].kind = "member" =>
              request[r].user \in Users /\ request[r].row \in Assigned
         /\ request[r].at = "entitled" /\ request[r].kind \in {"member", "runner"} =>
              request[r].limit \in Nat
         /\ request[r].at = "selected" =>
              /\ request[r].kind = "member" /\ request[r].limit \in Nat
              /\ request[r].seen \in SUBSET Users
         /\ request[r].at = "counted" => request[r].kind = "runner"
<1>1. request[r] \in RequestStates BY DEF TypeOK
<1>2. QED BY <1>1 DEF RequestStates, Idle

LEMMA Becomes ==
  ASSUME TypeOK, NEW r \in Requests, NEW next \in RequestStates, Become(r, next)
  PROVE  /\ request' \in [Requests -> RequestStates]
         /\ request'[r] = next
         /\ \A q \in Requests \ {r} : request'[q] = request[q]
BY DEF Become, TypeOK

\* A caller who is authorized is a member of the organization, or has its key.
LEMMA CallersBelong ==
  ASSUME Existence, NEW permission,
         Authorized(permission) \/ \E u \in Users : UserAuthorized(u, permission)
  PROVE  plan # None
BY DEF Existence, Authorized, UserAuthorized, KeyAuthorized, Active

LEMMA OrganizationInit == Init => OrganizationInv
BY OrganizationAssumption
   DEF Init, OrganizationInv, TypeOK, Existence, LimitsAreKnown, SeenRowsStay, HasGreatest,
       RequestStates, Idle, Selected

\* Steps that no request takes.
LEMMA OthersKeepOrganization ==
  ASSUME OrganizationInv,
         \/ \E u \in Users : CreateOrganization(u)
         \/ \E p \in Plans : SetPlan(p)
         \/ RevokeRunner \/ ProvisionHosted \/ RetireHosted
         \/ \E k \in Keys : RevokeApiKey(k)
  PROVE  OrganizationInv'
<1> USE DEF OrganizationInv
<1>1. ASSUME NEW u \in Users, CreateOrganization(u) PROVE OrganizationInv'
  <2>1. [role |-> "OWNER", state |-> "ACTIVE"] \in Rows BY DEF Rows
  <2>2. TypeOK'
    BY <1>1, <2>1, OrganizationAssumption DEF CreateOrganization, TypeOK
  <2>3. \A r \in Requests : request'[r] = Idle
    BY <1>1 DEF CreateOrganization, Existence
  <2>4. Existence' /\ LimitsAreKnown' /\ SeenRowsStay'
    BY <1>1, <2>3, OrganizationAssumption
       DEF CreateOrganization, Existence, LimitsAreKnown, SeenRowsStay, Selected, Idle
  <2>5. HasGreatest(MaxMembers)' /\ HasGreatest(MaxRunners)'
    BY <1>1, OrganizationAssumption DEF CreateOrganization, HasGreatest
  <2>6. QED BY <2>2, <2>4, <2>5
<1>2. ASSUME NEW p \in Plans, SetPlan(p) PROVE OrganizationInv'
  <2>1. TypeOK' /\ Existence' /\ LimitsAreKnown' /\ SeenRowsStay'
    BY <1>2, OrganizationAssumption
       DEF SetPlan, TypeOK, Existence, LimitsAreKnown, SeenRowsStay, Selected
  <2>2. ASSUME NEW limit \in [Plans -> Nat], HasGreatest(limit) PROVE HasGreatest(limit)'
    <3>1. PICK g \in history : \A q \in history : limit[q] <= limit[g]
      BY <1>2, <2>2 DEF SetPlan, HasGreatest
    <3>2. history \subseteq Plans /\ history' = history \cup {p}
      BY <1>2 DEF SetPlan, TypeOK
    <3>3. CASE limit[p] <= limit[g] BY <3>1, <3>2, <3>3 DEF HasGreatest
    <3>4. CASE ~ limit[p] <= limit[g]
      <4>1. \A q \in history' : limit[q] <= limit[p] BY <3>1, <3>2, <3>4
      <4>2. QED BY <3>2, <4>1 DEF HasGreatest
    <3>5. QED BY <3>3, <3>4
  <2>3. MaxMembers \in [Plans -> Nat] /\ MaxRunners \in [Plans -> Nat]
    BY OrganizationAssumption
  <2>4. QED BY <2>1, <2>2, <2>3
<1>3. CASE RevokeRunner \/ ProvisionHosted \/ RetireHosted
  <2>1. plan # None
    BY <1>3, CallersBelong DEF RevokeRunner, ProvisionHosted, RetireHosted, OrganizationInv, Existence
  <2>2. UNCHANGED <<plan, member, key, request, history>>
    BY <1>3 DEF RevokeRunner, ProvisionHosted, RetireHosted
  <2>3. runners' \in [registered : Nat, hosted : Nat]
    BY <1>3 DEF RevokeRunner, ProvisionHosted, RetireHosted, OrganizationInv, TypeOK
  <2>4. QED
    BY <2>1, <2>2, <2>3
       DEF TypeOK, Existence, LimitsAreKnown, SeenRowsStay, Selected, HasGreatest
<1>4. ASSUME NEW k \in Keys, RevokeApiKey(k) PROVE OrganizationInv'
  <2>1. plan # None BY <1>4, CallersBelong DEF RevokeApiKey
  <2>2. QED
    BY <1>4, <2>1
       DEF RevokeApiKey, TypeOK, Existence, LimitsAreKnown, SeenRowsStay, Selected,
           HasGreatest
<1>5. QED BY <1>1, <1>2, <1>3, <1>4

\* The steps of a request that change no row.
LEMMA RequestStepKeepsOrganization ==
  ASSUME OrganizationInv, plan # None, NEW r \in Requests,
         request' \in [Requests -> RequestStates],
         \A q \in Requests \ {r} : request'[q] = request[q],
         request'[r].at # "selected",
         request'[r].at = "entitled" =>
           /\ request'[r].kind = "member" =>
                \E p \in history : request'[r].limit = MaxMembers[p]
           /\ request'[r].kind = "runner" =>
                \E p \in history : request'[r].limit = MaxRunners[p],
         UNCHANGED <<plan, member, key, history>>, runners' \in [registered : Nat, hosted : Nat]
  PROVE  OrganizationInv'
<1>1. TypeOK' BY DEF OrganizationInv, TypeOK
<1>2. Existence' /\ HasGreatest(MaxMembers)' /\ HasGreatest(MaxRunners)'
  BY DEF OrganizationInv, Existence, HasGreatest
<1>3. LimitsAreKnown' BY DEF OrganizationInv, LimitsAreKnown
<1>4. SeenRowsStay' BY DEF OrganizationInv, SeenRowsStay, Selected
<1>5. QED BY <1>1, <1>2, <1>3, <1>4 DEF OrganizationInv

LEMMA PostsKeepOrganization ==
  ASSUME OrganizationInv, NEW r \in Requests,
         \/ \E u \in Users, row \in Assigned : PutMembership(r, u, row)
         \/ PostRunner(r) \/ PostKey(r)
  PROVE  OrganizationInv'
<1> DEFINE Post(next) ==
      /\ Become(r, next) /\ next \in RequestStates /\ next.at = "authorized"
<1>1. plan # None
  BY CallersBelong DEF OrganizationInv, PutMembership, PostRunner, PostKey
<1>2. ASSUME NEW next, Post(next), UNCHANGED <<plan, member, key, runners, history>>
      PROVE  OrganizationInv'
  <2>1. TypeOK /\ Become(r, next) /\ next \in RequestStates BY <1>2 DEF OrganizationInv
  <2>2. /\ request' \in [Requests -> RequestStates] /\ request'[r] = next
        /\ \A q \in Requests \ {r} : request'[q] = request[q]
    BY <2>1, Becomes
  <2>3. runners' \in [registered : Nat, hosted : Nat] BY <1>2 DEF OrganizationInv, TypeOK
  <2>4. request'[r].at = "authorized" BY <1>2, <2>2
  <2>5. QED BY <1>1, <1>2, <2>2, <2>3, <2>4, RequestStepKeepsOrganization
<1>3. ASSUME NEW u \in Users, NEW row \in Assigned, PutMembership(r, u, row)
      PROVE  OrganizationInv'
  <2>1. Post([at |-> "authorized", kind |-> "member", user |-> u, row |-> row])
    BY <1>3 DEF PutMembership, RequestStates
  <2>2. QED BY <1>2, <1>3, <2>1 DEF PutMembership
<1>4. CASE PostRunner(r)
  <2>1. Post([at |-> "authorized", kind |-> "runner"])
    BY <1>4 DEF PostRunner, RequestStates
  <2>2. QED BY <1>2, <1>4, <2>1 DEF PostRunner
<1>5. CASE PostKey(r)
  <2>1. Post([at |-> "authorized", kind |-> "key"])
    BY <1>5 DEF PostKey, RequestStates
  <2>2. QED BY <1>2, <1>5, <2>1 DEF PostKey
<1>6. QED BY <1>3, <1>4, <1>5

\* Somebody who makes a request has an organization.
LEMMA RequestsBelong ==
  ASSUME OrganizationInv, NEW r \in Requests, request[r] # Idle
  PROVE  plan # None /\ plan \in history /\ plan \in Plans
BY DEF OrganizationInv, Existence, TypeOK

LEMMA EntitlementsKeepOrganization ==
  ASSUME OrganizationInv, NEW r \in Requests, Entitlements(r)
  PROVE  OrganizationInv'
<1>1. /\ request[r].at = "authorized" /\ TypeOK
      /\ UNCHANGED <<plan, member, key, runners, history>>
  BY DEF Entitlements, OrganizationInv
<1>2. request[r] # Idle BY <1>1 DEF Idle
<1>3. plan # None /\ plan \in history /\ plan \in Plans BY <1>2, RequestsBelong
<1>4. MaxMembers[plan] \in Nat /\ MaxRunners[plan] \in Nat
  BY <1>3, OrganizationAssumption
<1>5. runners' \in [registered : Nat, hosted : Nat] BY <1>1 DEF TypeOK
<1>6. CASE request[r].kind = "member"
  <2> DEFINE next == [at |-> "entitled", kind |-> "member", user |-> request[r].user,
                      row |-> request[r].row, limit |-> MaxMembers[plan]]
  <2>1. next \in RequestStates BY <1>1, <1>4, <1>6, RequestForms DEF RequestStates
  <2>2. Become(r, next) BY <1>6 DEF Entitlements
  <2>3. /\ request' \in [Requests -> RequestStates] /\ request'[r] = next
        /\ \A q \in Requests \ {r} : request'[q] = request[q]
    BY <1>1, <2>1, <2>2, Becomes
  <2>4. /\ request'[r].at = "entitled" /\ request'[r].kind = "member"
        /\ request'[r].limit = MaxMembers[plan]
    BY <2>3
  <2> HIDE DEF next
  <2>5. QED BY <1>1, <1>3, <1>5, <2>3, <2>4, RequestStepKeepsOrganization
<1>7. CASE request[r].kind = "runner"
  <2> DEFINE next == [at |-> "entitled", kind |-> "runner", limit |-> MaxRunners[plan]]
  <2>1. next \in RequestStates BY <1>4 DEF RequestStates
  <2>2. Become(r, next) BY <1>7 DEF Entitlements
  <2>3. /\ request' \in [Requests -> RequestStates] /\ request'[r] = next
        /\ \A q \in Requests \ {r} : request'[q] = request[q]
    BY <1>1, <2>1, <2>2, Becomes
  <2>4. /\ request'[r].at = "entitled" /\ request'[r].kind = "runner"
        /\ request'[r].limit = MaxRunners[plan]
    BY <2>3
  <2> HIDE DEF next
  <2>5. QED BY <1>1, <1>3, <1>5, <2>3, <2>4, RequestStepKeepsOrganization
<1>8. CASE request[r].kind = "key"
  <2> DEFINE next == IF plan \in ApiAccess THEN [at |-> "entitled", kind |-> "key"] ELSE Idle
  <2>1. next \in RequestStates BY DEF RequestStates
  <2>2. Become(r, next) BY <1>8 DEF Entitlements
  <2>3. /\ request' \in [Requests -> RequestStates] /\ request'[r] = next
        /\ \A q \in Requests \ {r} : request'[q] = request[q]
    BY <1>1, <2>1, <2>2, Becomes
  <2>4. /\ request'[r].at # "selected"
        /\ request'[r].at = "entitled" => request'[r].kind = "key"
    BY <2>3 DEF Idle
  <2> HIDE DEF next
  <2>5. QED BY <1>1, <1>3, <1>5, <2>3, <2>4, RequestStepKeepsOrganization
<1>9. QED BY <1>1, <1>2, <1>6, <1>7, <1>8, RequestForms

\* The SELECT finds all rows that are there, so no less than others have found.
LEMMA SelectKeepsOrganization ==
  ASSUME OrganizationInv, NEW r \in Requests, SelectMembers(r)
  PROVE  /\ OrganizationInv'
         /\ Selected(r)' /\ request'[r].seen = {u \in Users : member[u] # None}
         /\ \A q \in Requests \ {r} : request'[q] = request[q]
<1> DEFINE rows == {u \in Users : member[u] # None}
           next == [at |-> "selected", kind |-> "member", user |-> request[r].user,
                    row |-> request[r].row, limit |-> request[r].limit, seen |-> rows]
<1>1. /\ request[r].at = "entitled" /\ request[r].kind = "member" /\ TypeOK
      /\ Become(r, next) /\ UNCHANGED <<plan, member, key, runners, history>>
  BY DEF SelectMembers, OrganizationInv
<1>2. next \in RequestStates BY <1>1, RequestForms DEF RequestStates
<1>3. /\ request' \in [Requests -> RequestStates] /\ request'[r] = next
      /\ \A q \in Requests \ {r} : request'[q] = request[q]
  BY <1>1, <1>2, Becomes
<1>4. /\ request'[r].at = "selected" /\ request'[r].limit = request[r].limit
      /\ request'[r].seen = rows
  BY <1>3
<1> HIDE DEF next
<1>5. plan # None
  BY <1>1, RequestsBelong DEF Idle
<1>6. TypeOK' BY <1>1, <1>3 DEF TypeOK
<1>7. Existence' /\ HasGreatest(MaxMembers)' /\ HasGreatest(MaxRunners)'
  BY <1>1, <1>5 DEF OrganizationInv, Existence, HasGreatest
<1>8. LimitsAreKnown'
  BY <1>1, <1>3, <1>4 DEF OrganizationInv, LimitsAreKnown
<1>9. SeenRowsStay'
  <2>1. \A q \in Requests \ {r} : Selected(q) => request[q].seen \subseteq rows
    BY <1>1, RequestForms DEF OrganizationInv, SeenRowsStay, Selected
  <2>2. QED BY <1>1, <1>3, <1>4, <2>1 DEF OrganizationInv, SeenRowsStay, Selected
<1>10. QED BY <1>3, <1>4, <1>6, <1>7, <1>8, <1>9 DEF OrganizationInv, Selected

LEMMA MembershipKeepsOrganization ==
  ASSUME OrganizationInv, NEW r \in Requests, SetMembership(r)
  PROVE  /\ OrganizationInv'
         /\ ~ Selected(r)' /\ \A q \in Requests \ {r} : request'[q] = request[q]
<1>1. /\ request[r].at = "selected" /\ TypeOK
      /\ Become(r, Idle) /\ UNCHANGED <<plan, key, runners, history>>
      /\ member' = member \/ member' = [member EXCEPT ![request[r].user] = request[r].row]
  BY DEF SetMembership, OrganizationInv
<1>2. Idle \in RequestStates BY DEF RequestStates
<1>3. /\ request' \in [Requests -> RequestStates] /\ request'[r] = Idle
      /\ \A q \in Requests \ {r} : request'[q] = request[q]
  BY <1>1, <1>2, Becomes
<1>4. request'[r].at = "idle" BY <1>3 DEF Idle
<1>5. plan # None BY <1>1, RequestsBelong DEF Idle
<1>6. request[r].user \in Users /\ request[r].row \in Rows
  BY <1>1, RequestForms, OrganizationAssumption
<1>7. member' \in [Users -> Rows \cup {None}] BY <1>1, <1>6 DEF TypeOK
<1>8. \A u \in Users : member[u] # None => member'[u] # None
  <2>1. request[r].row # None BY <1>6, OrganizationAssumption
  <2>2. QED BY <1>1, <2>1 DEF TypeOK
<1>9. TypeOK' BY <1>1, <1>3, <1>7 DEF TypeOK
<1>10. Existence' /\ HasGreatest(MaxMembers)' /\ HasGreatest(MaxRunners)'
  BY <1>1, <1>5 DEF OrganizationInv, Existence, HasGreatest
<1>11. LimitsAreKnown'
  BY <1>1, <1>3, <1>4 DEF OrganizationInv, LimitsAreKnown
<1>12. SeenRowsStay'
  BY <1>3, <1>4, <1>8, <1>1, RequestForms DEF OrganizationInv, SeenRowsStay, Selected
<1>13. QED BY <1>3, <1>4, <1>9, <1>10, <1>11, <1>12 DEF OrganizationInv, Selected

LEMMA RunnersAndKeysKeepOrganization ==
  ASSUME OrganizationInv, NEW r \in Requests,
         \/ CountRunners(r) \/ RegisterRunner(r)
         \/ \E k \in Keys : CreateApiKey(r, k)
  PROVE  OrganizationInv'
<1> DEFINE Next1(next) == Become(r, next) /\ next \in RequestStates
                          /\ next.at \in {"idle", "counted"}
<1>1. Idle \in RequestStates /\ Idle.at = "idle" BY DEF RequestStates, Idle
<1>2. TypeOK BY DEF OrganizationInv
<1>3. ASSUME NEW next, Next1(next)
      PROVE  /\ request' \in [Requests -> RequestStates]
             /\ request'[r].at \in {"idle", "counted"}
             /\ \A q \in Requests \ {r} : request'[q] = request[q]
  BY <1>2, <1>3, Becomes
<1>4. plan # None
  <2>1. request[r].at # "idle" BY DEF CountRunners, RegisterRunner, CreateApiKey
  <2>2. QED BY <2>1, RequestsBelong DEF Idle
<1>5. CASE CountRunners(r)
  <2> DEFINE next == IF runners.registered + runners.hosted >= request[r].limit
                     THEN Idle ELSE [at |-> "counted", kind |-> "runner"]
  <2>1. next \in RequestStates /\ next.at \in {"idle", "counted"}
    BY <1>1 DEF RequestStates
  <2>2. Next1(next) BY <1>5, <2>1 DEF CountRunners
  <2>3. runners' \in [registered : Nat, hosted : Nat] BY <1>2, <1>5 DEF CountRunners, TypeOK
  <2> HIDE DEF next, Next1
  <2>4. QED BY <1>3, <1>4, <1>5, <2>2, <2>3, RequestStepKeepsOrganization DEF CountRunners
<1>6. CASE RegisterRunner(r)
  <2>1. Next1(Idle) BY <1>1, <1>6 DEF RegisterRunner
  <2>2. runners' \in [registered : Nat, hosted : Nat] BY <1>2, <1>6 DEF RegisterRunner, TypeOK
  <2> HIDE DEF Next1
  <2>3. QED BY <1>3, <1>4, <1>6, <2>1, <2>2, RequestStepKeepsOrganization DEF RegisterRunner
<1>7. ASSUME NEW k \in Keys, CreateApiKey(r, k) PROVE OrganizationInv'
  <2>1. Next1(Idle) BY <1>1, <1>7 DEF CreateApiKey
  <2>2. /\ request' \in [Requests -> RequestStates]
        /\ request'[r].at \in {"idle", "counted"}
        /\ \A q \in Requests \ {r} : request'[q] = request[q]
    BY <1>3, <2>1
  <2>3. key' \in [Keys -> {"absent", "active", "revoked"}]
    BY <1>2, <1>7 DEF CreateApiKey, TypeOK
  <2>4. UNCHANGED <<plan, member, runners, history>> BY <1>7 DEF CreateApiKey
  <2>5. TypeOK' BY <1>2, <2>2, <2>3, <2>4 DEF TypeOK
  <2>6. Existence' /\ HasGreatest(MaxMembers)' /\ HasGreatest(MaxRunners)'
    BY <1>4, <2>4 DEF OrganizationInv, Existence, HasGreatest
  <2>7. LimitsAreKnown' /\ SeenRowsStay'
    BY <2>2, <2>4 DEF OrganizationInv, LimitsAreKnown, SeenRowsStay, Selected
  <2>8. QED BY <2>5, <2>6, <2>7 DEF OrganizationInv
<1>8. QED BY <1>5, <1>6, <1>7

LEMMA OrganizationStep == OrganizationInv /\ [Next]_vars => OrganizationInv'
<1> SUFFICES ASSUME OrganizationInv, [Next]_vars PROVE OrganizationInv'
  OBVIOUS
<1>1. CASE UNCHANGED vars
  BY <1>1 DEF vars, OrganizationInv, TypeOK, Existence, LimitsAreKnown, SeenRowsStay, Selected,
     HasGreatest
<1>2. CASE Next
  BY <1>2, OthersKeepOrganization, PostsKeepOrganization, EntitlementsKeepOrganization,
     SelectKeepsOrganization, MembershipKeepsOrganization, RunnersAndKeysKeepOrganization
     DEF Next
<1>3. QED BY <1>1, <1>2

LEMMA OrganizationAlways == Spec => []OrganizationInv
BY OrganizationInit, OrganizationStep, PTL DEF Spec

\* The variables of Organization keep their types.
THEOREM TypesAreKept == Spec => []TypeOK
<1>1. OrganizationInv => TypeOK BY DEF OrganizationInv
<1>2. QED BY <1>1, OrganizationAlways, PTL

\* An organization loses its last owner only to a request whose SELECT had
\* begun before that owner's row was inserted, since it locks all the others.
THEOREM OwnersAreLostUnseen == Spec => OnlyAnUnseenOwnerIsLost
<1>1. ASSUME OrganizationInv, [Next]_vars, Owners # {}, Owners' = {}
      PROVE  \E r \in Requests : /\ request[r].at = "selected"
                                 /\ request'[r].at = "idle"
                                 /\ request[r].user \notin request[r].seen
  <2>1. TypeOK /\ plan # None
    BY <1>1 DEF OrganizationInv, Existence, Owners, Owner, Active
  <2>2. PICK o \in Users : Owner(o) BY <1>1 DEF Owners
  <2>3. PICK r \in Requests : SetMembership(r)
    <3>1. member' # member BY <1>1, <2>2 DEF Owners, Owner, Active
    <3>2. QED
      BY <1>1, <2>1, <3>1
         DEF Next, vars, CreateOrganization, SetPlan, RevokeRunner, ProvisionHosted, RetireHosted,
             RevokeApiKey, PutMembership, Entitlements, SelectMembers, PostRunner, CountRunners,
             RegisterRunner, PostKey, CreateApiKey
  <2>4. request[r].at = "selected" /\ Become(r, Idle) BY <2>3 DEF SetMembership
  <2>5. request'[r].at = "idle" BY <2>1, <2>4 DEF Become, Idle, TypeOK
  <2>6. ASSUME request[r].user \in request[r].seen PROVE FALSE
    <3> DEFINE q == request[r]
    <3>1. /\ ~ RemovesLastOwner(q) /\ member' = [member EXCEPT ![q.user] = q.row]
      BY <1>1, <2>2, <2>3 DEF SetMembership, Owners, Owner, Active
    <3>2. q.user \in Users /\ q.seen \subseteq Users
      BY <2>1, <2>4, RequestForms
    <3>3. \A u \in Users \ {q.user} : member'[u] = member[u] BY <2>1, <3>1 DEF TypeOK
    <3>4. Owners = {q.user}
      BY <1>1, <2>2, <3>2, <3>3 DEF Owners, Owner, Active
    <3>5. q.row # [role |-> "OWNER", state |-> "ACTIVE"]
      <4>1. SUFFICES ASSUME q.row = [role |-> "OWNER", state |-> "ACTIVE"] PROVE FALSE
        OBVIOUS
      <4>2. member'[q.user] = q.row BY <2>1, <3>1, <3>2 DEF TypeOK
      <4>3. [role |-> "OWNER", state |-> "ACTIVE"] # None
        BY OrganizationAssumption DEF Rows
      <4>4. q.user \in Owners' BY <4>1, <4>2, <4>3, <3>2 DEF Owners, Owner, Active
      <4>5. QED BY <1>1, <4>4
    <3>6. q.seen \cap Owners = {q.user} BY <2>6, <3>4
    <3>7. Cardinality(q.seen \cap Owners) = 1 BY <3>6, FS_Singleton
    <3>8. QED BY <2>6, <3>1, <3>4, <3>5, <3>7 DEF RemovesLastOwner
  <2>7. QED BY <2>4, <2>5, <2>6
<1>2. OrganizationInv /\ [Next]_vars =>
        [Owners # {} /\ Owners' = {} =>
           \E r \in Requests : /\ request[r].at = "selected"
                               /\ request'[r].at = "idle"
                               /\ request[r].user \notin request[r].seen]_vars
  BY <1>1
<1>3. QED BY <1>2, OrganizationAlways, PTL DEF Spec, OnlyAnUnseenOwnerIsLost

-----------------------------------------------------------------------------
LEMMA FiniteCounts ==
  /\ N \in Nat /\ N > 0
  /\ IsFiniteSet(Members) /\ Cardinality(Members) \in Nat
  /\ \A r \in Requests :
       /\ IsFiniteSet(Members \ request[r].seen)
       /\ Cardinality(Members \ request[r].seen) \in Nat
       /\ IsFiniteSet(Older(r)) /\ Cardinality(Older(r)) \in 0 .. N
  /\ IsFiniteSet(Counted) /\ Cardinality(Counted) \in 0 .. N
<1>1. N \in Nat /\ N > 0
  BY OrganizationAssumption, FS_CardinalityType, FS_EmptySet DEF N
<1>2. ASSUME NEW T \in SUBSET Requests PROVE IsFiniteSet(T) /\ Cardinality(T) \in 0 .. N
  <2>1. IsFiniteSet(T) /\ Cardinality(T) <= Cardinality(Requests)
    BY OrganizationAssumption, FS_Subset
  <2>2. Cardinality(T) \in Nat BY <2>1, FS_CardinalityType
  <2>3. QED BY <1>1, <2>1, <2>2 DEF N
<1>3. ASSUME NEW T \in SUBSET Users PROVE IsFiniteSet(T) /\ Cardinality(T) \in Nat
  BY OrganizationAssumption, FS_Subset, FS_CardinalityType
<1>4. Members \in SUBSET Users /\ Counted \in SUBSET Requests
  BY DEF Members, Counted
<1>5. \A r \in Requests : /\ Members \ request[r].seen \in SUBSET Users
                          /\ Older(r) \in SUBSET Requests
  BY <1>4 DEF Older
<1>6. QED BY <1>1, <1>2, <1>3, <1>4, <1>5

\* The bound is not endangered while members only go and requests only end.
LEMMA FewerMembersHold ==
  ASSUME OrganizationInv, ExcessInv, NEW n \in Nat,
         history \subseteq history', Members' \subseteq Members,
         \A q \in Requests : Selected(q)' => Selected(q) /\ request'[q].seen = request[q].seen
  PROVE  MembersHold(n)'
<1> SUFFICES ASSUME AtLeast(n, MaxMembers)' PROVE
      /\ Cardinality(Members') <= n + N - 1
      /\ \A r \in Requests : Selected(r)' => StaleHolds(r, n)'
  BY DEF MembersHold, N
<1>1. AtLeast(n, MaxMembers) BY DEF AtLeast
<1>2. /\ Cardinality(Members) <= n + N - 1
      /\ \A r \in Requests : Selected(r) => StaleHolds(r, n)
  BY <1>1 DEF ExcessInv, MembersHold
<1>3. /\ Cardinality(Members') <= Cardinality(Members)
      /\ Cardinality(Members') \in Nat /\ Cardinality(Members) \in Nat
  BY FiniteCounts, FS_Subset, FS_CardinalityType
<1>4. N \in Nat BY FiniteCounts
<1>5. ASSUME NEW r \in Requests, Selected(r)' PROVE StaleHolds(r, n)'
  <2>1. Selected(r) /\ request'[r].seen = request[r].seen BY <1>5
  <2>2. /\ Cardinality(Older(r)') <= Cardinality(Older(r))
        /\ Cardinality(Older(r)') \in Nat /\ Cardinality(Older(r)) \in Nat
    <3>1. Older(r)' \subseteq Older(r) BY <2>1 DEF Older
    <3>2. QED BY <3>1, FiniteCounts, FS_Subset, FS_CardinalityType
  <2>3. /\ Cardinality(Members' \ request'[r].seen) <= Cardinality(Members \ request[r].seen)
        /\ Cardinality(Members' \ request'[r].seen) \in Nat
        /\ Cardinality(Members \ request[r].seen) \in Nat
    <3>1. Members' \ request'[r].seen \subseteq Members \ request[r].seen BY <2>1
    <3>2. QED BY <3>1, FiniteCounts, FS_Subset, FS_CardinalityType
  <2>4. StaleHolds(r, n) BY <1>2, <2>1
  <2>5. QED BY <1>3, <1>4, <2>2, <2>3, <2>4 DEF StaleHolds, N
<1>6. QED BY <1>2, <1>3, <1>4, <1>5

LEMMA FewerRunnersHold ==
  ASSUME OrganizationInv, OrganizationInv', ExcessInv, NEW n \in Nat,
         history \subseteq history', runners'.registered <= runners.registered, Counted' \subseteq Counted
  PROVE  RunnersHold(n)'
<1> SUFFICES ASSUME AtLeast(n, MaxRunners)'
             PROVE  runners'.registered + Cardinality(Counted') <= n + N - 1
  BY DEF RunnersHold, N
<1>1. AtLeast(n, MaxRunners) BY DEF AtLeast
<1>2. runners.registered + Cardinality(Counted) <= n + N - 1
  BY <1>1 DEF ExcessInv, RunnersHold
<1>3. /\ Cardinality(Counted') <= Cardinality(Counted)
      /\ Cardinality(Counted') \in Nat /\ Cardinality(Counted) \in Nat
  BY FiniteCounts, FS_Subset, FS_CardinalityType
<1>4. runners.registered \in Nat /\ runners'.registered \in Nat /\ N \in Nat
  BY FiniteCounts DEF OrganizationInv, TypeOK
<1>5. QED BY <1>2, <1>3, <1>4

\* A request that has just looked knows all rows.
LEMMA SelectKeepsExcess ==
  ASSUME OrganizationInv, ExcessInv, NEW r \in Requests, SelectMembers(r), NEW n \in Nat
  PROVE  MembersHold(n)'
<1>1. /\ Selected(r)' /\ request'[r].seen = {u \in Users : member[u] # None}
      /\ \A q \in Requests \ {r} : request'[q] = request[q]
  BY SelectKeepsOrganization
<1>2. /\ UNCHANGED <<member, history>> /\ Members' = Members
  BY DEF SelectMembers, Members, Active
<1> SUFFICES ASSUME AtLeast(n, MaxMembers)' PROVE
      /\ Cardinality(Members') <= n + N - 1
      /\ \A q \in Requests : Selected(q)' => StaleHolds(q, n)'
  BY DEF MembersHold, N
<1>3. AtLeast(n, MaxMembers) BY <1>2 DEF AtLeast
<1>4. /\ Cardinality(Members) <= n + N - 1
      /\ \A q \in Requests : Selected(q) => StaleHolds(q, n)
  BY <1>3 DEF ExcessInv, MembersHold
<1>5. ASSUME NEW q \in Requests, Selected(q)' PROVE StaleHolds(q, n)'
  <2>1. CASE r \notin Older(q)'
    <3>1. q # r BY <1>1, <1>5, <2>1 DEF Older
    <3>2. request'[q] = request[q] /\ Selected(q) BY <1>1, <1>5, <3>1 DEF Selected
    <3>3. Older(q)' \subseteq Older(q) BY <1>1, <2>1, <3>2 DEF Older, Selected
    <3>4. /\ Cardinality(Older(q)') <= Cardinality(Older(q))
          /\ Cardinality(Older(q)') \in Nat /\ Cardinality(Older(q)) \in Nat
      BY <3>3, FiniteCounts, FS_Subset, FS_CardinalityType
    <3>5. StaleHolds(q, n) BY <1>4, <3>2
    <3>6. /\ Cardinality(Members) \in Nat /\ N \in Nat
          /\ Cardinality(Members \ request[q].seen) \in Nat
      BY FiniteCounts
    <3>7. QED BY <1>2, <3>2, <3>4, <3>5, <3>6 DEF StaleHolds, N
  <2>2. CASE r \in Older(q)'
    <3>1. Members' \ request'[q].seen = {}
      BY <1>1, <1>2, <2>2 DEF Older, Members, Active
    <3>2. Cardinality(Members' \ request'[q].seen) = 0 BY <3>1, FS_EmptySet
    <3>3. Cardinality(Older(q)') \in 0 .. N
      <4>1. Older(q)' \subseteq Requests BY DEF Older
      <4>2. IsFiniteSet(Older(q)') /\ Cardinality(Older(q)') <= Cardinality(Requests)
        BY <4>1, OrganizationAssumption, FS_Subset
      <4>3. Cardinality(Older(q)') \in Nat BY <4>2, FS_CardinalityType
      <4>4. QED BY <4>2, <4>3, FiniteCounts DEF N
    <3>4. QED BY <3>2, <3>3, FiniteCounts DEF StaleHolds, N
  <2>3. QED BY <2>1, <2>2
<1>6. QED BY <1>2, <1>4, <1>5

\* A request that adds a member leaves those it stood with, and there is room
\* for all of them, as it knows fewer members than its limit.
LEMMA MembershipKeepsExcess ==
  ASSUME OrganizationInv, ExcessInv, NEW s \in Requests, SetMembership(s), NEW n \in Nat
  PROVE  MembersHold(n)'
<1> DEFINE u == request[s].user
<1>1. ~ Selected(s)' /\ \A q \in Requests \ {s} : request'[q] = request[q]
  BY MembershipKeepsOrganization
<1>2. /\ Selected(s) /\ TypeOK /\ UNCHANGED history
      /\ \/ member' = member
         \/ ~ ExceedsLimit(request[s]) /\ member' = [member EXCEPT ![u] = request[s].row]
  BY DEF SetMembership, Selected, OrganizationInv
<1>3. /\ u \in Users /\ request[s].row \in Rows /\ request[s].limit \in Nat
      /\ request[s].seen \in SUBSET Users /\ request[s].kind = "member"
  BY <1>2, RequestForms, OrganizationAssumption DEF Selected
<1>4. \A q \in Requests : Selected(q)' => Selected(q) /\ request'[q].seen = request[q].seen
  BY <1>1 DEF Selected
<1>5. CASE Members' \subseteq Members
  BY <1>2, <1>4, <1>5, FewerMembersHold
<1>6. CASE ~ Members' \subseteq Members
  <2>1. /\ member' = [member EXCEPT ![u] = request[s].row] /\ ~ ExceedsLimit(request[s])
    BY <1>2, <1>6 DEF Members, Active
  <2>2. /\ u \notin Members /\ request[s].row.state = "ACTIVE" /\ Members' = Members \cup {u}
    <3>1. member'[u] = request[s].row /\ \A v \in Users \ {u} : member'[v] = member[v]
      BY <1>2, <1>3, <2>1 DEF TypeOK
    <3>2. \A v \in Users \ {u} : v \in Members' <=> v \in Members
      BY <3>1 DEF Members, Active
    <3>3. u \in Members' /\ u \notin Members
      BY <1>6, <3>2 DEF Members
    <3>4. request[s].row.state = "ACTIVE" BY <3>1, <3>3 DEF Members, Active
    <3>5. Members \subseteq Users /\ Members' \subseteq Users BY DEF Members
    <3>6. QED BY <3>2, <3>3, <3>4, <3>5
  <2>3. Cardinality(Members') = Cardinality(Members) + 1
    BY <2>2, FiniteCounts, FS_AddElement
  <2> SUFFICES ASSUME AtLeast(n, MaxMembers)' PROVE
        /\ Cardinality(Members') <= n + N - 1
        /\ \A q \in Requests : Selected(q)' => StaleHolds(q, n)'
    BY DEF MembersHold, N
  <2>4. AtLeast(n, MaxMembers) BY <1>2 DEF AtLeast
  <2>5. \A q \in Requests : Selected(q) => StaleHolds(q, n)
    BY <2>4 DEF ExcessInv, MembersHold
  <2>6. /\ Cardinality(request[s].seen \cap Members) < n
        /\ Cardinality(request[s].seen \cap Members) \in Nat
    <3>1. PICK p \in history : request[s].limit = MaxMembers[p]
      BY <1>2, <1>3 DEF OrganizationInv, LimitsAreKnown, Selected
    <3>2. request[s].limit <= n BY <2>4, <3>1 DEF AtLeast
    <3>3. Cardinality(request[s].seen \cap Members) \in Nat
      BY FiniteCounts, FS_Intersection, FS_CardinalityType
    <3>4. ~ Cardinality(request[s].seen \cap Members) >= request[s].limit
      BY <2>1, <2>2 DEF ExceedsLimit
    <3>5. QED BY <1>3, <3>2, <3>3, <3>4
  <2>7. Cardinality(Members) + Cardinality(Older(s)) <= n + N - 1
    <3>1. Cardinality(Members \ request[s].seen) =
            Cardinality(Members) - Cardinality(Members \cap request[s].seen)
      BY FiniteCounts, FS_Difference
    <3>2. Members \cap request[s].seen = request[s].seen \cap Members OBVIOUS
    <3>3. StaleHolds(s, n) BY <1>2, <2>5
    <3>4. /\ Cardinality(Members) \in Nat /\ Cardinality(Older(s)) \in Nat /\ N \in Nat
          /\ Cardinality(Members \ request[s].seen) \in Nat
      BY FiniteCounts
    <3>5. Cardinality(Members \cap request[s].seen) \in Nat
          /\ Cardinality(Members \cap request[s].seen) < n
      BY <2>6, <3>2
    <3>6. QED BY <3>1, <3>3, <3>4, <3>5 DEF StaleHolds
  <2>8. s \in Older(s) BY <1>2 DEF Older
  <2>9. Cardinality(Older(s)) \in Nat /\ Cardinality(Older(s)) > 0
    <3>1. IsFiniteSet(Older(s)) /\ Cardinality(Older(s)) \in 0 .. N BY FiniteCounts
    <3>2. Cardinality(Older(s)) # 0 BY <2>8, <3>1, FS_EmptySet
    <3>3. N \in Nat BY FiniteCounts
    <3>4. QED BY <3>1, <3>2, <3>3
  <2>10. ASSUME NEW q \in Requests, Selected(q)' PROVE StaleHolds(q, n)'
    <3>1. q # s /\ Selected(q) /\ request'[q].seen = request[q].seen
      BY <1>1, <1>4, <2>10
    <3>2. Older(q)' = Older(q) \ {s} BY <1>1, <3>1 DEF Older, Selected
    <3>3. Cardinality(Older(q)') =
            IF s \in Older(q) THEN Cardinality(Older(q)) - 1 ELSE Cardinality(Older(q))
      BY <3>2, FiniteCounts, FS_RemoveElement
    <3>4. /\ Cardinality(Members) \in Nat /\ Cardinality(Older(q)) \in Nat
          /\ Cardinality(Older(s)) \in Nat /\ N \in Nat
          /\ Cardinality(Members \ request[q].seen) \in Nat
      <4>1. Cardinality(Older(q)) \in 0 .. N /\ N \in Nat BY FiniteCounts
      <4>2. Cardinality(Members) \in Nat /\ Cardinality(Members \ request[q].seen) \in Nat
        BY FiniteCounts
      <4>3. QED BY <2>9, <4>1, <4>2
    <3>5. CASE s \in Older(q)
      <4>1. Cardinality(Members' \ request'[q].seen) <=
              Cardinality(Members \ request[q].seen) + 1
        <5>1. Members' \ request'[q].seen \subseteq (Members \ request[q].seen) \cup {u}
          BY <2>2, <3>1
        <5>2. /\ IsFiniteSet((Members \ request[q].seen) \cup {u})
              /\ Cardinality((Members \ request[q].seen) \cup {u}) <=
                   Cardinality(Members \ request[q].seen) + 1
          <6>1. IsFiniteSet(Members \ request[q].seen) BY FiniteCounts
          <6>2. /\ IsFiniteSet((Members \ request[q].seen) \cup {u})
                /\ Cardinality((Members \ request[q].seen) \cup {u}) =
                     IF u \in Members \ request[q].seen
                     THEN Cardinality(Members \ request[q].seen)
                     ELSE Cardinality(Members \ request[q].seen) + 1
            BY <6>1, FS_AddElement
          <6>3. QED BY <3>4, <6>2
        <5>3. /\ Cardinality(Members' \ request'[q].seen) <=
                   Cardinality((Members \ request[q].seen) \cup {u})
              /\ IsFiniteSet(Members' \ request'[q].seen)
          BY <5>1, <5>2, FS_Subset
        <5>4. /\ Cardinality((Members \ request[q].seen) \cup {u}) \in Nat
              /\ Cardinality(Members' \ request'[q].seen) \in Nat
          BY <5>2, <5>3, FS_CardinalityType
        <5>5. QED BY <3>4, <5>2, <5>3, <5>4
      <4>2. Cardinality(Members' \ request'[q].seen) \in Nat
        BY <2>2, FiniteCounts, FS_AddElement, FS_Difference, FS_CardinalityType
      <4>3. StaleHolds(q, n) BY <2>5, <3>1
      <4>4. QED BY <2>3, <3>3, <3>4, <3>5, <4>1, <4>2, <4>3 DEF StaleHolds, N
    <3>6. CASE s \notin Older(q)
      <4>1. request[q].seen \subseteq request[s].seen
        BY <1>2, <3>1, <3>6 DEF OrganizationInv, SeenRowsStay, Older
      <4>2. Older(q) \cup {s} \subseteq Older(s) BY <4>1, <2>8 DEF Older
      <4>3. Cardinality(Older(q) \cup {s}) = Cardinality(Older(q)) + 1
        BY <3>6, FiniteCounts, FS_AddElement
      <4>4. Cardinality(Older(q) \cup {s}) <= Cardinality(Older(s))
        BY <4>2, FiniteCounts, FS_Subset
      <4>5. Cardinality(Older(q)') = Cardinality(Older(q)) BY <3>3, <3>6
      <4>6. Cardinality(Members') + Cardinality(Older(q)') <= n + N - 1
        BY <2>3, <2>7, <3>4, <4>3, <4>4, <4>5
      <4>7. QED BY <4>6 DEF StaleHolds, N
    <3>7. QED BY <3>5, <3>6
  <2>11. Cardinality(Members') <= n + N - 1
    <3>1. Cardinality(Members) \in Nat /\ N \in Nat BY FiniteCounts
    <3>2. QED BY <2>3, <2>7, <2>9, <3>1
  <2>12. QED BY <2>10, <2>11
<1>7. QED BY <1>5, <1>6

\* The first owner is within the limit of every plan.
LEMMA CreationKeepsExcess ==
  ASSUME OrganizationInv, NEW u \in Users, CreateOrganization(u), NEW n \in Nat
  PROVE  MembersHold(n)'
<1>1. \A v \in Users : member[v] = None BY DEF CreateOrganization, OrganizationInv, Existence
<1>2. Members' \subseteq {u}
  BY <1>1 DEF CreateOrganization, OrganizationInv, TypeOK, Members, Active
<1>3. Cardinality(Members') \in Nat /\ Cardinality(Members') <= 1
  <2>1. IsFiniteSet({u}) /\ Cardinality({u}) = 1 BY FS_Singleton
  <2>2. QED BY <1>2, <2>1, FS_Subset, FS_CardinalityType
<1>4. AtLeast(n, MaxMembers)' => n > 0
  BY OrganizationAssumption DEF CreateOrganization, AtLeast
<1>5. \A r \in Requests : ~ Selected(r)'
  BY DEF CreateOrganization, OrganizationInv, Existence, Selected, Idle
<1>6. N \in Nat /\ N > 0 BY FiniteCounts
<1>7. QED BY <1>3, <1>4, <1>5, <1>6 DEF MembersHold, N

\* No step of another kind makes a member, or knows more of the members.
LEMMA MembersKeepHolding ==
  ASSUME OrganizationInv, OrganizationInv', ExcessInv, [Next]_vars, NEW n \in Nat
  PROVE  MembersHold(n)'
<1>1. CASE \E u \in Users : CreateOrganization(u)
  BY <1>1, CreationKeepsExcess
<1>2. CASE \E r \in Requests : SelectMembers(r) \/ SetMembership(r)
  BY <1>2, SelectKeepsExcess, MembershipKeepsExcess
<1>3. CASE /\ UNCHANGED member /\ history \subseteq history'
           /\ \A q \in Requests :
                Selected(q)' => Selected(q) /\ request'[q].seen = request[q].seen
  <2>1. Members' = Members BY <1>3 DEF Members, Active
  <2>2. QED BY <1>3, <2>1, FewerMembersHold
<1>4. TypeOK BY DEF OrganizationInv
<1>5. ASSUME NEW r \in Requests, NEW next, Become(r, next), next.at # "selected"
      PROVE  \A q \in Requests :
               Selected(q)' => Selected(q) /\ request'[q].seen = request[q].seen
  BY <1>4, <1>5 DEF Become, TypeOK, Selected
<1>6. ASSUME NEW r \in Requests, Entitlements(r)
      PROVE  \E next : Become(r, next) /\ next.at # "selected"
  <2>1. request[r].kind \in {"member", "runner", "key"}
    BY <1>4, <1>6, RequestForms DEF Entitlements
  <2>2. CASE request[r].kind = "member" BY <1>6, <2>2 DEF Entitlements
  <2>3. CASE request[r].kind = "runner" BY <1>6, <2>3 DEF Entitlements
  <2>4. CASE request[r].kind = "key" BY <1>6, <2>4 DEF Entitlements, Idle
  <2>5. QED BY <2>1, <2>2, <2>3, <2>4
<1>7. ASSUME NEW r \in Requests,
             \/ \E u \in Users, row \in Assigned : PutMembership(r, u, row)
             \/ PostRunner(r) \/ CountRunners(r) \/ RegisterRunner(r)
             \/ PostKey(r) \/ \E k \in Keys : CreateApiKey(r, k)
      PROVE  /\ UNCHANGED <<member, history>>
             /\ \E next : Become(r, next) /\ next.at # "selected"
  <2>1. ASSUME NEW u \in Users, NEW row \in Assigned, PutMembership(r, u, row)
        PROVE  \E next : Become(r, next) /\ next.at # "selected"
    BY <2>1 DEF PutMembership
  <2>2. Idle.at = "idle" BY DEF Idle
  <2>3. ASSUME PostRunner(r) \/ PostKey(r)
        PROVE  \E next : Become(r, next) /\ next.at # "selected"
    BY <2>3 DEF PostRunner, PostKey
  <2>4. ASSUME CountRunners(r) PROVE \E next : Become(r, next) /\ next.at # "selected"
    BY <2>2, <2>4 DEF CountRunners
  <2>5. ASSUME RegisterRunner(r) \/ \E k \in Keys : CreateApiKey(r, k)
        PROVE  \E next : Become(r, next) /\ next.at # "selected"
    BY <2>2, <2>5 DEF RegisterRunner, CreateApiKey
  <2>6. UNCHANGED <<member, history>>
    BY <1>7
       DEF PutMembership, PostRunner, CountRunners, RegisterRunner, PostKey, CreateApiKey
  <2>7. QED BY <1>7, <2>1, <2>3, <2>4, <2>5, <2>6
<1>8. ASSUME \/ \E p \in Plans : SetPlan(p)
             \/ RevokeRunner \/ ProvisionHosted \/ RetireHosted
             \/ \E k \in Keys : RevokeApiKey(k)
             \/ UNCHANGED vars
      PROVE  UNCHANGED <<member, request>> /\ history \subseteq history'
  BY <1>8 DEF SetPlan, RevokeRunner, ProvisionHosted, RetireHosted, RevokeApiKey, vars
<1>9. QED
  BY <1>1, <1>2, <1>3, <1>5, <1>6, <1>7, <1>8 DEF Next, Entitlements, Selected

\* A request that has counted will insert; it found room for one more.
LEMMA RunnersKeepHolding ==
  ASSUME OrganizationInv, OrganizationInv', ExcessInv, [Next]_vars, NEW n \in Nat
  PROVE  RunnersHold(n)'
<1> DEFINE Counts(r) == request[r].at = "counted"
<1>1. TypeOK BY DEF OrganizationInv
<1>2. ASSUME NEW r \in Requests, CountRunners(r) PROVE RunnersHold(n)'
  <2> SUFFICES ASSUME AtLeast(n, MaxRunners)'
               PROVE  runners'.registered + Cardinality(Counted') <= n + N - 1
    BY DEF RunnersHold, N
  <2>1. UNCHANGED <<runners, history>> BY <1>2 DEF CountRunners
  <2>2. AtLeast(n, MaxRunners) BY <2>1 DEF AtLeast
  <2>3. CASE runners.registered + runners.hosted >= request[r].limit
    <3>1. Counted' \subseteq Counted
      BY <1>1, <1>2, <2>3 DEF CountRunners, Become, Counted, Idle, TypeOK
    <3>2. runners'.registered <= runners.registered BY <1>1, <2>1 DEF TypeOK
    <3>3. RunnersHold(n)' BY <2>1, <3>1, <3>2, FewerRunnersHold
    <3>4. QED BY <3>3 DEF RunnersHold, N
  <2>4. CASE ~ runners.registered + runners.hosted >= request[r].limit
    <3>1. PICK p \in history : request[r].limit = MaxRunners[p]
      BY <1>2 DEF CountRunners, OrganizationInv, LimitsAreKnown
    <3>2. request[r].limit <= n BY <2>2, <3>1 DEF AtLeast
    <3>3. request[r].limit \in Nat BY <1>1, <1>2, RequestForms DEF CountRunners
    <3>4. Cardinality(Counted') \in Nat /\ Cardinality(Counted') <= N
      <4>1. Counted' \subseteq Requests BY DEF Counted
      <4>2. IsFiniteSet(Counted') /\ Cardinality(Counted') <= Cardinality(Requests)
        BY <4>1, OrganizationAssumption, FS_Subset
      <4>3. Cardinality(Counted') \in Nat BY <4>2, FS_CardinalityType
      <4>4. QED BY <4>2, <4>3 DEF N
    <3>5. runners.registered \in Nat /\ runners.hosted \in Nat BY <1>1 DEF TypeOK
    <3>6. N \in Nat BY FiniteCounts
    <3>7. QED BY <2>1, <2>4, <3>2, <3>3, <3>4, <3>5, <3>6
  <2>5. QED BY <2>3, <2>4
<1>3. ASSUME NEW r \in Requests, RegisterRunner(r) PROVE RunnersHold(n)'
  <2> SUFFICES ASSUME AtLeast(n, MaxRunners)'
               PROVE  runners'.registered + Cardinality(Counted') <= n + N - 1
    BY DEF RunnersHold, N
  <2>1. AtLeast(n, MaxRunners) BY <1>3 DEF RegisterRunner, AtLeast
  <2>2. runners.registered + Cardinality(Counted) <= n + N - 1
    BY <2>1 DEF ExcessInv, RunnersHold
  <2>3. r \in Counted /\ Counted' = Counted \ {r}
    BY <1>1, <1>3 DEF RegisterRunner, Become, Counted, Idle, TypeOK
  <2>4. IsFiniteSet(Counted) /\ Cardinality(Counted) \in 0 .. N /\ N \in Nat
    BY FiniteCounts
  <2>5. Cardinality(Counted') = Cardinality(Counted) - 1
    BY <2>3, <2>4, FS_RemoveElement
  <2>6. runners'.registered = runners.registered + 1 /\ runners.registered \in Nat
    BY <1>1, <1>3 DEF RegisterRunner, TypeOK
  <2>7. QED BY <2>2, <2>4, <2>5, <2>6
<1>4. CASE /\ runners'.registered <= runners.registered /\ history \subseteq history'
           /\ \A q \in Requests : Counts(q)' => Counts(q)
  <2>1. Counted' \subseteq Counted BY <1>4 DEF Counted
  <2>2. QED BY <1>4, <2>1, FewerRunnersHold
<1>5. runners.registered \in Nat BY <1>1 DEF TypeOK
<1>6. ASSUME NEW r \in Requests, NEW next, Become(r, next), next.at # "counted"
      PROVE  \A q \in Requests : Counts(q)' => Counts(q)
  BY <1>1, <1>6 DEF Become, TypeOK
<1>7. ASSUME NEW r \in Requests, Entitlements(r)
      PROVE  \E next : Become(r, next) /\ next.at # "counted"
  <2>1. request[r].kind \in {"member", "runner", "key"}
    BY <1>1, <1>7, RequestForms DEF Entitlements
  <2>2. CASE request[r].kind = "member" BY <1>7, <2>2 DEF Entitlements
  <2>3. CASE request[r].kind = "runner" BY <1>7, <2>3 DEF Entitlements
  <2>4. CASE request[r].kind = "key" BY <1>7, <2>4 DEF Entitlements, Idle
  <2>5. QED BY <2>1, <2>2, <2>3, <2>4
<1>8. ASSUME NEW r \in Requests,
             \/ \E u \in Users, row \in Assigned : PutMembership(r, u, row)
             \/ SelectMembers(r) \/ SetMembership(r) \/ PostRunner(r)
             \/ PostKey(r) \/ \E k \in Keys : CreateApiKey(r, k)
      PROVE  /\ UNCHANGED <<runners, history>>
             /\ \E next : Become(r, next) /\ next.at # "counted"
  <2>1. ASSUME NEW u \in Users, NEW row \in Assigned, PutMembership(r, u, row)
        PROVE  \E next : Become(r, next) /\ next.at # "counted"
    BY <2>1 DEF PutMembership
  <2>2. ASSUME SelectMembers(r) PROVE \E next : Become(r, next) /\ next.at # "counted"
    BY <2>2 DEF SelectMembers
  <2>3. Idle.at = "idle" BY DEF Idle
  <2>4. ASSUME PostRunner(r) \/ PostKey(r)
        PROVE  \E next : Become(r, next) /\ next.at # "counted"
    BY <2>4 DEF PostRunner, PostKey
  <2>5. ASSUME SetMembership(r) \/ \E k \in Keys : CreateApiKey(r, k)
        PROVE  \E next : Become(r, next) /\ next.at # "counted"
    BY <2>3, <2>5 DEF SetMembership, CreateApiKey
  <2>6. UNCHANGED <<runners, history>>
    BY <1>8
       DEF PutMembership, SelectMembers, SetMembership, PostRunner, PostKey, CreateApiKey
  <2>7. QED BY <1>8, <2>1, <2>2, <2>4, <2>5, <2>6
<1>9. ASSUME \/ \E u \in Users : CreateOrganization(u)
             \/ \E p \in Plans : SetPlan(p)
             \/ RevokeRunner \/ ProvisionHosted \/ RetireHosted
             \/ \E k \in Keys : RevokeApiKey(k)
             \/ UNCHANGED vars
      PROVE  runners'.registered <= runners.registered /\ history \subseteq history' /\ UNCHANGED request
  <2>1. ASSUME NEW u \in Users, CreateOrganization(u) PROVE history \subseteq history'
    <3>1. plan = None => history = {} BY DEF OrganizationInv, Existence
    <3>2. QED BY <2>1, <3>1 DEF CreateOrganization
  <2>2. UNCHANGED request /\ history \subseteq history'
    BY <1>9, <2>1
       DEF CreateOrganization, SetPlan, RevokeRunner, ProvisionHosted, RetireHosted,
           RevokeApiKey, vars
  <2>3. \/ UNCHANGED runners
        \/ runners' = [runners EXCEPT !.registered = @ - 1]
        \/ runners' = [runners EXCEPT !.hosted = @ - 1]
        \/ runners' = [runners EXCEPT !.hosted = @ + 1]
    BY <1>9
       DEF CreateOrganization, SetPlan, RevokeRunner, ProvisionHosted, RetireHosted,
           RevokeApiKey, vars
  <2>4. runners'.registered <= runners.registered
    BY <1>1, <1>5, <2>3 DEF TypeOK
  <2>5. QED BY <2>2, <2>4
<1>10. ASSUME NEW r \in Requests, Entitlements(r) PROVE RunnersHold(n)'
  <2>1. UNCHANGED <<runners, history>> BY <1>10 DEF Entitlements
  <2>2. \A q \in Requests : Counts(q)' => Counts(q) BY <1>6, <1>7, <1>10
  <2>3. QED BY <1>4, <1>5, <2>1, <2>2
<1>11. ASSUME NEW r \in Requests,
              \/ \E u \in Users, row \in Assigned : PutMembership(r, u, row)
              \/ SelectMembers(r) \/ SetMembership(r) \/ PostRunner(r)
              \/ PostKey(r) \/ \E k \in Keys : CreateApiKey(r, k)
       PROVE  RunnersHold(n)'
  <2>1. UNCHANGED <<runners, history>> BY <1>8, <1>11
  <2>2. \A q \in Requests : Counts(q)' => Counts(q) BY <1>6, <1>8, <1>11
  <2>3. QED BY <1>4, <1>5, <2>1, <2>2
<1>12. CASE \/ \E u \in Users : CreateOrganization(u)
            \/ \E p \in Plans : SetPlan(p)
            \/ RevokeRunner \/ ProvisionHosted \/ RetireHosted
            \/ \E k \in Keys : RevokeApiKey(k)
            \/ UNCHANGED vars
  BY <1>4, <1>9, <1>12
<1>13. QED BY <1>2, <1>3, <1>10, <1>11, <1>12 DEF Next

LEMMA ExcessInit == Init => ExcessInv
<1> SUFFICES ASSUME Init, NEW n \in Nat PROVE MembersHold(n) /\ RunnersHold(n)
  BY DEF ExcessInv
<1>1. Members = {} /\ Counted = {} /\ \A r \in Requests : ~ Selected(r)
  BY DEF Init, Members, Active, Counted, Selected, Idle
<1>2. Cardinality(Members) = 0 /\ Cardinality(Counted) = 0 BY <1>1, FS_EmptySet
<1>3. N \in Nat /\ N > 0 /\ runners.registered = 0 BY FiniteCounts DEF Init
<1>4. QED BY <1>1, <1>2, <1>3 DEF MembersHold, RunnersHold

LEMMA ExcessAlways == Spec => [](OrganizationInv /\ ExcessInv)
<1>1. OrganizationInv /\ OrganizationInv' /\ ExcessInv /\ [Next]_vars => ExcessInv'
  BY MembersKeepHolding, RunnersKeepHolding DEF ExcessInv
<1>2. QED BY <1>1, ExcessInit, OrganizationAlways, PTL DEF Spec

LEMMA GreatestIsGreatest ==
  ASSUME OrganizationInv, plan # None, NEW limit \in [Plans -> Nat], HasGreatest(limit)
  PROVE  Greatest(limit) \in Nat /\ AtLeast(Greatest(limit), limit)
<1>1. PICK p \in history : \A q \in history : limit[q] <= limit[p] BY DEF HasGreatest
<1>2. history \subseteq Plans BY DEF OrganizationInv, TypeOK
<1>3. \E n \in {limit[q] : q \in history} : \A q \in history : limit[q] <= n
  BY <1>1
<1>4. /\ Greatest(limit) \in {limit[q] : q \in history}
      /\ \A q \in history : limit[q] <= Greatest(limit)
  BY <1>3 DEF Greatest
<1>5. QED BY <1>2, <1>4 DEF AtLeast

\* Whatever requests run at once, and whatever runners hosted compute inserts,
\* an organization has at most as many members and registered runners more
\* than the best of its plans allowed as there are other requests: the checks
\* are stale, but not without bound.
THEOREM ExcessStaysBounded == Spec => []ExcessIsBounded
<1>1. ASSUME OrganizationInv, ExcessInv, plan # None PROVE
        /\ Cardinality(Members) <= Greatest(MaxMembers) + (N - 1)
        /\ runners.registered <= Greatest(MaxRunners) + (N - 1)
  <2> DEFINE m == Greatest(MaxMembers)
             n == Greatest(MaxRunners)
  <2>1. MaxMembers \in [Plans -> Nat] /\ MaxRunners \in [Plans -> Nat]
    BY OrganizationAssumption
  <2>2. HasGreatest(MaxMembers) /\ HasGreatest(MaxRunners) BY <1>1 DEF OrganizationInv
  <2>3. m \in Nat /\ AtLeast(m, MaxMembers) BY <1>1, <2>1, <2>2, GreatestIsGreatest
  <2>4. n \in Nat /\ AtLeast(n, MaxRunners) BY <1>1, <2>1, <2>2, GreatestIsGreatest
  <2> HIDE DEF m, n
  <2>5. Cardinality(Members) <= m + N - 1
    BY <1>1, <2>3 DEF ExcessInv, MembersHold
  <2>6. runners.registered + Cardinality(Counted) <= n + N - 1
    BY <1>1, <2>4 DEF ExcessInv, RunnersHold
  <2>7. /\ Cardinality(Members) \in Nat /\ Cardinality(Counted) \in Nat /\ N \in Nat
        /\ runners.registered \in Nat
    BY <1>1, FiniteCounts DEF OrganizationInv, TypeOK
  <2>8. QED BY <2>3, <2>4, <2>5, <2>6, <2>7 DEF m, n
<1>2. OrganizationInv /\ ExcessInv => ExcessIsBounded BY <1>1 DEF ExcessIsBounded, N
<1>3. QED BY <1>2, ExcessAlways, PTL

-----------------------------------------------------------------------------
(***************************************************************************)
(* Checkout.  One customer is made under the lock, and what a request has  *)
(* learned of the provider is still what the provider remembers, as no day *)
(* passes while a request is under way.  RequestHolds says what a request  *)
(* knows at each step, CustomerHolds how the records count customers.      *)
(***************************************************************************)
Under(c) == checkout[c].at \in {"looked", "creating", "inserting", "customer", "made"}

Started ==
  [at : {"looked", "creating", "inserting", "customer", "made", "answered", "failed"},
   key : OrderKeys, price : Prices, customer : Nat \cup {None}, session : Nat \cup {None}]

CheckoutStates == {[at |-> "idle"]} \cup Started

Remembered == [price : Prices, session : Nat] \cup {None}

CheckoutTypes ==
  /\ customer \in Nat \cup {None} /\ lock \in Checkouts \cup {None}
  /\ operation \in [OrderKeys -> Nat \cup {None}]
  /\ checkout \in [Checkouts -> CheckoutStates]
  /\ customers \in Nat /\ days \in Nat
  /\ memory \in [customer : Nat \cup {None}, order : [OrderKeys -> Remembered]]
  /\ IsFiniteSet(sessions) /\ \A s \in sessions : s.customer \in Nat

CustomerHolds ==
  /\ \A s \in sessions : s.customer = customer
  /\ customers <= days + IF memory.customer = None THEN 0 ELSE 1
  /\ customer # None => lock = None

RequestHolds(c) ==
  /\ lock = c <=> checkout[c].at \in {"creating", "inserting"}
  /\ checkout[c].at = "inserting" => checkout[c].customer # None
  /\ checkout[c].at \in {"customer", "made"} =>
       checkout[c].customer = customer /\ customer # None
  /\ checkout[c].at = "made" =>
       /\ memory.order[checkout[c].key] # None
       /\ memory.order[checkout[c].key].session = checkout[c].session
  /\ Under(c) /\ operation[checkout[c].key] # None =>
       /\ memory.order[checkout[c].key] # None
       /\ memory.order[checkout[c].key].session = operation[checkout[c].key]
  /\ checkout[c].at = "answered" =>
       operation[checkout[c].key] = checkout[c].session /\ checkout[c].session # None

CheckoutInv == CheckoutTypes /\ CustomerHolds /\ \A c \in Checkouts : RequestHolds(c)

LEMMA SameCardinality == \A T : C!Cardinality(T) = Cardinality(T)
BY DEF C!Cardinality, Cardinality

LEMMA CheckoutInit == C!Init => CheckoutInv
BY AccountAssumption, FS_EmptySet
   DEF C!Init, C!Blank, C!CheckoutAssumption, CheckoutInv, CheckoutTypes, CustomerHolds,
       RequestHolds, Under, CheckoutStates, Remembered

LEMMA CheckoutForms ==
  ASSUME CheckoutTypes, NEW c \in Checkouts
  PROVE  /\ checkout[c].at \in {"idle", "looked", "creating", "inserting", "customer",
                                "made", "answered", "failed"}
         /\ checkout[c].at # "idle" =>
              /\ checkout[c].key \in OrderKeys /\ checkout[c].price \in Prices
              /\ checkout[c].customer \in Nat \cup {None}
              /\ checkout[c].session \in Nat \cup {None}
<1>1. checkout[c] \in CheckoutStates BY DEF CheckoutTypes
<1>2. QED BY <1>1 DEF CheckoutStates, Started

\* A request goes on with what it knows.
LEMMA CheckoutGoes ==
  ASSUME CheckoutTypes, NEW c \in Checkouts, checkout[c].at # "idle",
         NEW at \in {"looked", "creating", "inserting", "customer", "made", "answered",
                     "failed"},
         C!Goes(c, at)
  PROVE  /\ checkout' \in [Checkouts -> CheckoutStates]
         /\ checkout'[c].at = at
         /\ checkout'[c].key = checkout[c].key /\ checkout'[c].price = checkout[c].price
         /\ checkout'[c].customer = checkout[c].customer
         /\ checkout'[c].session = checkout[c].session
         /\ \A d \in Checkouts \ {c} : checkout'[d] = checkout[d]
<1>1. checkout[c] \in CheckoutStates BY DEF CheckoutTypes
<1>2. [checkout[c] EXCEPT !.at = at] \in CheckoutStates
  BY <1>1 DEF CheckoutStates, Started
<1>3. checkout' = [checkout EXCEPT ![c] = [checkout[c] EXCEPT !.at = at]]
  BY DEF C!Goes
<1>4. checkout'[c] = [checkout[c] EXCEPT !.at = at]
      /\ \A d \in Checkouts \ {c} : checkout'[d] = checkout[d]
  BY <1>3 DEF CheckoutTypes
<1>5. [checkout[c] EXCEPT !.at = at].at = at
  BY <1>1 DEF CheckoutStates, Started
<1>6. QED BY <1>1, <1>2, <1>3, <1>4, <1>5 DEF CheckoutTypes, CheckoutStates, Started

\* A request goes on with a customer or a session that it has learned.
LEMMA CheckoutLearnsCustomer ==
  ASSUME CheckoutTypes, NEW c \in Checkouts, checkout[c].at # "idle",
         NEW at \in {"inserting", "customer"}, NEW id \in Nat \cup {None},
         checkout' = [checkout EXCEPT ![c].at = at, ![c].customer = id]
  PROVE  /\ checkout' \in [Checkouts -> CheckoutStates]
         /\ checkout'[c].at = at /\ checkout'[c].customer = id
         /\ checkout'[c].key = checkout[c].key
         /\ \A d \in Checkouts \ {c} : checkout'[d] = checkout[d]
<1> DEFINE there == [checkout[c] EXCEPT !.at = at]
           next == [there EXCEPT !.customer = id]
<1>1. checkout[c] \in Started BY DEF CheckoutTypes, CheckoutStates
<1>2. /\ there \in Started /\ there.at = at
      /\ there.key = checkout[c].key /\ there.customer = checkout[c].customer
  BY <1>1 DEF Started
<1>3. checkout' = [checkout EXCEPT ![c] = next] BY DEF CheckoutTypes
<1> HIDE DEF there
<1>4. /\ next \in Started /\ next.at = at /\ next.customer = id
      /\ next.key = checkout[c].key
  BY <1>2 DEF Started
<1> HIDE DEF next
<1>5. QED BY <1>3, <1>4 DEF CheckoutTypes, CheckoutStates

LEMMA CheckoutLearnsSession ==
  ASSUME CheckoutTypes, NEW c \in Checkouts, checkout[c].at # "idle",
         NEW id \in Nat \cup {None},
         checkout' = [checkout EXCEPT ![c].at = "made", ![c].session = id]
  PROVE  /\ checkout' \in [Checkouts -> CheckoutStates]
         /\ checkout'[c].at = "made" /\ checkout'[c].session = id
         /\ checkout'[c].key = checkout[c].key
         /\ checkout'[c].customer = checkout[c].customer
         /\ \A d \in Checkouts \ {c} : checkout'[d] = checkout[d]
<1> DEFINE there == [checkout[c] EXCEPT !.at = "made"]
           next == [there EXCEPT !.session = id]
<1>1. checkout[c] \in Started BY DEF CheckoutTypes, CheckoutStates
<1>2. /\ there \in Started /\ there.at = "made"
      /\ there.key = checkout[c].key /\ there.customer = checkout[c].customer
  BY <1>1 DEF Started
<1>3. checkout' = [checkout EXCEPT ![c] = next] BY DEF CheckoutTypes
<1> HIDE DEF there
<1>4. /\ next \in Started /\ next.at = "made" /\ next.session = id
      /\ next.key = checkout[c].key /\ next.customer = checkout[c].customer
  BY <1>2 DEF Started
<1> HIDE DEF next
<1>5. QED BY <1>3, <1>4 DEF CheckoutTypes, CheckoutStates

\* What the provider remembers and what is recorded only grows under a request.
Grows ==
  /\ customer # None => customer' = customer
  /\ \A k \in OrderKeys :
       /\ memory.order[k] # None => /\ memory'.order[k] # None
                                    /\ memory'.order[k].session = memory.order[k].session
       /\ operation[k] # None => operation'[k] = operation[k]
       /\ operation'[k] # operation[k] =>
            memory'.order[k] # None /\ memory'.order[k].session = operation'[k]

LEMMA OtherRequestsHold ==
  ASSUME CheckoutTypes, NEW d \in Checkouts, RequestHolds(d), Grows,
         checkout'[d] = checkout[d], lock' = d <=> lock = d
  PROVE  RequestHolds(d)'
<1>1. /\ checkout[d].at \in {"idle", "looked", "creating", "inserting", "customer",
                             "made", "answered", "failed"}
      /\ checkout[d].at # "idle" => checkout[d].key \in OrderKeys
  BY CheckoutForms
<1> DEFINE k == checkout[d].key
<1>2. checkout[d].at # "idle" =>
        /\ memory.order[k] # None => /\ memory'.order[k] # None
                                     /\ memory'.order[k].session = memory.order[k].session
        /\ operation[k] # None => operation'[k] = operation[k]
        /\ operation'[k] # operation[k] =>
             memory'.order[k] # None /\ memory'.order[k].session = operation'[k]
  BY <1>1 DEF Grows
<1>3. customer # None => customer' = customer BY DEF Grows
<1>4. QED BY <1>1, <1>2, <1>3 DEF RequestHolds, Under

LEMMA GrowsUnchanged ==
  ASSUME UNCHANGED <<customer, operation, memory>> PROVE Grows
BY DEF Grows

\* A request that fails leaves what is recorded, and gives back its lock.
LEMMA FailingHolds ==
  ASSUME CheckoutInv, NEW c \in Checkouts, C!Fails(c), Under(c),
         CheckoutTypes', CustomerHolds', Grows
  PROVE  CheckoutInv'
<1>1. /\ C!Goes(c, "failed") /\ UNCHANGED <<customer, operation>>
      /\ lock' = IF lock = c THEN None ELSE lock
  BY DEF C!Fails
<1>2. /\ checkout'[c].at = "failed"
      /\ \A d \in Checkouts \ {c} : checkout'[d] = checkout[d]
  BY <1>1, CheckoutGoes DEF CheckoutInv, Under
<1>3. None \notin Checkouts BY AccountAssumption DEF C!CheckoutAssumption
<1>4. RequestHolds(c)' BY <1>1, <1>2, <1>3 DEF RequestHolds, Under
<1>5. \A d \in Checkouts \ {c} : RequestHolds(d)'
  BY <1>1, <1>2, <1>3, OtherRequestsHold DEF CheckoutInv
<1>6. QED BY <1>4, <1>5 DEF CheckoutInv

LEMMA FailingTypes ==
  ASSUME CheckoutInv, NEW c \in Checkouts, C!Fails(c), Under(c)
  PROVE  /\ checkout' \in [Checkouts -> CheckoutStates] /\ UNCHANGED <<customer, operation>>
         /\ lock' \in Checkouts \cup {None}
         /\ customer' # None => lock' = None
<1>1. /\ C!Goes(c, "failed") /\ UNCHANGED <<customer, operation>>
      /\ lock' = IF lock = c THEN None ELSE lock
  BY DEF C!Fails
<1>2. checkout' \in [Checkouts -> CheckoutStates]
  BY <1>1, CheckoutGoes DEF CheckoutInv, Under
<1>3. QED BY <1>1, <1>2 DEF CheckoutInv, CheckoutTypes, CustomerHolds

LEMMA AbandonHolds ==
  ASSUME CheckoutInv, NEW c \in Checkouts, C!Abandon(c)
  PROVE  CheckoutInv'
<1>1. C!Fails(c) /\ UNCHANGED <<customers, sessions, memory, days>> /\ Under(c)
  BY CheckoutForms DEF C!Abandon, C!InFlight, C!provider, CheckoutInv, Under
<1>2. CheckoutTypes' /\ CustomerHolds'
  BY <1>1, FailingTypes DEF CheckoutInv, CheckoutTypes, CustomerHolds
<1>3. Grows BY <1>1, GrowsUnchanged DEF C!Fails
<1>4. QED BY <1>1, <1>2, <1>3, FailingHolds

LEMMA LookupHolds ==
  ASSUME CheckoutInv, NEW c \in Checkouts, NEW key1 \in OrderKeys, NEW price \in Prices,
         C!Lookup(c, key1, price)
  PROVE  CheckoutInv'
<1> DEFINE next == [at |-> IF operation[key1] # None THEN "answered" ELSE "looked",
                    key |-> key1, price |-> price, customer |-> None,
                    session |-> operation[key1]]
<1>1. /\ checkout[c].at = "idle" /\ checkout' = [checkout EXCEPT ![c] = next]
      /\ UNCHANGED <<customer, operation, lock, customers, sessions, memory, days>>
  BY DEF C!Lookup, C!provider
<1>2. next \in CheckoutStates BY DEF CheckoutInv, CheckoutTypes, CheckoutStates, Started
<1>3. /\ checkout' \in [Checkouts -> CheckoutStates] /\ checkout'[c] = next
      /\ \A d \in Checkouts \ {c} : checkout'[d] = checkout[d]
  BY <1>1, <1>2 DEF CheckoutInv, CheckoutTypes
<1>4. CheckoutTypes' /\ CustomerHolds'
  BY <1>1, <1>3 DEF CheckoutInv, CheckoutTypes, CustomerHolds
<1>5. /\ checkout'[c].key = key1 /\ checkout'[c].session = operation[key1]
      /\ checkout'[c].at = IF operation[key1] # None THEN "answered" ELSE "looked"
  BY <1>3
<1> HIDE DEF next
<1>6. RequestHolds(c)'
  BY <1>1, <1>5 DEF CheckoutInv, RequestHolds, Under
<1>7. \A d \in Checkouts \ {c} : RequestHolds(d)'
  BY <1>1, <1>3, OtherRequestsHold, GrowsUnchanged DEF CheckoutInv
<1>8. QED BY <1>4, <1>6, <1>7 DEF CheckoutInv

LEMMA FindCustomerHolds ==
  ASSUME CheckoutInv, NEW c \in Checkouts, C!FindCustomer(c)
  PROVE  CheckoutInv'
<1>1. /\ checkout[c].at = "looked" /\ lock = None
      /\ UNCHANGED <<customer, operation, customers, sessions, memory, days>>
  BY DEF C!FindCustomer, C!provider
<1>2. None \notin Checkouts BY AccountAssumption DEF C!CheckoutAssumption
<1>3. CASE customer # None
  <2>1. /\ checkout' = [checkout EXCEPT ![c].at = "customer", ![c].customer = customer]
        /\ UNCHANGED lock
    BY <1>3 DEF C!FindCustomer
  <2>2. /\ checkout' \in [Checkouts -> CheckoutStates]
        /\ checkout'[c].at = "customer" /\ checkout'[c].customer = customer
        /\ checkout'[c].key = checkout[c].key
        /\ \A d \in Checkouts \ {c} : checkout'[d] = checkout[d]
    BY <1>1, <2>1, CheckoutLearnsCustomer DEF CheckoutInv, CheckoutTypes
  <2>3. CheckoutTypes' /\ CustomerHolds'
    BY <1>1, <2>1, <2>2 DEF CheckoutInv, CheckoutTypes, CustomerHolds
  <2>4. RequestHolds(c)'
    BY <1>1, <1>2, <1>3, <2>1, <2>2 DEF CheckoutInv, RequestHolds, Under
  <2>5. \A d \in Checkouts \ {c} : RequestHolds(d)'
    BY <1>1, <2>1, <2>2, OtherRequestsHold, GrowsUnchanged DEF CheckoutInv
  <2>6. QED BY <2>3, <2>4, <2>5 DEF CheckoutInv
<1>4. CASE customer = None
  <2>1. C!Goes(c, "creating") /\ lock' = c BY <1>4 DEF C!FindCustomer
  <2>2. /\ checkout' \in [Checkouts -> CheckoutStates]
        /\ checkout'[c].at = "creating" /\ checkout'[c].key = checkout[c].key
        /\ \A d \in Checkouts \ {c} : checkout'[d] = checkout[d]
    BY <1>1, <2>1, CheckoutGoes DEF CheckoutInv
  <2>3. CheckoutTypes' /\ CustomerHolds'
    BY <1>1, <1>4, <2>1, <2>2 DEF CheckoutInv, CheckoutTypes, CustomerHolds
  <2>4. RequestHolds(c)'
    BY <1>1, <1>2, <2>1, <2>2 DEF CheckoutInv, RequestHolds, Under
  <2>5. \A d \in Checkouts \ {c} : RequestHolds(d)'
    BY <1>1, <1>2, <2>1, <2>2, OtherRequestsHold, GrowsUnchanged DEF CheckoutInv
  <2>6. QED BY <2>3, <2>4, <2>5 DEF CheckoutInv
<1>5. QED BY <1>3, <1>4

LEMMA CreateCustomerHolds ==
  ASSUME CheckoutInv, NEW c \in Checkouts, C!CreateCustomer(c)
  PROVE  CheckoutInv'
<1> DEFINE id == IF memory.customer = None THEN customers + 1 ELSE memory.customer
<1>1. /\ checkout[c].at = "creating" /\ UNCHANGED <<sessions, days>>
      /\ customers' = IF memory.customer = None THEN id ELSE customers
      /\ memory' = [memory EXCEPT !.customer = id]
      /\ \/ /\ checkout' = [checkout EXCEPT ![c].at = "inserting", ![c].customer = id]
            /\ UNCHANGED <<customer, operation, lock>>
         \/ C!Fails(c)
  BY DEF C!CreateCustomer
<1>2. id \in Nat /\ None \notin Nat
  BY AccountAssumption DEF C!CheckoutAssumption, CheckoutInv, CheckoutTypes
<1>3. /\ memory' \in [customer : Nat \cup {None}, order : [OrderKeys -> Remembered]]
      /\ memory'.customer = id /\ memory'.order = memory.order /\ customers' \in Nat
  BY <1>1, <1>2 DEF CheckoutInv, CheckoutTypes
<1>4. customers' <= days + 1
  BY <1>1, <1>2 DEF CheckoutInv, CheckoutTypes, CustomerHolds
<1> HIDE DEF id
<1>5. CASE C!Fails(c)
  <2>1. Under(c) BY <1>1 DEF Under
  <2>2. /\ checkout' \in [Checkouts -> CheckoutStates] /\ UNCHANGED <<customer, operation>>
        /\ lock' \in Checkouts \cup {None}
        /\ customer' # None => lock' = None
    BY <1>5, <2>1, FailingTypes
  <2>3. CheckoutTypes' BY <1>1, <1>3, <2>2 DEF CheckoutInv, CheckoutTypes
  <2>4. CustomerHolds'
    BY <1>1, <1>2, <1>3, <1>4, <2>2 DEF CheckoutInv, CustomerHolds
  <2>5. Grows BY <1>3, <2>2 DEF Grows
  <2>6. QED BY <1>5, <2>1, <2>3, <2>4, <2>5, FailingHolds
<1>6. CASE /\ checkout' = [checkout EXCEPT ![c].at = "inserting", ![c].customer = id]
           /\ UNCHANGED <<customer, operation, lock>>
  <2>1. /\ checkout' \in [Checkouts -> CheckoutStates]
        /\ checkout'[c].at = "inserting" /\ checkout'[c].customer = id
        /\ checkout'[c].key = checkout[c].key
        /\ \A d \in Checkouts \ {c} : checkout'[d] = checkout[d]
    BY <1>1, <1>2, <1>6, CheckoutLearnsCustomer DEF CheckoutInv
  <2>2. CheckoutTypes' BY <1>1, <1>3, <1>6, <2>1 DEF CheckoutInv, CheckoutTypes
  <2>3. CustomerHolds' BY <1>1, <1>2, <1>3, <1>4, <1>6 DEF CheckoutInv, CustomerHolds
  <2>4. RequestHolds(c)'
    BY <1>1, <1>2, <1>3, <1>6, <2>1 DEF CheckoutInv, RequestHolds, Under
  <2>5. Grows BY <1>3, <1>6 DEF Grows
  <2>6. \A d \in Checkouts \ {c} : RequestHolds(d)'
    BY <1>6, <2>1, <2>5, OtherRequestsHold DEF CheckoutInv
  <2>7. QED BY <2>2, <2>3, <2>4, <2>6 DEF CheckoutInv
<1>7. QED BY <1>1, <1>5, <1>6

LEMMA InsertCustomerHolds ==
  ASSUME CheckoutInv, NEW c \in Checkouts, C!InsertCustomer(c)
  PROVE  CheckoutInv'
<1>1. /\ checkout[c].at = "inserting" /\ UNCHANGED <<customers, sessions, memory, days>>
      /\ lock = c /\ checkout[c].customer # None
  BY DEF C!InsertCustomer, C!provider, CheckoutInv, RequestHolds
<1>2. None \notin Checkouts /\ None \notin Nat
  BY AccountAssumption DEF C!CheckoutAssumption
<1>3. customer = None BY <1>1, <1>2 DEF CheckoutInv, CustomerHolds
<1>4. /\ customer' = checkout[c].customer /\ lock' = None
      /\ C!Goes(c, "customer") /\ UNCHANGED operation
  BY <1>3 DEF C!InsertCustomer
<1>5. /\ checkout' \in [Checkouts -> CheckoutStates]
      /\ checkout'[c].at = "customer" /\ checkout'[c].key = checkout[c].key
      /\ checkout'[c].customer = checkout[c].customer
      /\ \A d \in Checkouts \ {c} : checkout'[d] = checkout[d]
  BY <1>1, <1>4, CheckoutGoes DEF CheckoutInv
<1>6. checkout[c].customer \in Nat
  BY <1>1, CheckoutForms DEF CheckoutInv
<1>7. sessions = {}
  BY <1>2, <1>3 DEF CheckoutInv, CheckoutTypes, CustomerHolds
<1>8. CheckoutTypes' /\ CustomerHolds'
  BY <1>1, <1>4, <1>5, <1>6, <1>7 DEF CheckoutInv, CheckoutTypes, CustomerHolds
<1>9. Grows BY <1>1, <1>3, <1>4 DEF Grows
<1>10. RequestHolds(c)'
  BY <1>1, <1>2, <1>4, <1>5 DEF CheckoutInv, RequestHolds, Under
<1>11. \A d \in Checkouts \ {c} : RequestHolds(d)'
  BY <1>1, <1>2, <1>4, <1>5, <1>9, OtherRequestsHold DEF CheckoutInv
<1>12. QED BY <1>8, <1>10, <1>11 DEF CheckoutInv


LEMMA CreateCheckoutHolds ==
  ASSUME CheckoutInv, NEW c \in Checkouts, C!CreateCheckout(c)
  PROVE  CheckoutInv'
<1> DEFINE q == checkout[c]
           order == memory.order[q.key]
           id == IF order = None THEN Cardinality(sessions) + 1 ELSE order.session
<1>1. checkout[c].at = "customer" /\ Under(c) BY DEF C!CreateCheckout, Under
<1>2. /\ q.key \in OrderKeys /\ q.price \in Prices /\ q.customer = customer
      /\ customer \in Nat
  BY <1>1, CheckoutForms DEF CheckoutInv, CheckoutTypes, RequestHolds
<1>3. /\ None \notin Checkouts /\ None \notin Nat
      /\ None \notin [price : Prices, session : Nat]
  BY AccountAssumption DEF C!CheckoutAssumption
<1>4. order \in Remembered BY <1>2 DEF CheckoutInv, CheckoutTypes
<1>5. id \in Nat
  BY <1>4, FS_CardinalityType DEF Remembered, CheckoutInv, CheckoutTypes
<1>6. \/ C!Fails(c) /\ UNCHANGED <<customers, sessions, memory, days>>
      \/ /\ sessions' = sessions \cup
              (IF order = None THEN {[id |-> id, customer |-> q.customer]} ELSE {})
         /\ memory' = [memory EXCEPT !.order[q.key] = [price |-> q.price, session |-> id]]
         /\ \/ /\ checkout' = [checkout EXCEPT ![c].at = "made", ![c].session = id]
               /\ UNCHANGED <<customer, operation, lock>>
            \/ C!Fails(c)
         /\ UNCHANGED <<customers, days>>
  BY SameCardinality DEF C!CreateCheckout, C!provider
<1>7. CASE C!Fails(c) /\ UNCHANGED <<customers, sessions, memory, days>>
  <2>1. C!Abandon(c) BY <1>1, <1>7 DEF C!Abandon, C!InFlight, C!provider
  <2>2. QED BY <2>1, AbandonHolds
<1>8. CASE /\ sessions' = sessions \cup
                (IF order = None THEN {[id |-> id, customer |-> q.customer]} ELSE {})
           /\ memory' = [memory EXCEPT !.order[q.key] = [price |-> q.price, session |-> id]]
           /\ \/ /\ checkout' = [checkout EXCEPT ![c].at = "made", ![c].session = id]
                 /\ UNCHANGED <<customer, operation, lock>>
              \/ C!Fails(c)
           /\ UNCHANGED <<customers, days>>
  <2>1. IsFiniteSet(sessions') /\ \A s \in sessions' : s.customer = customer
    <3>1. IsFiniteSet(sessions) /\ \A s \in sessions : s.customer = customer
      BY DEF CheckoutInv, CheckoutTypes, CustomerHolds
    <3>2. CASE order # None BY <1>8, <3>1, <3>2
    <3>3. CASE order = None
      <4>1. sessions' = sessions \cup {[id |-> id, customer |-> q.customer]} BY <1>8, <3>3
      <4>2. [id |-> id, customer |-> q.customer].customer = customer BY <1>2
      <4> HIDE DEF q, id, order
      <4>3. QED BY <3>1, <4>1, <4>2, FS_AddElement
    <3>4. QED BY <3>2, <3>3
  <2> DEFINE remembered == [price |-> q.price, session |-> id]
  <2>2. /\ remembered \in Remembered /\ remembered # None /\ remembered.session = id
        /\ order # None => id = order.session
    BY <1>2, <1>3, <1>5 DEF Remembered
  <2>3. /\ memory' \in [customer : Nat \cup {None}, order : [OrderKeys -> Remembered]]
        /\ memory'.customer = memory.customer
        /\ memory'.order = [memory.order EXCEPT ![q.key] = remembered]
    <3> HIDE DEF remembered
    <3>1. memory' = [memory EXCEPT !.order = [memory.order EXCEPT ![q.key] = remembered]]
      BY <1>8 DEF remembered
    <3>2. [memory.order EXCEPT ![q.key] = remembered] \in [OrderKeys -> Remembered]
      BY <2>2 DEF CheckoutInv, CheckoutTypes
    <3>3. QED BY <3>1, <3>2 DEF CheckoutInv, CheckoutTypes
  <2>4. /\ memory'.order[q.key] = remembered
        /\ \A k \in OrderKeys \ {q.key} : memory'.order[k] = memory.order[k]
    BY <1>2, <2>3 DEF CheckoutInv, CheckoutTypes
  <2> HIDE DEF remembered, order, id
  <2>5. UNCHANGED <<customer, operation, customers, days>>
    BY <1>8 DEF C!Fails
  <2>6. Grows
    <3>1. \A k \in OrderKeys : memory.order[k] # None =>
            memory'.order[k] # None /\ memory'.order[k].session = memory.order[k].session
      BY <2>2, <2>4 DEF order
    <3>2. QED BY <2>5, <3>1 DEF Grows
  <2>7. \A s \in sessions' : s.customer \in Nat BY <1>2, <2>1
  <2>8. CASE C!Fails(c)
    <3>1. /\ checkout' \in [Checkouts -> CheckoutStates]
          /\ lock' \in Checkouts \cup {None}
          /\ customer' # None => lock' = None
      BY <1>1, <2>8, FailingTypes
    <3>2. CheckoutTypes' BY <2>1, <2>3, <2>5, <2>7, <3>1 DEF CheckoutInv, CheckoutTypes
    <3>3. CustomerHolds' BY <2>1, <2>3, <2>5, <3>1 DEF CheckoutInv, CustomerHolds
    <3>4. QED BY <1>1, <2>6, <2>8, <3>2, <3>3, FailingHolds
  <2>9. CASE /\ checkout' = [checkout EXCEPT ![c].at = "made", ![c].session = id]
             /\ UNCHANGED <<customer, operation, lock>>
    <3>1. /\ checkout' \in [Checkouts -> CheckoutStates]
          /\ checkout'[c].at = "made" /\ checkout'[c].session = id
          /\ checkout'[c].key = checkout[c].key
          /\ checkout'[c].customer = checkout[c].customer
          /\ \A d \in Checkouts \ {c} : checkout'[d] = checkout[d]
      BY <1>1, <1>5, <2>9, CheckoutLearnsSession DEF CheckoutInv
    <3>2. CheckoutTypes'
      BY <2>1, <2>3, <2>5, <2>7, <2>9, <3>1 DEF CheckoutInv, CheckoutTypes
    <3>3. CustomerHolds' BY <2>1, <2>3, <2>5, <2>9 DEF CheckoutInv, CustomerHolds
    <3>4. memory'.order[q.key] # None /\ memory'.order[q.key].session = id
      BY <2>2, <2>4
    <3>5. operation[q.key] # None => id = operation[q.key]
      BY <1>1, <2>2 DEF CheckoutInv, RequestHolds, order
    <3>6. RequestHolds(c)'
      BY <1>1, <1>2, <1>3, <2>5, <2>9, <3>1, <3>4, <3>5
         DEF CheckoutInv, RequestHolds, Under
    <3>7. \A d \in Checkouts \ {c} : RequestHolds(d)'
      BY <2>6, <2>9, <3>1, OtherRequestsHold DEF CheckoutInv
    <3>8. QED BY <3>2, <3>3, <3>6, <3>7 DEF CheckoutInv
  <2>10. QED BY <1>8, <2>8, <2>9
<1>9. QED BY <1>6, <1>7, <1>8

LEMMA RecordOperationHolds ==
  ASSUME CheckoutInv, NEW c \in Checkouts, C!RecordOperation(c)
  PROVE  CheckoutInv'
<1> DEFINE ordered == checkout[c].key
           session1 == checkout[c].session
<1>1. /\ checkout[c].at = "made" /\ C!Goes(c, "answered")
      /\ operation' = [operation EXCEPT ![ordered] = IF @ = None THEN session1 ELSE @]
      /\ UNCHANGED <<customer, lock, customers, sessions, memory, days>>
  BY DEF C!RecordOperation, C!provider
<1>2. ordered \in OrderKeys BY <1>1, CheckoutForms DEF CheckoutInv
<1>3. None \notin Checkouts /\ None \notin Nat
  BY AccountAssumption DEF C!CheckoutAssumption
<1>4. /\ memory.order[ordered] # None /\ memory.order[ordered].session = session1
      /\ operation[ordered] # None => operation[ordered] = session1
  BY <1>1 DEF CheckoutInv, RequestHolds, Under
<1>5. session1 \in Nat
  BY <1>2, <1>4 DEF CheckoutInv, CheckoutTypes, Remembered
<1>6. /\ operation' \in [OrderKeys -> Nat \cup {None}] /\ operation'[ordered] = session1
      /\ \A k \in OrderKeys \ {ordered} : operation'[k] = operation[k]
  BY <1>1, <1>2, <1>4, <1>5 DEF CheckoutInv, CheckoutTypes
<1>7. /\ checkout' \in [Checkouts -> CheckoutStates]
      /\ checkout'[c].at = "answered" /\ checkout'[c].key = ordered
      /\ checkout'[c].session = session1
      /\ \A d \in Checkouts \ {c} : checkout'[d] = checkout[d]
  BY <1>1, CheckoutGoes DEF CheckoutInv
<1> HIDE DEF ordered, session1
<1>8. CheckoutTypes' /\ CustomerHolds'
  BY <1>1, <1>6, <1>7 DEF CheckoutInv, CheckoutTypes, CustomerHolds
<1>9. Grows BY <1>1, <1>4, <1>6 DEF Grows
<1>10. RequestHolds(c)'
  BY <1>1, <1>3, <1>5, <1>6, <1>7 DEF CheckoutInv, RequestHolds, Under
<1>11. \A d \in Checkouts \ {c} : RequestHolds(d)'
  BY <1>1, <1>7, <1>9, OtherRequestsHold DEF CheckoutInv
<1>12. QED BY <1>8, <1>10, <1>11 DEF CheckoutInv

LEMMA DayPassesHolds ==
  ASSUME CheckoutInv, C!DayPasses
  PROVE  CheckoutInv'
<1>1. /\ \A c \in Checkouts : checkout[c].at \in {"idle", "answered", "failed"}
      /\ memory' = C!Blank /\ days' = days + 1
      /\ UNCHANGED <<customer, operation, lock, checkout, customers, sessions>>
  BY DEF C!DayPasses, C!InFlight
<1>2. /\ memory' \in [customer : Nat \cup {None}, order : [OrderKeys -> Remembered]]
      /\ memory'.customer = None
  BY <1>1 DEF C!Blank, Remembered
<1>3. CheckoutTypes' BY <1>1, <1>2 DEF CheckoutInv, CheckoutTypes
<1>4. CustomerHolds'
  BY <1>1, <1>2 DEF CheckoutInv, CheckoutTypes, CustomerHolds
<1>5. \A c \in Checkouts : RequestHolds(c)'
  BY <1>1 DEF CheckoutInv, RequestHolds, Under
<1>6. QED BY <1>3, <1>4, <1>5 DEF CheckoutInv

LEMMA CheckoutStep ==
  ASSUME CheckoutInv, [C!Next]_(C!vars)
  PROVE  CheckoutInv'
<1>1. CASE C!DayPasses BY <1>1, DayPassesHolds
<1>2. CASE \E c \in Checkouts :
             \/ \E key1 \in OrderKeys, price \in Prices : C!Lookup(c, key1, price)
             \/ C!FindCustomer(c) \/ C!CreateCustomer(c) \/ C!InsertCustomer(c)
             \/ C!CreateCheckout(c) \/ C!RecordOperation(c) \/ C!Abandon(c)
  BY <1>2, LookupHolds, FindCustomerHolds, CreateCustomerHolds, InsertCustomerHolds,
     CreateCheckoutHolds, RecordOperationHolds, AbandonHolds
<1>3. CASE UNCHANGED C!vars
  <2>1. UNCHANGED <<customer, operation, lock, checkout, customers, sessions, memory, days>>
    BY <1>3 DEF C!vars
  <2>2. CheckoutTypes' /\ CustomerHolds'
    BY <2>1 DEF CheckoutInv, CheckoutTypes, CustomerHolds
  <2>3. \A c \in Checkouts : RequestHolds(c)'
    BY <2>1 DEF CheckoutInv, RequestHolds, Under
  <2>4. QED BY <2>2, <2>3 DEF CheckoutInv
<1>4. QED BY <1>1, <1>2, <1>3 DEF C!Next

\* Whatever the requests are, however often they are repeated, overtake each
\* other, fail or lose their process, and whatever the provider forgets: every
\* session is one of the organization's only customer, and all answers to a
\* key1 are the recorded session (BillingService.checkout).
THEOREM CheckoutsAlwaysAgree == C!Spec => []CheckoutsAgree
<1>1. CheckoutInv => CheckoutsAgree
  <2>1. CheckoutInv => C!OneCustomer
    BY DEF CheckoutInv, CheckoutTypes, CustomerHolds, C!OneCustomer
  <2>2. CheckoutInv => C!AnswersAgree
    BY DEF CheckoutInv, RequestHolds, C!AnswersAgree
  <2>3. QED BY <2>1, <2>2 DEF CheckoutsAgree, C!CheckoutsAgree
<1>2. QED BY <1>1, CheckoutInit, CheckoutStep, PTL DEF C!Spec


-----------------------------------------------------------------------------
(***************************************************************************)
(* SignIn.  A state in the memory expires StateLife after it was issued,   *)
(* and one that has admitted a callback is never in the memory again; what *)
(* an exchange has verified stays so, and a credential's assertion is used *)
(* up.                                                                     *)
(***************************************************************************)
Called == [at : {"exchanging", "refused", "user", "signedIn"}, state : States, since : Nat]

CallbackStates == {[at |-> "idle"]} \cup Called

Exchanged ==
  [at : {"refused", "trusted", "verified", "issued"}, assertion : Assertions,
   refs : (SUBSET Refs) \cup {None}]

ExchangeStates == {[at |-> "idle"]} \cup Exchanged

Admitted(c) == callback[c].at \in {"exchanging", "user", "signedIn"}

BrowserTypes ==
  /\ clock \in Nat
  /\ oauthStates \in [States -> Nat \cup {None}] /\ issued \in [States -> Nat \cup {None}]
  /\ callback \in [Callbacks -> CallbackStates]

StatesHold ==
  \A s \in States : oauthStates[s] # None =>
    issued[s] # None /\ oauthStates[s] = issued[s] + StateLife

CallbacksHold ==
  /\ \A c \in Callbacks : Admitted(c) =>
       /\ oauthStates[callback[c].state] = None
       /\ issued[callback[c].state] # None
       /\ callback[c].since <= issued[callback[c].state] + StateLife
  /\ \A c, d \in Callbacks :
       Admitted(c) /\ Admitted(d) /\ callback[c].state = callback[d].state => c = d

BrowserInv == BrowserTypes /\ StatesHold /\ CallbacksHold

Trusted(refs, a) == refs = {} \/ RefOf[a] \in refs

ActionTypes ==
  /\ trust \in (SUBSET Refs) \cup {None}
  /\ exchange \in [Exchanges -> ExchangeStates]

CredentialsHold ==
  /\ \A x \in Exchanges : exchange[x].at = "verified" =>
       Trusted(exchange[x].refs, exchange[x].assertion)
  /\ \A k \in credentials : /\ k.assertion \in replays
                            /\ Trusted(k.refs, k.assertion)
                            /\ k.expires <= AssertionLife
  /\ \A k, l \in credentials : k.assertion = l.assertion => k = l

ActionInv == ActionTypes /\ CredentialsHold

SignInInv == BrowserInv /\ ActionInv

LEMMA SignInInit == S!Init => SignInInv
BY DEF S!Init, SignInInv, BrowserInv, BrowserTypes, StatesHold, CallbacksHold, Admitted,
       CallbackStates, ActionInv, ActionTypes, ExchangeStates, CredentialsHold

LEMMA SignInNumbers ==
  /\ None \notin Nat /\ StateLife \in Nat /\ AssertionLife \in Nat /\ CredentialLife \in Nat
BY AccountAssumption DEF S!SignInAssumption

LEMMA CallbackForms ==
  ASSUME BrowserTypes, NEW c \in Callbacks
  PROVE  /\ callback[c].at \in {"idle", "exchanging", "refused", "user", "signedIn"}
         /\ callback[c].at # "idle" =>
              callback[c].state \in States /\ callback[c].since \in Nat
<1>1. callback[c] \in CallbackStates BY DEF BrowserTypes
<1>2. QED BY <1>1 DEF CallbackStates, Called

\* A callback that goes on, for the state that it came with.
LEMMA CallbackGoes ==
  ASSUME BrowserInv, NEW c \in Callbacks, callback[c].at # "idle",
         NEW at \in {"refused", "user", "signedIn"}, at # "refused" => Admitted(c),
         callback' = [callback EXCEPT ![c].at = at],
         UNCHANGED <<clock, oauthStates, issued>>
  PROVE  BrowserInv'
<1> DEFINE next == [callback[c] EXCEPT !.at = at]
<1>1. callback[c] \in Called BY DEF BrowserInv, BrowserTypes, CallbackStates
<1>2. /\ next \in Called /\ next.at = at
      /\ next.state = callback[c].state /\ next.since = callback[c].since
  BY <1>1 DEF Called
<1>3. callback' = [callback EXCEPT ![c] = next] BY DEF BrowserInv, BrowserTypes
<1> HIDE DEF next
<1>4. /\ callback' \in [Callbacks -> CallbackStates] /\ callback'[c] = next
      /\ \A d \in Callbacks \ {c} : callback'[d] = callback[d]
  BY <1>2, <1>3 DEF BrowserInv, BrowserTypes, CallbackStates
<1>5. \A d \in Callbacks :
        /\ Admitted(d)' => Admitted(d)
        /\ callback'[d].state = callback[d].state /\ callback'[d].since = callback[d].since
  BY <1>2, <1>4 DEF Admitted
<1>6. BrowserTypes' /\ StatesHold'
  BY <1>4 DEF BrowserInv, BrowserTypes, StatesHold
<1>7. CallbacksHold' BY <1>5 DEF BrowserInv, CallbacksHold
<1>8. QED BY <1>6, <1>7 DEF BrowserInv

LEMMA TickHolds ==
  ASSUME BrowserInv, S!Tick
  PROVE  BrowserInv'
<1>1. clock' = clock + 1 /\ UNCHANGED <<oauthStates, issued, callback>>
  BY DEF S!Tick, S!browser
<1>2. QED
  BY <1>1 DEF BrowserInv, BrowserTypes, StatesHold, CallbacksHold, Admitted

LEMMA LoginHolds ==
  ASSUME BrowserInv, NEW s \in States, S!Login(s)
  PROVE  BrowserInv'
<1>1. issued[s] = None /\ UNCHANGED <<clock, callback>> BY DEF S!Login
<1>2. CASE UNCHANGED <<oauthStates, issued>>
  BY <1>1, <1>2 DEF BrowserInv, BrowserTypes, StatesHold, CallbacksHold, Admitted
<1>3. CASE /\ oauthStates' = [oauthStates EXCEPT ![s] = clock + StateLife]
           /\ issued' = [issued EXCEPT ![s] = clock]
  <2>1. /\ BrowserTypes' /\ oauthStates'[s] = clock + StateLife /\ issued'[s] = clock
        /\ \A t \in States \ {s} : oauthStates'[t] = oauthStates[t] /\ issued'[t] = issued[t]
    BY <1>1, <1>3, SignInNumbers DEF BrowserInv, BrowserTypes
  <2>2. clock # None BY SignInNumbers DEF BrowserInv, BrowserTypes
  <2>3. StatesHold' BY <2>1, <2>2 DEF BrowserInv, StatesHold
  <2>4. \A c \in Callbacks : Admitted(c) => callback[c].state \in States \ {s}
    BY <1>1, CallbackForms DEF BrowserInv, CallbacksHold, Admitted
  <2>5. CallbacksHold' BY <1>1, <2>1, <2>4 DEF BrowserInv, CallbacksHold, Admitted
  <2>6. QED BY <2>1, <2>3, <2>5 DEF BrowserInv
<1>4. QED BY <1>2, <1>3 DEF S!Login

LEMMA CallbackHolds ==
  ASSUME BrowserInv, NEW c \in Callbacks, NEW s \in States, S!Callback(c, s)
  PROVE  BrowserInv'
<1> DEFINE next == [at |-> IF oauthStates[s] # None /\ oauthStates[s] >= clock
                           THEN "exchanging" ELSE "refused",
                    state |-> s, since |-> clock]
<1>1. /\ callback[c].at = "idle" /\ issued[s] # None
      /\ callback' = [callback EXCEPT ![c] = next]
      /\ oauthStates' = [oauthStates EXCEPT ![s] = None] /\ UNCHANGED <<clock, issued>>
  BY DEF S!Callback
<1>2. /\ next \in CallbackStates /\ next.state = s /\ next.since = clock
      /\ next.at \in {"exchanging", "refused"}
      /\ next.at = "exchanging" => oauthStates[s] # None /\ oauthStates[s] >= clock
  BY DEF BrowserInv, BrowserTypes, CallbackStates, Called
<1> HIDE DEF next
<1>3. /\ callback' \in [Callbacks -> CallbackStates] /\ callback'[c] = next
      /\ \A d \in Callbacks \ {c} : callback'[d] = callback[d]
  BY <1>1, <1>2 DEF BrowserInv, BrowserTypes
<1>4. /\ oauthStates' \in [States -> Nat \cup {None}] /\ oauthStates'[s] = None
      /\ \A t \in States \ {s} : oauthStates'[t] = oauthStates[t]
  BY <1>1 DEF BrowserInv, BrowserTypes
<1>5. BrowserTypes' /\ StatesHold'
  BY <1>1, <1>3, <1>4 DEF BrowserInv, BrowserTypes, StatesHold
<1>6. Admitted(c)' =>
        /\ oauthStates[s] # None /\ oauthStates'[s] = None /\ issued'[s] # None
        /\ clock <= issued'[s] + StateLife
  BY <1>1, <1>2, <1>3, <1>4, SignInNumbers
     DEF Admitted, BrowserInv, BrowserTypes, StatesHold
<1>7. \A d \in Callbacks \ {c} : Admitted(d)' <=> Admitted(d)
  BY <1>3 DEF Admitted
<1>8. \A d \in Callbacks : Admitted(d) =>
        callback[d].state \in States /\ oauthStates'[callback[d].state] = None
  BY <1>4, CallbackForms DEF BrowserInv, CallbacksHold, Admitted
<1>9. \A d \in Callbacks : Admitted(d)' =>
        /\ oauthStates'[callback'[d].state] = None
        /\ issued'[callback'[d].state] # None
        /\ callback'[d].since <= issued'[callback'[d].state] + StateLife
  BY <1>1, <1>2, <1>3, <1>6, <1>7, <1>8 DEF BrowserInv, CallbacksHold
<1>10. \A d \in Callbacks \ {c} : Admitted(c)' /\ Admitted(d) => callback[d].state # s
  BY <1>6 DEF BrowserInv, CallbacksHold
<1>11. \A d, e \in Callbacks :
         Admitted(d)' /\ Admitted(e)' /\ callback'[d].state = callback'[e].state => d = e
  BY <1>2, <1>3, <1>7, <1>10 DEF BrowserInv, CallbacksHold
<1>12. QED BY <1>5, <1>9, <1>11 DEF BrowserInv, CallbacksHold

LEMMA ProfileHolds ==
  ASSUME BrowserInv, NEW c \in Callbacks, S!Profile(c)
  PROVE  BrowserInv'
<1>1. callback[c].at = "exchanging" /\ UNCHANGED <<clock, oauthStates, issued>>
  BY DEF S!Profile
<1>2. PICK at \in {"user", "refused"} : callback' = [callback EXCEPT ![c].at = at]
  BY DEF S!Profile
<1>3. QED BY <1>1, <1>2, CallbackGoes DEF Admitted

LEMMA CreateSessionHolds ==
  ASSUME BrowserInv, NEW c \in Callbacks, S!CreateSession(c)
  PROVE  BrowserInv'
<1>1. /\ callback[c].at = "user" /\ UNCHANGED <<clock, oauthStates, issued>>
      /\ callback' = [callback EXCEPT ![c].at = "signedIn"]
  BY DEF S!CreateSession
<1>2. QED BY <1>1, CallbackGoes DEF Admitted


LEMMA ExchangeForms ==
  ASSUME ActionTypes, NEW x \in Exchanges
  PROVE  /\ exchange[x].at \in {"idle", "refused", "trusted", "verified", "issued"}
         /\ exchange[x].at # "idle" => exchange[x] \in Exchanged
<1>1. exchange[x] \in ExchangeStates BY DEF ActionTypes
<1>2. QED BY <1>1 DEF ExchangeStates, Exchanged

\* A dead process refuses what it had under way, and holds no state.
LEMMA RestartHolds ==
  ASSUME SignInInv, S!Restart
  PROVE  SignInInv'
<1>1. /\ oauthStates' = [s \in States |-> None]
      /\ callback' = [c \in Callbacks |->
           IF callback[c].at \in {"exchanging", "user"}
           THEN [callback[c] EXCEPT !.at = "refused"] ELSE callback[c]]
      /\ exchange' = [x \in Exchanges |->
           IF exchange[x].at \in {"trusted", "verified"}
           THEN [exchange[x] EXCEPT !.at = "refused"] ELSE exchange[x]]
      /\ UNCHANGED <<clock, issued, trust, replays, credentials>>
  BY DEF S!Restart
<1>2. ASSUME NEW c \in Callbacks
      PROVE  /\ callback'[c] \in CallbackStates
             /\ Admitted(c)' => Admitted(c) /\ callback'[c] = callback[c]
  <2>1. callback[c] \in CallbackStates BY DEF SignInInv, BrowserInv, BrowserTypes
  <2>2. CASE callback[c].at \in {"exchanging", "user"}
    <3>1. callback[c] \in Called BY <2>1, <2>2 DEF CallbackStates
    <3>2. callback'[c] = [callback[c] EXCEPT !.at = "refused"] BY <1>1, <2>2
    <3>3. /\ [callback[c] EXCEPT !.at = "refused"] \in Called
          /\ [callback[c] EXCEPT !.at = "refused"].at = "refused"
      BY <3>1 DEF Called
    <3>4. QED BY <3>2, <3>3 DEF CallbackStates, Admitted
  <2>3. CASE callback[c].at \notin {"exchanging", "user"}
    BY <1>1, <2>1, <2>3 DEF Admitted
  <2>4. QED BY <2>2, <2>3
<1>3. ASSUME NEW x \in Exchanges
      PROVE  exchange'[x] \in ExchangeStates /\ exchange'[x].at # "verified"
  <2>1. exchange[x] \in ExchangeStates BY DEF SignInInv, ActionInv, ActionTypes
  <2>2. CASE exchange[x].at \in {"trusted", "verified"}
    <3>1. exchange[x] \in Exchanged BY <2>1, <2>2 DEF ExchangeStates
    <3>2. exchange'[x] = [exchange[x] EXCEPT !.at = "refused"] BY <1>1, <2>2
    <3>3. /\ [exchange[x] EXCEPT !.at = "refused"] \in Exchanged
          /\ [exchange[x] EXCEPT !.at = "refused"].at = "refused"
      BY <3>1 DEF Exchanged
    <3>4. QED BY <3>2, <3>3 DEF ExchangeStates
  <2>3. CASE exchange[x].at \notin {"trusted", "verified"} BY <1>1, <2>1, <2>3
  <2>4. QED BY <2>2, <2>3
<1>4. BrowserTypes'
  <2>1. callback' \in [Callbacks -> CallbackStates] BY <1>1, <1>2
  <2>2. QED BY <1>1, <2>1 DEF SignInInv, BrowserInv, BrowserTypes
<1>5. StatesHold' BY <1>1 DEF StatesHold
<1>6. CallbacksHold'
  <2>1. \A c \in Callbacks : Admitted(c)' => callback[c].state \in States
    BY <1>2, CallbackForms DEF SignInInv, BrowserInv, Admitted
  <2>2. QED BY <1>1, <1>2, <2>1 DEF SignInInv, BrowserInv, CallbacksHold
<1>7. ActionTypes'
  <2>1. exchange' \in [Exchanges -> ExchangeStates] BY <1>1, <1>3
  <2>2. QED BY <1>1, <2>1 DEF SignInInv, ActionInv, ActionTypes
<1>8. CredentialsHold' BY <1>1, <1>3 DEF SignInInv, ActionInv, CredentialsHold
<1>9. QED BY <1>4, <1>5, <1>6, <1>7, <1>8 DEF SignInInv, BrowserInv, ActionInv

LEMMA CreateTrustHolds ==
  ASSUME ActionInv, NEW c \in Callbacks, NEW refs \in SUBSET Refs, S!CreateTrust(c, refs)
  PROVE  ActionInv'
<1>1. trust' = refs /\ UNCHANGED <<exchange, replays, credentials>> BY DEF S!CreateTrust
<1>2. QED BY <1>1 DEF ActionInv, ActionTypes, CredentialsHold

LEMMA ReadTrustHolds ==
  ASSUME ActionInv, NEW x \in Exchanges, NEW a \in Assertions, S!ReadTrust(x, a)
  PROVE  ActionInv'
<1> DEFINE next == [at |-> IF trust = None THEN "refused" ELSE "trusted",
                    assertion |-> a, refs |-> trust]
<1>1. exchange' = [exchange EXCEPT ![x] = next] /\ UNCHANGED <<trust, replays, credentials>>
  BY DEF S!ReadTrust
<1>2. next \in ExchangeStates /\ next.at # "verified"
  BY DEF ActionInv, ActionTypes, ExchangeStates, Exchanged
<1> HIDE DEF next
<1>3. /\ exchange' \in [Exchanges -> ExchangeStates] /\ exchange'[x] = next
      /\ \A y \in Exchanges \ {x} : exchange'[y] = exchange[y]
  BY <1>1, <1>2 DEF ActionInv, ActionTypes
<1>4. ActionTypes' BY <1>1, <1>3 DEF ActionInv, ActionTypes
<1>5. CredentialsHold' BY <1>1, <1>2, <1>3 DEF ActionInv, CredentialsHold
<1>6. QED BY <1>4, <1>5 DEF ActionInv

\* An exchange that goes on, with the assertion and the refs that it has read.
LEMMA ExchangeGoes ==
  ASSUME ActionTypes, NEW x \in Exchanges, exchange[x].at # "idle",
         NEW at \in {"refused", "verified", "issued"},
         exchange' = [exchange EXCEPT ![x].at = at]
  PROVE  /\ exchange' \in [Exchanges -> ExchangeStates] /\ exchange'[x].at = at
         /\ exchange'[x].refs = exchange[x].refs
         /\ exchange'[x].assertion = exchange[x].assertion
         /\ \A y \in Exchanges \ {x} : exchange'[y] = exchange[y]
<1> DEFINE next == [exchange[x] EXCEPT !.at = at]
<1>1. exchange[x] \in Exchanged BY ExchangeForms
<1>2. /\ next \in Exchanged /\ next.at = at
      /\ next.refs = exchange[x].refs /\ next.assertion = exchange[x].assertion
  BY <1>1 DEF Exchanged
<1>3. exchange' = [exchange EXCEPT ![x] = next] BY DEF ActionTypes
<1> HIDE DEF next
<1>4. QED BY <1>2, <1>3 DEF ActionTypes, ExchangeStates

LEMMA VerifyHolds ==
  ASSUME ActionInv, NEW x \in Exchanges, S!Verify(x)
  PROVE  ActionInv'
<1> DEFINE valid == clock < AssertionLife /\ Trusted(exchange[x].refs, exchange[x].assertion)
           at == IF valid THEN "verified" ELSE "refused"
<1>1. /\ exchange[x].at = "trusted" /\ exchange' = [exchange EXCEPT ![x].at = at]
      /\ UNCHANGED <<trust, replays, credentials>>
  BY DEF S!Verify, Trusted
<1>2. /\ at \in {"refused", "verified"}
      /\ at = "verified" => Trusted(exchange[x].refs, exchange[x].assertion)
  OBVIOUS
<1> HIDE DEF at
<1>3. /\ exchange' \in [Exchanges -> ExchangeStates] /\ exchange'[x].at = at
      /\ exchange'[x].refs = exchange[x].refs
      /\ exchange'[x].assertion = exchange[x].assertion
      /\ \A y \in Exchanges \ {x} : exchange'[y] = exchange[y]
  BY <1>1, <1>2, ExchangeGoes DEF ActionInv
<1>4. ActionTypes' BY <1>1, <1>3 DEF ActionInv, ActionTypes
<1>5. CredentialsHold' BY <1>1, <1>2, <1>3 DEF ActionInv, CredentialsHold, Trusted
<1>6. QED BY <1>4, <1>5 DEF ActionInv

LEMMA IssueHolds ==
  ASSUME ActionInv, clock \in Nat, NEW x \in Exchanges, S!Issue(x)
  PROVE  ActionInv'
<1> DEFINE a == exchange[x].assertion
           expires1 == S!Least(AssertionLife, clock + CredentialLife)
           new == [by |-> x, assertion |-> a, refs |-> exchange[x].refs,
                   expires |-> expires1]
<1>1. exchange[x].at = "verified" /\ UNCHANGED trust BY DEF S!Issue
<1>2. CASE a \in replays
  <2>1. /\ exchange' = [exchange EXCEPT ![x].at = "refused"]
        /\ UNCHANGED <<replays, credentials>>
    BY <1>2 DEF S!Issue
  <2>2. /\ exchange' \in [Exchanges -> ExchangeStates] /\ exchange'[x].at = "refused"
        /\ \A y \in Exchanges \ {x} : exchange'[y] = exchange[y]
    BY <1>1, <2>1, ExchangeGoes DEF ActionInv
  <2>3. ActionTypes' BY <1>1, <2>2 DEF ActionInv, ActionTypes
  <2>4. CredentialsHold' BY <2>1, <2>2 DEF ActionInv, CredentialsHold
  <2>5. QED BY <2>3, <2>4 DEF ActionInv
<1>3. CASE a \notin replays
  <2>1. /\ exchange' = [exchange EXCEPT ![x].at = "issued"]
        /\ replays' = replays \cup {a} /\ credentials' = credentials \cup {new}
    BY <1>3 DEF S!Issue
  <2>2. /\ exchange' \in [Exchanges -> ExchangeStates] /\ exchange'[x].at = "issued"
        /\ \A y \in Exchanges \ {x} : exchange'[y] = exchange[y]
    BY <1>1, <2>1, ExchangeGoes DEF ActionInv
  <2>3. expires1 <= AssertionLife BY SignInNumbers DEF S!Least
  <2>4. Trusted(exchange[x].refs, a) BY <1>1 DEF ActionInv, CredentialsHold
  <2>5. /\ new.assertion = a /\ new.expires <= AssertionLife
        /\ Trusted(new.refs, new.assertion)
    BY <2>3, <2>4
  <2>6. \A k \in credentials : k.assertion \in replays /\ k.assertion # a
    BY <1>3 DEF ActionInv, CredentialsHold
  <2> HIDE DEF new, a
  <2>7. ActionTypes' BY <1>1, <2>2 DEF ActionInv, ActionTypes
  <2>8. \A y \in Exchanges : exchange'[y].at = "verified" =>
          Trusted(exchange'[y].refs, exchange'[y].assertion)
    BY <2>2 DEF ActionInv, CredentialsHold
  <2>9. \A k \in credentials' : /\ k.assertion \in replays'
                                /\ Trusted(k.refs, k.assertion)
                                /\ k.expires <= AssertionLife
    BY <2>1, <2>5, <2>6 DEF ActionInv, CredentialsHold
  <2>10. \A k, l \in credentials' : k.assertion = l.assertion => k = l
    BY <2>1, <2>5, <2>6 DEF ActionInv, CredentialsHold
  <2>11. CredentialsHold' BY <2>8, <2>9, <2>10 DEF CredentialsHold, Trusted
  <2>12. QED BY <2>7, <2>11 DEF ActionInv
<1>4. QED BY <1>2, <1>3

LEMMA SignInStep ==
  ASSUME SignInInv, [S!Next]_(S!vars)
  PROVE  SignInInv'
<1>1. BrowserInv /\ ActionInv /\ clock \in Nat
  BY DEF SignInInv, BrowserInv, BrowserTypes
<1>2. ASSUME UNCHANGED <<clock, oauthStates, issued, callback>> PROVE BrowserInv'
  BY <1>1, <1>2 DEF BrowserInv, BrowserTypes, StatesHold, CallbacksHold, Admitted
<1>3. ASSUME UNCHANGED <<trust, exchange, replays, credentials>> PROVE ActionInv'
  BY <1>1, <1>3 DEF ActionInv, ActionTypes, CredentialsHold
<1>4. CASE S!Tick \/ \E s \in States : S!Login(s)
  <2>1. BrowserInv' BY <1>1, <1>4, TickHolds, LoginHolds
  <2>2. UNCHANGED <<trust, exchange, replays, credentials>>
    BY <1>4 DEF S!Tick, S!Login, S!action
  <2>3. QED BY <1>3, <2>1, <2>2 DEF SignInInv
<1>5. CASE S!Restart BY <1>5, RestartHolds
<1>6. ASSUME NEW c \in Callbacks,
             \/ \E s \in States : S!Callback(c, s)
             \/ S!Profile(c) \/ S!CreateSession(c) \/ S!Logout(c)
             \/ \E refs \in SUBSET Refs : S!CreateTrust(c, refs)
      PROVE  SignInInv'
  <2>1. CASE \/ \E s \in States : S!Callback(c, s)
             \/ S!Profile(c) \/ S!CreateSession(c)
    <3>1. BrowserInv' BY <1>1, <2>1, CallbackHolds, ProfileHolds, CreateSessionHolds
    <3>2. UNCHANGED <<trust, exchange, replays, credentials>>
      BY <2>1 DEF S!Callback, S!Profile, S!CreateSession, S!action
    <3>3. QED BY <1>3, <3>1, <3>2 DEF SignInInv
  <2>2. CASE S!Logout(c)
    BY <1>2, <1>3, <2>2 DEF S!Logout, S!action, SignInInv
  <2>3. CASE \E refs \in SUBSET Refs : S!CreateTrust(c, refs)
    <3>1. ActionInv' BY <1>1, <2>3, CreateTrustHolds
    <3>2. UNCHANGED <<clock, oauthStates, issued, callback>>
      BY <2>3 DEF S!CreateTrust, S!browser
    <3>3. QED BY <1>2, <3>1, <3>2 DEF SignInInv
  <2>4. QED BY <1>6, <2>1, <2>2, <2>3
<1>7. ASSUME NEW x \in Exchanges,
             \/ \E a \in Assertions : S!ReadTrust(x, a)
             \/ S!Verify(x) \/ S!Issue(x)
      PROVE  SignInInv'
  <2>1. ActionInv' BY <1>1, <1>7, ReadTrustHolds, VerifyHolds, IssueHolds
  <2>2. UNCHANGED <<clock, oauthStates, issued, callback>>
    BY <1>7 DEF S!ReadTrust, S!Verify, S!Issue, S!browser
  <2>3. QED BY <1>2, <2>1, <2>2 DEF SignInInv
<1>8. CASE UNCHANGED S!vars BY <1>2, <1>3, <1>8 DEF S!vars, SignInInv
<1>9. QED BY <1>4, <1>5, <1>6, <1>7, <1>8 DEF S!Next

\* However callbacks and exchanges run at once and processes restart, a state
\* admits one callback, within its life, and an assertion buys one credential,
\* for a ref found trusted, that it outlives (/auth/callback; oidc.ts exchange).
THEOREM AlwaysSingleUse == S!Spec => []SingleUse
<1>1. SignInInv => SingleUse
  BY DEF SignInInv, BrowserInv, CallbacksHold, Admitted, ActionInv, CredentialsHold,
         Trusted, SingleUse, S!SingleUse
<1>2. QED BY <1>1, SignInInit, SignInStep, PTL DEF S!Spec


-----------------------------------------------------------------------------
(***************************************************************************)
(* The services around a run, which are instantiated in Services.          *)
(***************************************************************************)
(***************************************************************************)
(* GitHubTokens.  One caller asks for the token that is pending.  A caller *)
(* that is sure has seen no revocation, so what is underway is valid, and  *)
(* once it repeats its request so is what is kept, which it has emptied.   *)
(***************************************************************************)
CallerStates ==
  [at : {"idle", "needs", "has", "waits", "asking", "done", "refused", "failed"},
   token : Nat \cup {Nil}, retry : BOOLEAN, sure : BOOLEAN]

TokenTypes ==
  /\ tokens \in [token : Nat \cup {Nil}, fresh : BOOLEAN]
  /\ pending \in {Token!Idle} \cup [at : {"asked", "underway"}, token : Nat \cup {Nil}]
  /\ caller \in [Callers -> CallerStates]
  /\ tokensIssued \in Nat

Asking(c) == caller[c].at = "asking"

OneAsks ==
  /\ pending # Token!Idle => \E c \in Callers : Asking(c)
  /\ \A c, d \in Callers : Asking(c) /\ Asking(d) => c = d
  /\ \A c \in Callers : caller[c].at \in {"asking", "waits"} => pending # Token!Idle

SureHolds(c) ==
  /\ caller[c].at = "idle" => caller[c].retry
  /\ caller[c].sure =>
       /\ ~ Token!Doomed /\ caller[c].at # "refused"
       /\ ~ caller[c].retry =>
            /\ tokens.fresh => tokens.token \in validTokens
            /\ caller[c].at = "has" => caller[c].token \in validTokens

TokenInv == TokenTypes /\ OneAsks /\ \A c \in Callers : SureHolds(c)

LEMMA TokenInit == Token!Init => TokenInv
BY DEF Token!Init, Token!Idle, Token!Nothing, TokenInv, TokenTypes, OneAsks, SureHolds,
       CallerStates, Asking

\* Only one caller changes, and not whether it asks or waits.
LEMMA OneCallerGoes ==
  ASSUME TokenInv, NEW c \in Callers, NEW next \in CallerStates,
         caller' = [caller EXCEPT ![c] = next],
         next.at = "asking" <=> caller[c].at = "asking",
         next.at = "waits" => caller[c].at = "waits" \/ pending # Token!Idle,
         UNCHANGED <<pending, tokensIssued>>,
         tokens' \in [token : Nat \cup {Nil}, fresh : BOOLEAN]
  PROVE  /\ TokenTypes' /\ OneAsks' /\ caller'[c] = next
         /\ \A d \in Callers \ {c} : caller'[d] = caller[d]
<1>1. /\ caller' \in [Callers -> CallerStates] /\ caller'[c] = next
      /\ \A d \in Callers \ {c} : caller'[d] = caller[d]
  BY DEF TokenInv, TokenTypes
<1>2. TokenTypes' BY <1>1 DEF TokenInv, TokenTypes
<1>3. \A d \in Callers : Asking(d)' <=> Asking(d) BY <1>1 DEF Asking
<1>4. OneAsks' BY <1>1, <1>3 DEF TokenInv, OneAsks, Asking
<1>5. QED BY <1>1, <1>2, <1>4

LEMMA BeginHolds ==
  ASSUME TokenInv, NEW c \in Callers, Token!Begin(c)
  PROVE  TokenInv'
<1> DEFINE there == [caller[c] EXCEPT !.at = "needs"]
           next == [there EXCEPT !.sure = ~ Token!Doomed]
<1>1. caller[c] \in CallerStates BY DEF TokenInv, TokenTypes
<1>2. /\ caller[c].at = "idle" /\ caller' = [caller EXCEPT ![c] = next]
      /\ UNCHANGED <<tokens, pending, tokensIssued, validTokens, revocations>>
  BY DEF Token!Begin, TokenInv, TokenTypes
<1>3. there \in CallerStates /\ there.at = "needs" /\ there.retry = caller[c].retry
  BY <1>1 DEF CallerStates
<1> HIDE DEF there
<1>4. /\ next \in CallerStates /\ next.at = "needs" /\ next.retry = caller[c].retry
      /\ next.sure = ~ Token!Doomed
  BY <1>3 DEF CallerStates, Token!Doomed
<1> HIDE DEF next
<1>5. /\ TokenTypes' /\ OneAsks' /\ caller'[c] = next
      /\ \A d \in Callers \ {c} : caller'[d] = caller[d]
  BY <1>2, <1>4, OneCallerGoes DEF TokenInv, TokenTypes
<1>6. Token!Doomed' <=> Token!Doomed BY <1>2 DEF Token!Doomed
<1>7. SureHolds(c)' BY <1>2, <1>4, <1>5, <1>6 DEF TokenInv, SureHolds
<1>8. \A d \in Callers \ {c} : SureHolds(d)'
  BY <1>2, <1>5, <1>6 DEF TokenInv, SureHolds
<1>9. QED BY <1>5, <1>7, <1>8 DEF TokenInv

LEMMA InstallationTokenHolds ==
  ASSUME TokenInv, NEW c \in Callers, Token!InstallationToken(c)
  PROVE  TokenInv'
<1>1. caller[c] \in CallerStates BY DEF TokenInv, TokenTypes
<1>2. /\ caller[c].at = "needs"
      /\ UNCHANGED <<tokens, tokensIssued, validTokens, revocations>>
  BY DEF Token!InstallationToken
<1>3. CASE /\ tokens.fresh /\ UNCHANGED pending
           /\ caller' = [caller EXCEPT ![c].at = "has", ![c].token = tokens.token]
  <2> DEFINE there == [caller[c] EXCEPT !.at = "has"]
             next == [there EXCEPT !.token = tokens.token]
  <2>1. caller' = [caller EXCEPT ![c] = next] BY <1>3 DEF TokenInv, TokenTypes
  <2>2. /\ there \in CallerStates /\ there.at = "has" /\ there.retry = caller[c].retry
        /\ there.sure = caller[c].sure
    BY <1>1 DEF CallerStates
  <2> HIDE DEF there
  <2>3. tokens.token \in Nat \cup {Nil} BY DEF TokenInv, TokenTypes
  <2>4. /\ next \in CallerStates /\ next.at = "has" /\ next.retry = caller[c].retry
        /\ next.sure = caller[c].sure /\ next.token = tokens.token
    BY <2>2, <2>3 DEF CallerStates
  <2> HIDE DEF next
  <2>5. /\ TokenTypes' /\ OneAsks' /\ caller'[c] = next
        /\ \A d \in Callers \ {c} : caller'[d] = caller[d]
    BY <1>2, <1>3, <2>1, <2>4, OneCallerGoes DEF TokenInv, TokenTypes
  <2>6. Token!Doomed' <=> Token!Doomed BY <1>2, <1>3 DEF Token!Doomed
  <2>7. SureHolds(c)' BY <1>2, <1>3, <2>4, <2>5, <2>6 DEF TokenInv, SureHolds
  <2>8. \A d \in Callers \ {c} : SureHolds(d)'
    BY <1>2, <2>5, <2>6 DEF TokenInv, SureHolds
  <2>9. QED BY <2>5, <2>7, <2>8 DEF TokenInv
<1>4. CASE /\ pending # Token!Idle /\ UNCHANGED pending
           /\ caller' = [caller EXCEPT ![c].at = "waits"]
  <2> DEFINE next == [caller[c] EXCEPT !.at = "waits"]
  <2>1. caller' = [caller EXCEPT ![c] = next] BY <1>4
  <2>2. /\ next \in CallerStates /\ next.at = "waits" /\ next.retry = caller[c].retry
        /\ next.sure = caller[c].sure
    BY <1>1 DEF CallerStates
  <2> HIDE DEF next
  <2>3. /\ TokenTypes' /\ OneAsks' /\ caller'[c] = next
        /\ \A d \in Callers \ {c} : caller'[d] = caller[d]
    BY <1>2, <1>4, <2>1, <2>2, OneCallerGoes DEF TokenInv, TokenTypes
  <2>4. Token!Doomed' <=> Token!Doomed BY <1>2, <1>4 DEF Token!Doomed
  <2>5. \A d \in Callers : SureHolds(d)'
    BY <1>2, <2>2, <2>3, <2>4 DEF TokenInv, SureHolds
  <2>6. QED BY <2>3, <2>5 DEF TokenInv
<1>5. CASE /\ pending = Token!Idle /\ pending' = [at |-> "asked", token |-> Nil]
           /\ caller' = [caller EXCEPT ![c].at = "asking"]
  <2> DEFINE next == [caller[c] EXCEPT !.at = "asking"]
  <2>1. caller' = [caller EXCEPT ![c] = next] BY <1>5
  <2>2. /\ next \in CallerStates /\ next.at = "asking" /\ next.retry = caller[c].retry
        /\ next.sure = caller[c].sure
    BY <1>1 DEF CallerStates
  <2> HIDE DEF next
  <2>3. /\ caller' \in [Callers -> CallerStates] /\ caller'[c] = next
        /\ \A d \in Callers \ {c} : caller'[d] = caller[d]
    BY <2>1, <2>2 DEF TokenInv, TokenTypes
  <2>4. TokenTypes' BY <1>2, <1>5, <2>3 DEF TokenInv, TokenTypes
  <2>5. pending'.at = "asked" /\ pending' # Token!Idle BY <1>5 DEF Token!Idle
  <2>6. \A d \in Callers : ~ Asking(d) BY <1>5 DEF TokenInv, OneAsks, Asking
  <2>7. OneAsks' BY <2>2, <2>3, <2>5, <2>6 DEF OneAsks, Asking
  <2>8. ~ Token!Doomed' BY <2>5 DEF Token!Doomed
  <2>9. \A d \in Callers : SureHolds(d)'
    BY <1>2, <2>2, <2>3, <2>8 DEF TokenInv, SureHolds
  <2>10. QED BY <2>4, <2>7, <2>9 DEF TokenInv
<1>6. QED BY <1>3, <1>4, <1>5 DEF Token!InstallationToken

LEMMA IssueTokenHolds ==
  ASSUME TokenInv, Token!Issue
  PROVE  TokenInv'
<1>1. /\ pending.at = "asked" /\ validTokens' = validTokens \cup {tokensIssued + 1}
      /\ tokensIssued' = tokensIssued + 1
      /\ pending' = [at |-> "underway", token |-> tokensIssued + 1]
      /\ UNCHANGED <<tokens, caller, revocations>>
  BY DEF Token!Issue
<1>2. pending # Token!Idle /\ pending' # Token!Idle BY <1>1 DEF Token!Idle
<1>3. TokenTypes' BY <1>1 DEF TokenInv, TokenTypes
<1>4. OneAsks' BY <1>1, <1>2 DEF TokenInv, OneAsks, Asking
<1>5. ~ Token!Doomed' BY <1>1 DEF Token!Doomed
<1>6. \A c \in Callers : SureHolds(c)' BY <1>1, <1>5 DEF TokenInv, SureHolds
<1>7. QED BY <1>3, <1>4, <1>6 DEF TokenInv

LEMMA ArriveHolds ==
  ASSUME TokenInv, Token!Arrive
  PROVE  TokenInv'
<1>1. /\ pending.at = "underway" /\ pending' = Token!Idle
      /\ tokens' = [token |-> pending.token, fresh |-> TRUE]
      /\ caller' = [c \in Callers |-> IF caller[c].at \in {"asking", "waits"}
           THEN [caller[c] EXCEPT !.at = "has", !.token = pending.token] ELSE caller[c]]
      /\ UNCHANGED <<tokensIssued, validTokens, revocations>>
  BY DEF Token!Arrive, Token!Concerned
<1>2. pending.token \in Nat \cup {Nil}
  <2>1. pending # Token!Idle
    <3>1. pending.at = "underway" BY <1>1
    <3>2. Token!Idle.at = "idle" BY DEF Token!Idle
    <3>3. QED BY <3>1, <3>2
  <2>2. pending \in [at : {"asked", "underway"}, token : Nat \cup {Nil}]
    BY <2>1 DEF TokenInv, TokenTypes
  <2>3. QED BY <2>2
<1>3. ASSUME NEW c \in Callers
      PROVE  /\ caller'[c] \in CallerStates /\ caller'[c].retry = caller[c].retry
             /\ caller'[c].sure = caller[c].sure
             /\ \/ caller'[c].at = "has" /\ caller'[c].token = pending.token
                \/ caller'[c] = caller[c] /\ caller[c].at \notin {"asking", "waits"}
  <2>1. caller[c] \in CallerStates BY DEF TokenInv, TokenTypes
  <2>2. CASE caller[c].at \in {"asking", "waits"}
    <3> DEFINE there == [caller[c] EXCEPT !.at = "has"]
               next == [there EXCEPT !.token = pending.token]
    <3>1. /\ there \in CallerStates /\ there.at = "has" /\ there.retry = caller[c].retry
          /\ there.sure = caller[c].sure
      BY <2>1 DEF CallerStates
    <3>2. caller'[c] = next BY <1>1, <2>2
    <3> HIDE DEF there
    <3>3. /\ next \in CallerStates /\ next.at = "has" /\ next.retry = caller[c].retry
          /\ next.sure = caller[c].sure /\ next.token = pending.token
      BY <1>2, <3>1 DEF CallerStates
    <3> HIDE DEF next
    <3>4. QED BY <3>2, <3>3
  <2>3. CASE caller[c].at \notin {"asking", "waits"} BY <1>1, <2>1, <2>3
  <2>4. QED BY <2>2, <2>3
<1>4. caller' \in [Callers -> CallerStates] BY <1>1, <1>3
<1>5. TokenTypes' BY <1>1, <1>2, <1>4 DEF TokenInv, TokenTypes
<1>6. OneAsks' BY <1>1, <1>3 DEF OneAsks, Asking
<1>7. ~ Token!Doomed' BY <1>1 DEF Token!Doomed, Token!Idle
<1>8. ASSUME NEW c \in Callers PROVE SureHolds(c)'
  <2>1. caller'[c].sure => pending.token \in validTokens
    BY <1>1, <1>3 DEF TokenInv, SureHolds, Token!Doomed
  <2>2. tokens'.token = pending.token /\ UNCHANGED validTokens BY <1>1
  <2>3. SureHolds(c) BY DEF TokenInv
  <2>4. CASE caller'[c].at = "has" /\ caller'[c].token = pending.token
    BY <1>7, <2>1, <2>2, <2>4 DEF SureHolds
  <2>5. CASE caller'[c] = caller[c]
    BY <1>7, <2>1, <2>2, <2>3, <2>5 DEF SureHolds
  <2>6. QED BY <1>3, <2>4, <2>5
<1>9. QED BY <1>5, <1>6, <1>8 DEF TokenInv

LEMMA FailHolds ==
  ASSUME TokenInv, Token!Fail
  PROVE  TokenInv'
<1>1. /\ pending' = Token!Idle
      /\ caller' = [c \in Callers |-> IF caller[c].at \in {"asking", "waits"}
           THEN [caller[c] EXCEPT !.at = "failed"] ELSE caller[c]]
      /\ UNCHANGED <<tokens, tokensIssued, validTokens, revocations>>
  BY DEF Token!Fail, Token!Concerned
<1>2. ASSUME NEW c \in Callers
      PROVE  /\ caller'[c] \in CallerStates /\ caller'[c].retry = caller[c].retry
             /\ caller'[c].sure = caller[c].sure
             /\ \/ caller'[c].at = "failed"
                \/ caller'[c] = caller[c] /\ caller[c].at \notin {"asking", "waits"}
  <2>1. caller[c] \in CallerStates BY DEF TokenInv, TokenTypes
  <2>2. QED BY <1>1, <2>1 DEF CallerStates
<1>3. caller' \in [Callers -> CallerStates] BY <1>1, <1>2
<1>4. TokenTypes' BY <1>1, <1>3 DEF TokenInv, TokenTypes
<1>5. OneAsks' BY <1>1, <1>2 DEF OneAsks, Asking
<1>6. ~ Token!Doomed' BY <1>1 DEF Token!Doomed, Token!Idle
<1>7. \A c \in Callers : SureHolds(c)' BY <1>1, <1>2, <1>6 DEF TokenInv, SureHolds
<1>8. QED BY <1>4, <1>5, <1>7 DEF TokenInv

LEMMA SendHolds ==
  ASSUME TokenInv, NEW c \in Callers, Token!Send(c)
  PROVE  TokenInv'
<1> DEFINE accepted == caller[c].token \in validTokens
           again == ~ accepted /\ caller[c].retry
           to == IF accepted THEN "done" ELSE IF again THEN "needs" ELSE "refused"
           there == [caller[c] EXCEPT !.at = to]
           next == [there EXCEPT !.retry = caller[c].retry /\ ~ again]
<1>1. caller[c] \in CallerStates BY DEF TokenInv, TokenTypes
<1>2. /\ caller[c].at = "has" /\ tokens' = IF again THEN Token!Nothing ELSE tokens
      /\ UNCHANGED <<pending, tokensIssued, validTokens, revocations>>
  BY DEF Token!Send
<1>3. caller' = [caller EXCEPT ![c] = next] BY DEF Token!Send, TokenInv, TokenTypes
<1>4. /\ there \in CallerStates /\ there.at = to /\ there.retry = caller[c].retry
      /\ there.sure = caller[c].sure
  BY <1>1 DEF CallerStates
<1> HIDE DEF there, again, to
<1>5. /\ next \in CallerStates /\ next.at = to /\ next.retry = (caller[c].retry /\ ~ again)
      /\ next.sure = caller[c].sure
  BY <1>4 DEF CallerStates
<1> HIDE DEF next
<1>6. /\ TokenTypes' /\ OneAsks' /\ caller'[c] = next
      /\ \A d \in Callers \ {c} : caller'[d] = caller[d]
  <2>1. tokens' \in [token : Nat \cup {Nil}, fresh : BOOLEAN]
    BY <1>2 DEF Token!Nothing, TokenInv, TokenTypes
  <2>2. to \in {"done", "needs", "refused"} BY DEF to
  <2>3. QED BY <1>2, <1>3, <1>5, <2>1, <2>2, OneCallerGoes
<1>7. Token!Doomed' <=> Token!Doomed BY <1>2 DEF Token!Doomed
<1>8. tokens'.fresh => tokens' = tokens /\ ~ again BY <1>2 DEF Token!Nothing
<1>9. SureHolds(c)'
  <2>1. caller[c].sure => to # "refused"
    BY <1>2 DEF TokenInv, SureHolds, to, again
  <2>2. to \in {"done", "needs", "refused"} BY DEF to
  <2>3. caller[c].sure => ~ Token!Doomed
    BY DEF TokenInv, SureHolds
  <2>4. caller[c].sure /\ ~ caller[c].retry /\ tokens.fresh => tokens.token \in validTokens
    BY DEF TokenInv, SureHolds
  <2>5. QED BY <1>2, <1>5, <1>6, <1>7, <1>8, <2>1, <2>2, <2>3, <2>4 DEF SureHolds
<1>10. \A d \in Callers \ {c} : SureHolds(d)'
  BY <1>2, <1>6, <1>7, <1>8 DEF TokenInv, SureHolds
<1>11. QED BY <1>6, <1>9, <1>10 DEF TokenInv

LEMMA RevokeHolds ==
  ASSUME TokenInv, Token!Revoke
  PROVE  TokenInv'
<1>1. /\ caller' = [c \in Callers |-> [caller[c] EXCEPT !.sure = FALSE]]
      /\ UNCHANGED <<tokens, pending, tokensIssued>>
  BY DEF Token!Revoke
<1>2. ASSUME NEW c \in Callers
      PROVE  /\ caller'[c] \in CallerStates /\ caller'[c].at = caller[c].at
             /\ caller'[c].retry = caller[c].retry /\ ~ caller'[c].sure
  <2>1. caller[c] \in CallerStates BY DEF TokenInv, TokenTypes
  <2>2. QED BY <1>1, <2>1 DEF CallerStates
<1>3. TokenTypes' BY <1>1, <1>2 DEF TokenInv, TokenTypes
<1>4. OneAsks'
  <2>1. \A c \in Callers : Asking(c)' <=> Asking(c) BY <1>2 DEF Asking
  <2>2. QED BY <1>1, <1>2, <2>1 DEF TokenInv, OneAsks
<1>5. \A c \in Callers : SureHolds(c)' BY <1>2 DEF TokenInv, SureHolds
<1>6. QED BY <1>3, <1>4, <1>5 DEF TokenInv

LEMMA TokenStep ==
  ASSUME TokenInv, [Token!Next]_(Token!vars)
  PROVE  TokenInv'
<1>1. CASE Token!Age \/ Token!Invalidate
  <2>1. /\ tokens' \in [token : Nat \cup {Nil}, fresh : BOOLEAN] /\ ~ tokens'.fresh
        /\ UNCHANGED <<pending, caller, tokensIssued, validTokens, revocations>>
    <3>1. UNCHANGED <<pending, caller, tokensIssued, validTokens, revocations>>
      BY <1>1 DEF Token!Age, Token!Invalidate
    <3>2. tokens' = Token!Nothing \/ tokens' = [tokens EXCEPT !.fresh = FALSE]
      BY <1>1 DEF Token!Age, Token!Invalidate
    <3>3. tokens \in [token : Nat \cup {Nil}, fresh : BOOLEAN]
      BY DEF TokenInv, TokenTypes
    <3>4. /\ Token!Nothing \in [token : Nat \cup {Nil}, fresh : BOOLEAN]
          /\ ~ Token!Nothing.fresh
      BY DEF Token!Nothing
    <3>5. /\ [tokens EXCEPT !.fresh = FALSE] \in [token : Nat \cup {Nil}, fresh : BOOLEAN]
          /\ ~ [tokens EXCEPT !.fresh = FALSE].fresh
      BY <3>3
    <3>6. QED BY <3>1, <3>2, <3>4, <3>5
  <2>2. TokenTypes' /\ OneAsks' BY <2>1 DEF TokenInv, TokenTypes, OneAsks, Asking
  <2>3. \A c \in Callers : SureHolds(c)'
    BY <2>1 DEF TokenInv, SureHolds, Token!Doomed
  <2>4. QED BY <2>2, <2>3 DEF TokenInv
<1>2. CASE Token!Issue \/ Token!Arrive \/ Token!Fail \/ Token!Revoke
  BY <1>2, IssueTokenHolds, ArriveHolds, FailHolds, RevokeHolds
<1>3. CASE \E c \in Callers :
             Token!Begin(c) \/ Token!InstallationToken(c) \/ Token!Send(c)
  BY <1>3, BeginHolds, InstallationTokenHolds, SendHolds
<1>4. CASE UNCHANGED Token!vars
  BY <1>4 DEF Token!vars, TokenInv, TokenTypes, OneAsks, Asking, SureHolds, Token!Doomed
<1>5. QED BY <1>1, <1>2, <1>3, <1>4 DEF Token!Next

\* However many requests share a token, and whenever tokens are revoked: one
\* is asked for at a time, by one caller, and a request that begins after a
\* revocation is not refused (GitHubProvider.installationToken, request).
THEOREM TokensAlwaysRecover == Token!Spec => []TokensRecover
<1>1. ASSUME TokenInv PROVE Token!TokensRecover
  <2> DEFINE asking == {c \in Callers : caller[c].at = "asking"}
  <2>1. \A T : Token!Cardinality(T) = Cardinality(T)
    BY DEF Token!Cardinality, Cardinality
  <2>2. Cardinality(asking) = IF pending = Token!Idle THEN 0 ELSE 1
    <3>1. CASE pending = Token!Idle
      <4>1. asking = {} BY <1>1, <3>1 DEF TokenInv, OneAsks
      <4>2. QED BY <3>1, <4>1, FS_EmptySet
    <3>2. CASE pending # Token!Idle
      <4>1. PICK c \in Callers : asking = {c}
        BY <1>1, <3>2 DEF TokenInv, OneAsks, Asking
      <4>2. QED BY <3>2, <4>1, FS_Singleton
    <3>3. QED BY <3>1, <3>2
  <2>3. QED
    BY <1>1, <2>1, <2>2
       DEF TokenInv, OneAsks, SureHolds, Token!TokensRecover, Token!Concerned
<1>2. QED BY <1>1, TokenInit, TokenStep, PTL DEF Token!Spec, TokensRecover


-----------------------------------------------------------------------------
(***************************************************************************)
(* Submission.  Keys and jobs are one to one, as a job is only made with   *)
(* the row of its key, which stays; a request that goes on has the job of  *)
(* its key, for what the row says.                                         *)
(***************************************************************************)
KeyRows == [body : Bodies, job : Nat, expired : BOOLEAN]
Reservations ==
  [state : {"REQUESTED", "PROVISIONING", "READY", "CLOSED"},
   provider : {"unasked", "asked", "failed", "machine"}, meter : {"open", "due", "done"},
   price : Nat, cost : Nat, month : Nat]
LeaseRows == {[state |-> "NONE"]} \cup Reservations
Posted ==
  [at : {"posted", "creating", "created", "checked", "answered"}, key : RunKeys,
   body : Bodies, limit : Limits \cup {Nil}, job : Nat, price : Nat \cup {Nil}]
CallStates == {[at |-> "idle"], [at |-> "failed"]} \cup Posted

OrderTypes ==
  /\ keyRow \in [RunKeys -> KeyRows \cup {Nil}]
  /\ job \in Seq(RunKeys) /\ lease \in Seq(LeaseRows) /\ Len(lease) = Len(job)
  /\ call \in [Calls -> CallStates]
  /\ offered \in Nat \cup {Nil} /\ month \in Nat

KeysHaveJobs ==
  /\ \A j \in 1 .. Len(job) : keyRow[job[j]] # Nil /\ keyRow[job[j]].job = j
  /\ \A k \in RunKeys : keyRow[k] # Nil =>
       keyRow[k].job \in 1 .. Len(job) /\ job[keyRow[k].job] = k

CallHolds(c) ==
  /\ call[c].at \in {"created", "checked", "answered"} =>
       /\ call[c].job \in 1 .. Len(job) /\ job[call[c].job] = call[c].key
       /\ keyRow[call[c].key] # Nil /\ keyRow[call[c].key].body = call[c].body
  /\ call[c].at \in {"created", "checked"} => call[c].limit # Nil
  /\ call[c].at = "checked" => call[c].price # Nil
  /\ call[c].at = "answered" /\ call[c].limit # Nil => lease[call[c].job].state # "NONE"

OrderInv == OrderTypes /\ KeysHaveJobs /\ \A c \in Calls : CallHolds(c)

LEMMA OrderInit == Order!SubmissionAssumption /\ Order!Init => OrderInv
BY DEF Order!SubmissionAssumption, Order!Init, OrderInv, OrderTypes, KeysHaveJobs,
       CallHolds, CallStates

LEMMA CallForms ==
  ASSUME OrderTypes, NEW c \in Calls
  PROVE  /\ call[c].at \in {"idle", "failed", "posted", "creating", "created", "checked",
                            "answered"}
         /\ call[c].at \notin {"idle", "failed"} => call[c] \in Posted
<1>1. call[c] \in CallStates BY DEF OrderTypes
<1>2. QED BY <1>1 DEF CallStates, Posted

\* What a request relies on only grows: its job, the row of its key, leases.
OrdersGrow ==
  /\ Len(job) <= Len(job')
  /\ \A j \in 1 .. Len(job) : /\ job'[j] = job[j]
                              /\ lease[j].state # "NONE" => lease'[j].state # "NONE"
  /\ \A k \in RunKeys : keyRow[k] # Nil =>
       keyRow'[k] # Nil /\ keyRow'[k].body = keyRow[k].body

LEMMA OtherCallsHold ==
  ASSUME OrderInv, OrdersGrow, OrderTypes', NEW c \in Calls, call'[c] = call[c]
  PROVE  CallHolds(c)'
<1>1. /\ CallHolds(c) /\ Len(job) \in Nat /\ Len(job') \in Nat
      /\ call[c].at \in {"created", "checked", "answered"} => call[c].key \in RunKeys
  BY CallForms, LenProperties DEF OrderInv, OrderTypes, Posted
<1>2. QED BY <1>1 DEF CallHolds, OrdersGrow

\* A request that is refused, fails or dies.
LEMMA FailingCall ==
  ASSUME OrderInv, NEW c \in Calls, Order!Fails(c),
         UNCHANGED <<keyRow, job, lease, offered, month>>
  PROVE  OrderInv'
<1>1. /\ call' \in [Calls -> CallStates] /\ call'[c].at = "failed"
      /\ \A d \in Calls \ {c} : call'[d] = call[d]
  BY DEF Order!Fails, OrderInv, OrderTypes, CallStates
<1>2. OrderTypes' /\ KeysHaveJobs' BY <1>1 DEF OrderInv, OrderTypes, KeysHaveJobs
<1>3. OrdersGrow
  <2>1. Len(job) \in Nat BY LenProperties DEF OrderInv, OrderTypes
  <2>2. QED BY <2>1 DEF OrdersGrow
<1>4. CallHolds(c)' BY <1>1 DEF CallHolds
<1>5. \A d \in Calls \ {c} : CallHolds(d)' BY <1>1, <1>2, <1>3, OtherCallsHold
<1>6. QED BY <1>2, <1>4, <1>5 DEF OrderInv


\* A request goes on with what it knows, with a job, or with a price.
LEMMA CallGoes ==
  ASSUME OrderTypes, NEW c \in Calls, call[c] \in Posted,
         NEW at \in {"creating", "answered"}, Order!Goes(c, at)
  PROVE  /\ call' \in [Calls -> CallStates] /\ call'[c].at = at
         /\ call'[c].key = call[c].key /\ call'[c].body = call[c].body
         /\ call'[c].limit = call[c].limit /\ call'[c].job = call[c].job
         /\ \A d \in Calls \ {c} : call'[d] = call[d]
<1> DEFINE next == [call[c] EXCEPT !.at = at]
<1>1. call' = [call EXCEPT ![c] = next] BY DEF Order!Goes
<1>2. /\ next \in Posted /\ next.at = at /\ next.key = call[c].key
      /\ next.body = call[c].body /\ next.limit = call[c].limit /\ next.job = call[c].job
  BY DEF Posted
<1> HIDE DEF next
<1>3. QED BY <1>1, <1>2 DEF OrderTypes, CallStates

LEMMA CallHasJob ==
  ASSUME OrderTypes, NEW c \in Calls, call[c] \in Posted, NEW j \in Nat, Order!Created(c, j)
  PROVE  /\ call' \in [Calls -> CallStates]
         /\ call'[c].at = IF call[c].limit = Nil THEN "answered" ELSE "created"
         /\ call'[c].key = call[c].key /\ call'[c].body = call[c].body
         /\ call'[c].limit = call[c].limit /\ call'[c].job = j
         /\ \A d \in Calls \ {c} : call'[d] = call[d]
<1> DEFINE at == IF call[c].limit = Nil THEN "answered" ELSE "created"
           there == [call[c] EXCEPT !.job = j]
           next == [there EXCEPT !.at = at]
<1>1. /\ there \in Posted /\ there.at = call[c].at /\ there.key = call[c].key
      /\ there.body = call[c].body /\ there.limit = call[c].limit /\ there.job = j
  BY DEF Posted
<1>2. call[c].at # "idle" BY DEF Posted
<1>3. call' = [call EXCEPT ![c] = next] BY <1>1, <1>2 DEF Order!Created, OrderTypes
<1>4. at \in {"answered", "created"} OBVIOUS
<1> HIDE DEF there, at
<1>5. /\ next \in Posted /\ next.at = at /\ next.key = call[c].key
      /\ next.body = call[c].body /\ next.limit = call[c].limit /\ next.job = j
  BY <1>1, <1>4 DEF Posted
<1> HIDE DEF next
<1>6. QED BY <1>3, <1>5 DEF OrderTypes, CallStates, at

LEMMA PostHolds ==
  ASSUME OrderInv, NEW c \in Calls, NEW k \in RunKeys, NEW b \in Bodies,
         NEW l \in Limits \cup {Nil}, Order!Post(c, k, b, l)
  PROVE  OrderInv'
<1> DEFINE next == [at |-> "posted", key |-> k, body |-> b, limit |-> l,
                    job |-> 0, price |-> Nil]
<1>1. /\ call' = [call EXCEPT ![c] = next]
      /\ UNCHANGED <<keyRow, job, lease, offered, month>>
  BY DEF Order!Post, Order!hosting
<1>2. next \in CallStates /\ next.at = "posted" BY DEF CallStates, Posted
<1> HIDE DEF next
<1>3. /\ call' \in [Calls -> CallStates] /\ call'[c].at = "posted"
      /\ \A d \in Calls \ {c} : call'[d] = call[d]
  BY <1>1, <1>2 DEF OrderInv, OrderTypes
<1>4. OrderTypes' /\ KeysHaveJobs' BY <1>1, <1>3 DEF OrderInv, OrderTypes, KeysHaveJobs
<1>5. OrdersGrow
  <2>1. Len(job) \in Nat BY LenProperties DEF OrderInv, OrderTypes
  <2>2. QED BY <1>1, <2>1 DEF OrdersGrow
<1>6. CallHolds(c)' BY <1>3 DEF CallHolds
<1>7. \A d \in Calls \ {c} : CallHolds(d)' BY <1>3, <1>4, <1>5, OtherCallsHold
<1>8. QED BY <1>4, <1>6, <1>7 DEF OrderInv

LEMMA LookUpKeyHolds ==
  ASSUME OrderInv, NEW c \in Calls, Order!LookUpKey(c)
  PROVE  OrderInv'
<1> DEFINE row == keyRow[call[c].key]
<1>1. call[c].at = "posted" /\ UNCHANGED <<keyRow, job, lease, offered, month>>
  BY DEF Order!LookUpKey, Order!hosting
<1>2. call[c] \in Posted /\ call[c].key \in RunKeys
  BY <1>1, CallForms DEF OrderInv, Posted
<1>3. OrdersGrow
  <2>1. Len(job) \in Nat BY LenProperties DEF OrderInv, OrderTypes
  <2>2. QED BY <1>1, <2>1 DEF OrdersGrow
<1>4. CASE Order!Fails(c) BY <1>1, <1>4, FailingCall
<1>5. CASE Order!Goes(c, "creating")
  <2>1. /\ call' \in [Calls -> CallStates] /\ call'[c].at = "creating"
        /\ \A d \in Calls \ {c} : call'[d] = call[d]
    BY <1>2, <1>5, CallGoes DEF OrderInv
  <2>2. OrderTypes' /\ KeysHaveJobs' BY <1>1, <2>1 DEF OrderInv, OrderTypes, KeysHaveJobs
  <2>3. CallHolds(c)' BY <2>1 DEF CallHolds
  <2>4. \A d \in Calls \ {c} : CallHolds(d)' BY <1>3, <2>1, <2>2, OtherCallsHold
  <2>5. QED BY <2>2, <2>3, <2>4 DEF OrderInv
<1>6. CASE row # Nil /\ row.body = call[c].body /\ Order!Created(c, row.job)
  <2>1. /\ row.job \in 1 .. Len(job) /\ job[row.job] = call[c].key
        /\ row.job \in Nat
    BY <1>2, <1>6, LenProperties DEF OrderInv, OrderTypes, KeysHaveJobs
  <2>2. /\ call' \in [Calls -> CallStates]
        /\ call'[c].at = IF call[c].limit = Nil THEN "answered" ELSE "created"
        /\ call'[c].key = call[c].key /\ call'[c].body = call[c].body
        /\ call'[c].limit = call[c].limit /\ call'[c].job = row.job
        /\ \A d \in Calls \ {c} : call'[d] = call[d]
    BY <1>2, <1>6, <2>1, CallHasJob DEF OrderInv
  <2>3. OrderTypes' /\ KeysHaveJobs' BY <1>1, <2>2 DEF OrderInv, OrderTypes, KeysHaveJobs
  <2>4. CallHolds(c)' BY <1>1, <1>6, <2>1, <2>2 DEF CallHolds
  <2>5. \A d \in Calls \ {c} : CallHolds(d)' BY <1>3, <2>2, <2>3, OtherCallsHold
  <2>6. QED BY <2>3, <2>4, <2>5 DEF OrderInv
<1>7. QED BY <1>4, <1>5, <1>6 DEF Order!LookUpKey

LEMMA CreateRunHolds ==
  ASSUME Order!SubmissionAssumption, OrderInv, NEW c \in Calls, Order!CreateRun(c)
  PROVE  OrderInv'
<1> DEFINE q == call[c]
           j == Len(job) + 1
           newRow == [body |-> q.body, job |-> j, expired |-> FALSE]
<1>1. q.at = "creating" /\ UNCHANGED <<offered, month>>
  BY DEF Order!CreateRun, Order!hosting
<1>2. q \in Posted /\ q.key \in RunKeys /\ q.body \in Bodies
  BY <1>1, CallForms DEF OrderInv, Posted
<1>3. /\ job \in Seq(RunKeys) /\ lease \in Seq(LeaseRows) /\ Len(lease) = Len(job)
      /\ Len(job) \in Nat /\ j \in Nat
  BY LenProperties DEF OrderInv, OrderTypes
<1>4. CASE Order!Fails(c) /\ UNCHANGED <<keyRow, job, lease>>
  BY <1>1, <1>4, FailingCall
<1>5. CASE /\ keyRow[q.key] = Nil /\ job' = Append(job, q.key)
           /\ lease' = Append(lease, [state |-> "NONE"])
           /\ keyRow' = [keyRow EXCEPT ![q.key] = newRow] /\ Order!Created(c, j)
  <2>1. newRow \in KeyRows /\ newRow # Nil /\ newRow.job = j /\ newRow.body = q.body
    <3>1. newRow \in KeyRows /\ newRow.job = j /\ newRow.body = q.body
      BY <1>2, <1>3 DEF KeyRows
    <3>2. Nil \notin KeyRows BY DEF KeyRows, Order!SubmissionAssumption
    <3>3. QED BY <3>1, <3>2
  <2> HIDE DEF newRow
  <2>3. /\ job' \in Seq(RunKeys) /\ Len(job') = j /\ job'[j] = q.key
        /\ \A i \in 1 .. Len(job) : job'[i] = job[i]
    BY <1>2, <1>3, <1>5, AppendProperties
  <2>4. /\ lease' \in Seq(LeaseRows) /\ Len(lease') = j
        /\ \A i \in 1 .. Len(job) : lease'[i] = lease[i]
    BY <1>3, <1>5, AppendProperties DEF LeaseRows
  <2>5. /\ keyRow' \in [RunKeys -> KeyRows \cup {Nil}] /\ keyRow'[q.key] = newRow
        /\ \A k \in RunKeys \ {q.key} : keyRow'[k] = keyRow[k]
    BY <1>2, <1>5, <2>1 DEF OrderInv, OrderTypes
  <2>6. /\ call' \in [Calls -> CallStates]
        /\ call'[c].at = IF q.limit = Nil THEN "answered" ELSE "created"
        /\ call'[c].key = q.key /\ call'[c].body = q.body
        /\ call'[c].limit = q.limit /\ call'[c].job = j
        /\ \A d \in Calls \ {c} : call'[d] = call[d]
    BY <1>2, <1>3, <1>5, CallHasJob DEF OrderInv
  <2> HIDE DEF q
  <2>7. OrderTypes' BY <1>1, <2>3, <2>4, <2>5, <2>6 DEF OrderInv, OrderTypes
  <2>8. KeysHaveJobs'
    <3>1. \A i \in 1 .. Len(job) : job[i] \in RunKeys /\ job[i] # q.key
      <4>1. \A i \in 1 .. Len(job) : job[i] \in RunKeys BY <1>3, ElementOfSeq
      <4>2. \A i \in 1 .. Len(job) : keyRow[job[i]] # Nil
        BY DEF OrderInv, KeysHaveJobs
      <4>3. QED BY <1>5, <4>1, <4>2
    <3>2. \A i \in 1 .. Len(job') : i = j \/ i \in 1 .. Len(job)
      BY <1>3, <2>3
    <3>3. \A i \in 1 .. Len(job') :
            keyRow'[job'[i]] # Nil /\ keyRow'[job'[i]].job = i
      BY <2>1, <2>3, <2>5, <3>1, <3>2 DEF OrderInv, KeysHaveJobs
    <3>4. \A k \in RunKeys \ {q.key} : keyRow'[k] # Nil =>
            keyRow'[k].job \in 1 .. Len(job') /\ job'[keyRow'[k].job] = k
      BY <1>3, <2>3, <2>5 DEF OrderInv, KeysHaveJobs
    <3>5. keyRow'[q.key].job \in 1 .. Len(job') /\ job'[keyRow'[q.key].job] = q.key
      BY <1>3, <2>1, <2>3, <2>5
    <3>6. QED BY <3>3, <3>4, <3>5 DEF KeysHaveJobs
  <2>9. OrdersGrow
    <3>1. \A k \in RunKeys : keyRow[k] # Nil => k # q.key BY <1>5
    <3>2. QED BY <1>3, <2>3, <2>4, <2>5, <3>1 DEF OrdersGrow
  <2>10. CallHolds(c)'
    <3>1. j \in 1 .. Len(job') BY <1>3, <2>3
    <3>2. QED BY <1>2, <2>1, <2>3, <2>5, <2>6, <3>1 DEF CallHolds
  <2>11. \A d \in Calls \ {c} : CallHolds(d)' BY <2>6, <2>7, <2>9, OtherCallsHold
  <2>12. QED BY <2>7, <2>8, <2>10, <2>11 DEF OrderInv
<1>6. QED BY <1>4, <1>5 DEF Order!CreateRun


\* The rows that there are stay, with the keys and the jobs they name.
RowsStay ==
  /\ Len(job') = Len(job)
  /\ \A j \in 1 .. Len(job) : /\ job'[j] = job[j]
                              /\ lease[j].state # "NONE" => lease'[j].state # "NONE"
  /\ \A k \in RunKeys :
       /\ keyRow[k] = Nil <=> keyRow'[k] = Nil
       /\ keyRow[k] # Nil => keyRow'[k].job = keyRow[k].job /\ keyRow'[k].body = keyRow[k].body

LEMMA StayingRows ==
  ASSUME OrderInv, OrderTypes', RowsStay
  PROVE  KeysHaveJobs' /\ OrdersGrow
<1>1. Len(job) \in Nat BY LenProperties DEF OrderInv, OrderTypes
<1>2. \A j \in 1 .. Len(job) : job[j] \in RunKeys
  BY ElementOfSeq DEF OrderInv, OrderTypes
<1>3. KeysHaveJobs'
  <2>1. \A j \in 1 .. Len(job') : keyRow'[job'[j]] # Nil /\ keyRow'[job'[j]].job = j
    BY <1>2 DEF OrderInv, KeysHaveJobs, RowsStay
  <2>2. ASSUME NEW k \in RunKeys, keyRow'[k] # Nil
        PROVE  keyRow'[k].job \in 1 .. Len(job') /\ job'[keyRow'[k].job] = k
    <3>1. keyRow[k] # Nil /\ keyRow'[k].job = keyRow[k].job /\ Len(job') = Len(job)
      BY <2>2 DEF RowsStay
    <3>2. keyRow[k].job \in 1 .. Len(job) /\ job[keyRow[k].job] = k
      BY <3>1 DEF OrderInv, KeysHaveJobs
    <3>3. job'[keyRow[k].job] = job[keyRow[k].job] BY <3>2 DEF RowsStay
    <3>4. QED BY <3>1, <3>2, <3>3
  <2>3. QED BY <2>1, <2>2 DEF KeysHaveJobs
<1>4. OrdersGrow BY <1>1 DEF OrdersGrow, RowsStay
<1>5. QED BY <1>3, <1>4

LEMMA AroundHolds ==
  ASSUME OrderInv, OrderTypes', RowsStay, UNCHANGED call
  PROVE  OrderInv'
<1>1. KeysHaveJobs' /\ OrdersGrow BY StayingRows
<1>2. \A c \in Calls : CallHolds(c)' BY <1>1, OtherCallsHold
<1>3. QED BY <1>1, <1>2 DEF OrderInv

LEMMA CheckAgainHolds ==
  ASSUME Order!SubmissionAssumption, OrderInv, NEW c \in Calls, Order!CheckAgain(c)
  PROVE  OrderInv'
<1>1. call[c].at = "created" /\ UNCHANGED <<keyRow, job, lease, offered, month>>
  BY DEF Order!CheckAgain, Order!hosting
<1>2. call[c] \in Posted BY <1>1, CallForms DEF OrderInv
<1>3. CASE Order!Fails(c) BY <1>1, <1>3, FailingCall
<1>4. CASE /\ Order!Preflight(call[c].limit)
           /\ call' = [call EXCEPT ![c].at = "checked", ![c].price = offered]
  <2> DEFINE there == [call[c] EXCEPT !.at = "checked"]
             next == [there EXCEPT !.price = offered]
  <2>1. call' = [call EXCEPT ![c] = next] BY <1>4 DEF OrderInv, OrderTypes
  <2>2. /\ there \in Posted /\ there.at = "checked" /\ there.key = call[c].key
        /\ there.body = call[c].body /\ there.limit = call[c].limit
        /\ there.job = call[c].job
    BY <1>2 DEF Posted
  <2> HIDE DEF there
  <2>3. offered \in Nat \cup {Nil} /\ offered # Nil
    BY <1>4 DEF Order!Preflight, OrderInv, OrderTypes
  <2>4. /\ next \in Posted /\ next.at = "checked" /\ next.key = call[c].key
        /\ next.body = call[c].body /\ next.limit = call[c].limit
        /\ next.job = call[c].job /\ next.price = offered
    BY <2>2, <2>3 DEF Posted
  <2> HIDE DEF next
  <2>5. /\ call' \in [Calls -> CallStates] /\ call'[c] = next
        /\ \A d \in Calls \ {c} : call'[d] = call[d]
    BY <2>1, <2>4 DEF OrderInv, OrderTypes, CallStates
  <2>6. OrderTypes' /\ RowsStay BY <1>1, <2>5 DEF OrderInv, OrderTypes, RowsStay
  <2>7. KeysHaveJobs' /\ OrdersGrow BY <2>6, StayingRows
  <2>8. CallHolds(c)' BY <1>1, <2>3, <2>4, <2>5 DEF OrderInv, CallHolds
  <2>9. \A d \in Calls \ {c} : CallHolds(d)' BY <2>5, <2>6, <2>7, OtherCallsHold
  <2>10. QED BY <2>6, <2>7, <2>8, <2>9 DEF OrderInv
<1>5. QED BY <1>3, <1>4 DEF Order!CheckAgain

LEMMA OrderRequestHolds ==
  ASSUME OrderInv, NEW c \in Calls, Order!Request(c)
  PROVE  OrderInv'
<1> DEFINE q == call[c]
           j == q.job
           new == [state |-> "REQUESTED", provider |-> "unasked", meter |-> "open",
                   price |-> q.price, cost |-> q.price, month |-> month]
           refused == \/ Order!Queued >= MaxQueued
                      \/ Order!Spent(month) + q.price > Budget
<1>1. q.at = "checked" /\ UNCHANGED <<keyRow, offered, month>>
  BY DEF Order!Request, Order!hosting
<1>2. q \in Posted BY <1>1, CallForms DEF OrderInv
<1>3. /\ j \in 1 .. Len(job) /\ job[j] = q.key /\ keyRow[q.key] # Nil
      /\ keyRow[q.key].body = q.body /\ q.limit # Nil /\ q.price # Nil
  BY <1>1 DEF OrderInv, CallHolds
<1>4. job \in Seq(RunKeys) /\ lease \in Seq(LeaseRows) /\ Len(lease) = Len(job)
  BY DEF OrderInv, OrderTypes
<1>5. /\ UNCHANGED job
      /\ \/ /\ lease[j].state # "NONE" /\ Order!Goes(c, "answered") /\ UNCHANGED lease
         \/ Order!Fails(c) /\ UNCHANGED lease
         \/ lease' = [lease EXCEPT ![j] = new] /\ Order!Goes(c, "answered")
  BY DEF Order!Request
<1> HIDE DEF refused
<1>6. CASE Order!Fails(c) /\ UNCHANGED lease BY <1>1, <1>5, <1>6, FailingCall
<1>7. CASE /\ Order!Goes(c, "answered")
           /\ \/ lease[j].state # "NONE" /\ UNCHANGED lease
              \/ lease' = [lease EXCEPT ![j] = new]
  <2>1. /\ call' \in [Calls -> CallStates] /\ call'[c].at = "answered"
        /\ call'[c].key = q.key /\ call'[c].body = q.body
        /\ call'[c].limit = q.limit /\ call'[c].job = j
        /\ \A d \in Calls \ {c} : call'[d] = call[d]
    BY <1>2, <1>7, CallGoes DEF OrderInv
  <2>2. OrderTypes' /\ RowsStay /\ lease'[j].state # "NONE" /\ job'[j] = job[j]
    <3>1. CASE lease[j].state # "NONE" /\ UNCHANGED lease
      BY <1>1, <1>5, <2>1, <3>1 DEF OrderInv, OrderTypes, RowsStay
    <3>2. CASE lease' = [lease EXCEPT ![j] = new]
      <4>1. new \in LeaseRows /\ new.state = "REQUESTED"
        BY <1>2, <1>3 DEF LeaseRows, Reservations, Posted, OrderInv, OrderTypes
      <4> HIDE DEF new
      <4>2. /\ lease' \in Seq(LeaseRows) /\ Len(lease') = Len(lease) /\ lease'[j] = new
            /\ \A i \in 1 .. Len(lease) : i # j => lease'[i] = lease[i]
        BY <1>3, <1>4, <3>2, <4>1, ExceptSeq
      <4>3. OrderTypes' BY <1>1, <1>4, <1>5, <2>1, <4>2 DEF OrderInv, OrderTypes
      <4>4. RowsStay BY <1>1, <1>4, <1>5, <4>1, <4>2 DEF RowsStay
      <4>5. QED BY <1>5, <4>1, <4>2, <4>3, <4>4
    <3>3. QED BY <1>7, <3>1, <3>2
  <2>3. KeysHaveJobs' /\ OrdersGrow BY <2>2, StayingRows
  <2>4. CallHolds(c)' BY <1>1, <1>3, <2>1, <2>2 DEF CallHolds, RowsStay
  <2>5. \A d \in Calls \ {c} : CallHolds(d)' BY <2>1, <2>2, <2>3, OtherCallsHold
  <2>6. QED BY <2>2, <2>3, <2>4, <2>5 DEF OrderInv
<1>8. QED BY <1>5, <1>6, <1>7


\* What is done to the lease of a job, around the requests.
LeaseSteps(j) ==
  \/ Order!Provision(j) \/ Order!ProviderAnswers(j) \/ Order!Close(j)
  \/ \E n \in Minutes : Order!Meter(j, n)

\* A row keeps its price and month, and its cost until it is metered; a lease
\* for which a provider was asked stays one.
Follows(new, old) ==
  /\ new.price = old.price /\ new.month = old.month
  /\ \/ new.cost = old.cost /\ (new.meter = "done" <=> old.meter = "done")
     \/ old.meter # "done" /\ new.meter = "done"
  /\ new.state = "REQUESTED" /\ new.provider = "unasked" =>
       old.state = "REQUESTED" /\ old.provider = "unasked"

LEMMA LeaseChanges ==
  ASSUME Order!SubmissionAssumption, OrderTypes, NEW j \in 1 .. Len(job), LeaseSteps(j)
  PROVE  /\ lease[j] \in Reservations
         /\ \E new \in Reservations :
              lease' = [lease EXCEPT ![j] = new] /\ Follows(new, lease[j])
         /\ UNCHANGED <<keyRow, job, call, offered, month>>
<1> DEFINE old == lease[j]
<1>1. old \in LeaseRows /\ j \in DOMAIN lease
  BY ElementOfSeq, LenProperties DEF OrderTypes
<1>2. old.state # "NONE"
  BY DEF LeaseSteps, Order!Provision, Order!ProviderAnswers, Order!Close, Order!Meter,
         Order!Reserved
<1>3. old \in Reservations BY <1>1, <1>2 DEF LeaseRows
<1>4. ASSUME NEW becomes \in {"REQUESTED", "PROVISIONING", "READY", "CLOSED"},
             NEW provider \in {"unasked", "asked", "failed", "machine"},
             NEW meter \in {"open", "due", "done"}, Order!LeaseBecomes(j, becomes, provider, meter),
             meter = "done" <=> old.meter = "done",
             becomes = "REQUESTED" => provider # "unasked"
      PROVE  \E new \in Reservations :
               lease' = [lease EXCEPT ![j] = new] /\ Follows(new, old)
  <2> DEFINE new == [state |-> becomes, provider |-> provider, meter |-> meter,
                     price |-> old.price, cost |-> old.cost, month |-> old.month]
             one == [old EXCEPT !.state = becomes]
             two == [one EXCEPT !.provider = provider]
             three == [two EXCEPT !.meter = meter]
  <2>1. lease' = [lease EXCEPT ![j] = three] BY <1>1, <1>4 DEF Order!LeaseBecomes
  <2>2. one = [state |-> becomes, provider |-> old.provider, meter |-> old.meter,
               price |-> old.price, cost |-> old.cost, month |-> old.month]
    BY <1>3 DEF Reservations
  <2> HIDE DEF old, one
  <2>3. two = [state |-> becomes, provider |-> provider, meter |-> old.meter,
               price |-> old.price, cost |-> old.cost, month |-> old.month]
    BY <2>2
  <2> HIDE DEF two
  <2>4. three = new BY <2>3
  <2>5. new \in Reservations BY <1>3 DEF Reservations
  <2>6. Follows(new, old) BY <1>4 DEF Follows
  <2> HIDE DEF three, new
  <2>7. QED BY <2>1, <2>4, <2>5, <2>6
<1>5. /\ old.provider \in {"unasked", "asked", "failed", "machine"}
      /\ old.meter \in {"open", "due", "done"}
  BY <1>3 DEF Reservations
<1>6. Order!Due(j) \in {"due", "done"} /\ (Order!Due(j) = "done" <=> old.meter = "done")
  BY <1>5 DEF Order!Due
<1>7. ASSUME Order!Provision(j) \/ Order!ProviderAnswers(j) \/ Order!Close(j)
      PROVE  \E new \in Reservations :
               lease' = [lease EXCEPT ![j] = new] /\ Follows(new, old)
  <2> HIDE DEF old
  <2>1. CASE Order!Provision(j)
    <3>1. Order!LeaseBecomes(j, "PROVISIONING", "asked", old.meter)
      BY <2>1 DEF Order!Provision, old
    <3>2. QED BY <1>4, <1>5, <3>1
  <2>2. CASE Order!ProviderAnswers(j)
    <3>1. \/ Order!LeaseBecomes(j, "READY", "machine", old.meter)
          \/ Order!LeaseBecomes(j, "REQUESTED", "failed", old.meter)
          \/ Order!LeaseBecomes(j, "CLOSED", "failed", Order!Due(j))
      BY <2>2 DEF Order!ProviderAnswers, old
    <3>2. QED BY <1>4, <1>5, <1>6, <3>1
  <2>3. CASE Order!Close(j)
    <3>1. \/ Order!LeaseBecomes(j, "READY", old.provider, old.meter)
          \/ Order!LeaseBecomes(j, "CLOSED", old.provider, Order!Due(j))
      BY <2>3 DEF Order!Close, old
    <3>2. QED BY <1>4, <1>5, <1>6, <3>1
  <2>4. QED BY <1>7, <2>1, <2>2, <2>3
<1>8. ASSUME NEW n \in Minutes, Order!Meter(j, n)
      PROVE  \E new \in Reservations :
               lease' = [lease EXCEPT ![j] = new] /\ Follows(new, old)
  <2> DEFINE used == n * old.price
             one == [old EXCEPT !.meter = "done"]
             new == [one EXCEPT !.cost = used]
  <2>1. used \in Nat BY <1>3 DEF Reservations, Order!SubmissionAssumption
  <2>2. lease' = [lease EXCEPT ![j] = new] BY <1>1, <1>8 DEF Order!Meter
  <2>3. old.meter = "due" BY <1>8 DEF Order!Meter
  <2> HIDE DEF used
  <2>4. one = [state |-> old.state, provider |-> old.provider, meter |-> "done",
               price |-> old.price, cost |-> old.cost, month |-> old.month]
    BY <1>3 DEF Reservations
  <2> HIDE DEF old, one
  <2>5. new = [state |-> old.state, provider |-> old.provider, meter |-> "done",
               price |-> old.price, cost |-> used, month |-> old.month]
    BY <2>4
  <2> HIDE DEF new
  <2>6. new \in Reservations BY <1>3, <2>1, <2>5 DEF Reservations
  <2>7. Follows(new, old) BY <2>3, <2>5 DEF Follows
  <2>8. QED BY <2>2, <2>6, <2>7
<1>9. UNCHANGED <<keyRow, job, call, offered, month>>
  BY DEF LeaseSteps, Order!Provision, Order!ProviderAnswers, Order!Close, Order!Meter,
         Order!LeaseBecomes, Order!hosting
<1>10. QED BY <1>3, <1>7, <1>8, <1>9 DEF LeaseSteps

LEMMA LeaseStepHolds ==
  ASSUME Order!SubmissionAssumption, OrderInv, NEW j \in 1 .. Len(job), LeaseSteps(j)
  PROVE  OrderInv'
<1>1. PICK new \in Reservations : lease' = [lease EXCEPT ![j] = new]
  BY LeaseChanges DEF OrderInv
<1>2. UNCHANGED <<keyRow, job, call, offered, month>> BY LeaseChanges DEF OrderInv
<1>3. lease \in Seq(LeaseRows) /\ Len(lease) = Len(job) BY DEF OrderInv, OrderTypes
<1>4. new \in LeaseRows /\ new.state # "NONE" BY DEF LeaseRows, Reservations
<1>5. /\ lease' \in Seq(LeaseRows) /\ Len(lease') = Len(lease) /\ lease'[j] = new
      /\ \A i \in 1 .. Len(lease) : i # j => lease'[i] = lease[i]
  BY <1>1, <1>3, <1>4, ExceptSeq
<1>6. OrderTypes' BY <1>2, <1>5 DEF OrderInv, OrderTypes
<1>7. RowsStay BY <1>2, <1>3, <1>4, <1>5 DEF RowsStay
<1>8. QED BY <1>2, <1>6, <1>7, AroundHolds

LEMMA ExpireKeyHolds ==
  ASSUME Order!SubmissionAssumption, OrderInv, NEW k \in RunKeys, Order!ExpireKey(k)
  PROVE  OrderInv'
<1> DEFINE new == [keyRow[k] EXCEPT !.expired = TRUE]
<1>1. /\ keyRow[k] # Nil /\ keyRow' = [keyRow EXCEPT ![k] = new]
      /\ UNCHANGED <<job, lease, call, offered, month>>
  BY DEF Order!ExpireKey, Order!hosting
<1>2. keyRow[k] \in KeyRows BY <1>1 DEF OrderInv, OrderTypes
<1>3. /\ new \in KeyRows /\ new.job = keyRow[k].job /\ new.body = keyRow[k].body
  BY <1>2 DEF KeyRows
<1>4. new # Nil
  <2>1. Nil \notin KeyRows BY DEF KeyRows, Order!SubmissionAssumption
  <2>2. QED BY <1>3, <2>1
<1> HIDE DEF new
<1>5. /\ keyRow' \in [RunKeys -> KeyRows \cup {Nil}] /\ keyRow'[k] = new
      /\ \A r \in RunKeys \ {k} : keyRow'[r] = keyRow[r]
  BY <1>1, <1>3 DEF OrderInv, OrderTypes
<1>6. OrderTypes' BY <1>1, <1>5 DEF OrderInv, OrderTypes
<1>7. RowsStay BY <1>1, <1>3, <1>4, <1>5 DEF RowsStay
<1>8. QED BY <1>1, <1>6, <1>7, AroundHolds

LEMMA OrderStep ==
  ASSUME Order!SubmissionAssumption, OrderInv, [Order!Next]_Order!vars
  PROVE  OrderInv'
<1>1. DOMAIN job = 1 .. Len(job) BY LenProperties DEF OrderInv, OrderTypes
<1>2. CASE UNCHANGED Order!vars
  <2>1. UNCHANGED <<keyRow, job, lease, call, offered, month>> BY <1>2 DEF Order!vars
  <2>2. OrderTypes' /\ RowsStay BY <2>1 DEF OrderInv, OrderTypes, RowsStay
  <2>3. QED BY <2>1, <2>2, AroundHolds
<1>3. CASE Order!MonthPasses
  <2>1. month' \in Nat /\ UNCHANGED <<keyRow, job, lease, call, offered>>
    BY <1>3 DEF Order!MonthPasses, OrderInv, OrderTypes
  <2>2. OrderTypes' /\ RowsStay BY <2>1 DEF OrderInv, OrderTypes, RowsStay
  <2>3. QED BY <2>1, <2>2, AroundHolds
<1>4. CASE \E o \in (1 .. MaxVersion) \cup {Nil} : Order!Offer(o)
  <2>1. offered' \in Nat \cup {Nil} /\ UNCHANGED <<keyRow, job, lease, call, month>>
    BY <1>4 DEF Order!Offer
  <2>2. OrderTypes' /\ RowsStay BY <2>1 DEF OrderInv, OrderTypes, RowsStay
  <2>3. QED BY <2>1, <2>2, AroundHolds
<1>5. CASE \E k \in RunKeys : Order!ExpireKey(k) BY <1>5, ExpireKeyHolds
<1>6. CASE \E j \in DOMAIN job : LeaseSteps(j) BY <1>1, <1>6, LeaseStepHolds
<1>7. CASE \E c \in Calls : \E k \in RunKeys, b \in Bodies, l \in Limits \cup {Nil} :
             Order!Post(c, k, b, l)
  BY <1>7, PostHolds
<1>8. CASE \E c \in Calls : Order!LookUpKey(c) BY <1>8, LookUpKeyHolds
<1>9. CASE \E c \in Calls : Order!CreateRun(c) BY <1>9, CreateRunHolds
<1>10. CASE \E c \in Calls : Order!CheckAgain(c) BY <1>10, CheckAgainHolds
<1>11. CASE \E c \in Calls : Order!Request(c) BY <1>11, OrderRequestHolds
<1>12. CASE \E c \in Calls : Order!Abandon(c)
  BY <1>12, FailingCall DEF Order!Abandon, Order!hosting
<1>13. QED
  BY <1>2, <1>3, <1>4, <1>5, <1>6, <1>7, <1>8, <1>9, <1>10, <1>11, <1>12
     DEF Order!Next, LeaseSteps

LEMMA OrderSafe == OrderInv => Order!OneOrderPerKey
<1> SUFFICES ASSUME OrderInv PROVE Order!OneOrderPerKey OBVIOUS
<1>1. DOMAIN job = 1 .. Len(job) BY LenProperties DEF OrderInv, OrderTypes
<1>2. \A i, j \in DOMAIN job : job[i] = job[j] => i = j
  BY <1>1 DEF OrderInv, KeysHaveJobs
<1>3. \A c \in Calls : call[c].at = "answered" =>
        /\ job[call[c].job] = call[c].key /\ keyRow[call[c].key].body = call[c].body
        /\ call[c].limit # Nil => lease[call[c].job].state # "NONE"
  BY DEF OrderInv, CallHolds
<1>4. QED BY <1>2, <1>3 DEF Order!OneOrderPerKey

\* However many requests there are, and whatever is changed around
\* them: one run is made of an idempotency key, who is answered is answered
\* with that run, and a hosted order with the lease of its job (POST .../runs,
\* createRun and HostedComputeService.request).
THEOREM OrdersKeepTheirKeys ==
  ASSUME Order!SubmissionAssumption
  PROVE  Order!Spec => []OneOrderPerKey
<1>1. Order!Init => OrderInv BY OrderInit
<1>2. OrderInv /\ [Order!Next]_Order!vars => OrderInv' BY OrderStep
<1>3. QED BY <1>1, <1>2, OrderSafe, PTL DEF Order!Spec, OneOrderPerKey


-----------------------------------------------------------------------------
(***************************************************************************)
(* GitHubChecks.  Comments are only added, so a publisher that has found   *)
(* no marked one among those it has listed knows that those it has seen    *)
(* are not marked, but for the ones after the first page.                  *)
(***************************************************************************)
CommentRows == [marked : BOOLEAN, seen : Nat]
Publishing == [at : {"idle", "read", "checked", "written", "failed"}]
Commenting == [at : {"listed", "commented", "done", "failed"}, seen : Nat, comment : Nat]

CommentTypes ==
  /\ comments \in Seq(CommentRows)
  /\ publisher \in [Publishers -> Publishing \cup Commenting]

ListedHolds(p) ==
  publisher[p].at = "listed" =>
    /\ publisher[p].seen <= Len(comments)
    /\ publisher[p].comment = 0 =>
         \A i \in 1 .. publisher[p].seen : comments[i].marked => i > PageSize

CommentInv ==
  CommentTypes /\ Check!DuplicatesHaveACause /\ \A p \in Publishers : ListedHolds(p)

LEMMA CommentInit == Check!Init => CommentInv
<1> SUFFICES ASSUME Check!Init PROVE CommentInv OBVIOUS
<1>1. comments = <<>> /\ \A p \in Publishers : publisher[p] = [at |-> "idle"]
  BY DEF Check!Init
<1>2. CommentTypes BY DEF Check!Init, CommentTypes, Publishing
<1>3. Check!DuplicatesHaveACause
  BY <1>1 DEF Check!DuplicatesHaveACause, Check!Marked
<1>4. QED BY <1>1, <1>2, <1>3 DEF CommentInv, ListedHolds

LEMMA MarkedComments ==
  ASSUME CommentTypes
  PROVE  /\ Len(comments) \in Nat /\ DOMAIN comments = 1 .. Len(comments)
         /\ Check!Marked = {i \in 1 .. Len(comments) : comments[i].marked}
BY LenProperties DEF CommentTypes, Check!Marked

\* A publisher goes on without a comment.
LEMMA PublisherGoes ==
  ASSUME CommentInv, NEW p \in Publishers, NEW next \in Publishing \cup Commenting,
         publisher' = [publisher EXCEPT ![p] = next], next.at # "listed",
         UNCHANGED comments
  PROVE  CommentInv'
<1>1. /\ publisher' \in [Publishers -> Publishing \cup Commenting]
      /\ publisher'[p] = next /\ \A q \in Publishers \ {p} : publisher'[q] = publisher[q]
  BY DEF CommentInv, CommentTypes
<1>2. CommentTypes' BY <1>1 DEF CommentInv, CommentTypes
<1>3. Check!DuplicatesHaveACause'
  BY DEF CommentInv, Check!DuplicatesHaveACause, Check!Marked
<1>4. \A q \in Publishers : ListedHolds(q)' BY <1>1 DEF CommentInv, ListedHolds
<1>5. QED BY <1>2, <1>3, <1>4 DEF CommentInv

LEMMA PublisherMoves ==
  ASSUME CommentInv, NEW p \in Publishers, NEW to \in {"read", "checked", "written", "done", "failed"},
         Check!Moves(p, to), UNCHANGED comments,
         \/ to = "failed"
         \/ to = "done" /\ publisher[p].at = "commented"
         \/ to \in {"read", "checked", "written"} /\ publisher[p].at \in {"idle", "read", "checked"}
  PROVE  CommentInv'
<1> DEFINE next == [publisher[p] EXCEPT !.at = to]
<1>1. publisher' = [publisher EXCEPT ![p] = next] BY DEF Check!Moves
<1>2. publisher[p] \in Publishing \cup Commenting BY DEF CommentInv, CommentTypes
<1>3. next \in Publishing \cup Commenting /\ next.at = to
  <2>1. CASE publisher[p] \in Publishing BY <2>1 DEF Publishing
  <2>2. CASE publisher[p] \in Commenting BY <2>2 DEF Commenting
  <2>3. QED BY <1>2, <2>1, <2>2
<1> HIDE DEF next
<1>4. QED BY <1>1, <1>3, PublisherGoes

\* A comment is added: it is not marked, or no marked one was found for it.
LEMMA CommentAdded ==
  ASSUME CommentInv, NEW new \in CommentRows, comments' = Append(comments, new),
         publisher' \in [Publishers -> Publishing \cup Commenting],
         \A q \in Publishers : publisher'[q].at = "listed" => publisher'[q] = publisher[q],
         new.marked => \A i \in 1 .. Len(comments) :
                         i <= new.seen /\ comments[i].marked => i > PageSize
  PROVE  CommentInv'
<1>1. /\ comments' \in Seq(CommentRows) /\ Len(comments') = Len(comments) + 1
      /\ comments'[Len(comments) + 1] = new
      /\ \A i \in 1 .. Len(comments) : comments'[i] = comments[i]
  BY AppendProperties DEF CommentInv, CommentTypes
<1>2. CommentTypes' BY <1>1 DEF CommentTypes
<1>3. /\ Len(comments) \in Nat
      /\ Check!Marked = {i \in 1 .. Len(comments) : comments[i].marked}
  BY MarkedComments DEF CommentInv
<1>4. Check!Marked' = {i \in 1 .. Len(comments') : comments'[i].marked}
  BY <1>1, <1>2, LenProperties DEF CommentTypes, Check!Marked
<1>5. Check!DuplicatesHaveACause'
  <2> SUFFICES ASSUME NEW i \in Check!Marked', NEW j \in Check!Marked', i < j
               PROVE  i > comments'[j].seen \/ i > PageSize
    BY DEF Check!DuplicatesHaveACause
  <2>1. /\ i \in 1 .. Len(comments) /\ comments[i].marked /\ comments'[i] = comments[i]
        /\ j \in 1 .. Len(comments) + 1 /\ comments'[j].marked
    BY <1>1, <1>3, <1>4
  <2>2. CASE j \in 1 .. Len(comments)
    BY <1>1, <1>3, <2>1, <2>2 DEF CommentInv, Check!DuplicatesHaveACause
  <2>3. CASE j = Len(comments) + 1 BY <1>1, <2>1, <2>3 DEF CommentRows
  <2>4. QED BY <1>3, <2>1, <2>2, <2>3
<1>6. ASSUME NEW p \in Publishers PROVE ListedHolds(p)'
  <2> SUFFICES ASSUME publisher'[p].at = "listed" PROVE ListedHolds(p)'
    BY DEF ListedHolds
  <2>1. publisher'[p] = publisher[p] /\ ListedHolds(p) BY DEF CommentInv
  <2>2. publisher[p].seen \in Nat
    BY <2>1 DEF CommentInv, CommentTypes, Publishing, Commenting
  <2>3. QED BY <1>1, <1>3, <2>1, <2>2 DEF ListedHolds
<1>7. QED BY <1>2, <1>5, <1>6 DEF CommentInv

LEMMA ListCommentsHolds ==
  ASSUME Check!ChecksAssumption, CommentInv, NEW p \in Publishers, Check!ListComments(p)
  PROVE  CommentInv'
<1> DEFINE page == {i \in Check!Marked : i <= PageSize}
           oldest == CHOOSE i \in page : \A j \in page : i <= j
           known == IF page = {} THEN 0 ELSE oldest
           next == [at |-> "listed", seen |-> Len(comments), comment |-> known]
<1>1. publisher' = [publisher EXCEPT ![p] = next] /\ UNCHANGED comments
  BY DEF Check!ListComments
<1>2. /\ Len(comments) \in Nat
      /\ Check!Marked = {i \in 1 .. Len(comments) : comments[i].marked}
  BY MarkedComments DEF CommentInv
<1>3. page # {} => oldest \in page
  <2> SUFFICES ASSUME page # {} PROVE \E i \in page : \A j \in page : i <= j
    OBVIOUS
  <2>1. page \subseteq Nat BY <1>2
  <2> HIDE DEF page
  <2>2. PICK i \in page : \A j \in page : <<j, i>> \notin OpToRel(<, Nat)
    BY <2>1, NatLessThanWellFounded, WFMin
  <2>3. \A j \in page : ~ j < i BY <2>1, <2>2 DEF OpToRel
  <2>4. QED BY <2>1, <2>3
<1>4. known \in Nat /\ (known = 0 => page = {})
  <2>1. CASE page = {} BY <2>1
  <2>2. CASE page # {}
    <3>1. known = oldest /\ oldest \in page BY <1>3, <2>2
    <3>2. page \subseteq 1 .. Len(comments) BY <1>2
    <3> HIDE DEF known, page, oldest
    <3>3. QED BY <1>2, <3>1, <3>2
  <2>3. QED BY <2>1, <2>2
<1>5. known = 0 => \A i \in 1 .. Len(comments) : comments[i].marked => i > PageSize
  <2> SUFFICES ASSUME known = 0, NEW i \in 1 .. Len(comments), comments[i].marked
               PROVE  i > PageSize
    OBVIOUS
  <2>1. i \notin page BY <1>4
  <2>2. ~ (i <= PageSize) BY <1>2, <2>1
  <2>3. QED BY <1>2, <2>2 DEF Check!ChecksAssumption
<1> HIDE DEF known
<1>6. /\ next \in Commenting /\ next.at = "listed" /\ next.seen = Len(comments)
      /\ next.comment = known
  BY <1>2, <1>4 DEF Commenting
<1> HIDE DEF next
<1>7. /\ publisher' \in [Publishers -> Publishing \cup Commenting]
      /\ publisher'[p] = next /\ \A q \in Publishers \ {p} : publisher'[q] = publisher[q]
  BY <1>1, <1>6 DEF CommentInv, CommentTypes
<1>8. CommentTypes' BY <1>1, <1>7 DEF CommentInv, CommentTypes
<1>9. Check!DuplicatesHaveACause'
  BY <1>1 DEF CommentInv, Check!DuplicatesHaveACause, Check!Marked
<1>10. ListedHolds(p)' BY <1>1, <1>2, <1>5, <1>6, <1>7 DEF ListedHolds
<1>11. \A q \in Publishers \ {p} : ListedHolds(q)'
  BY <1>1, <1>7 DEF CommentInv, ListedHolds
<1>12. QED BY <1>8, <1>9, <1>10, <1>11 DEF CommentInv

LEMMA UpsertCommentHolds ==
  ASSUME Check!ChecksAssumption, CommentInv, NEW p \in Publishers, Check!UpsertComment(p)
  PROVE  CommentInv'
<1> DEFINE known == publisher[p].comment
           added == [marked |-> TRUE, seen |-> publisher[p].seen]
<1>1. publisher[p].at = "listed" BY DEF Check!UpsertComment
<1>2. publisher[p] \in Commenting
  BY <1>1 DEF CommentInv, CommentTypes, Publishing
<1>3. PICK to \in {"commented", "failed"} :
        publisher' = [publisher EXCEPT ![p].at = to,
                        ![p].comment = IF known # 0 THEN known ELSE Len(comments')]
  BY DEF Check!UpsertComment
<1>4. comments' = IF known # 0 THEN comments ELSE Append(comments, added)
  BY DEF Check!UpsertComment
<1>5. Len(comments) \in Nat /\ ListedHolds(p) BY MarkedComments DEF CommentInv
<1>6. added \in CommentRows BY <1>2 DEF CommentRows, Commenting
<1>7. Len(comments') \in Nat
  <2>1. CASE known # 0 BY <1>4, <1>5, <2>1
  <2>2. CASE known = 0
    BY <1>4, <1>5, <1>6, <2>2, AppendProperties DEF CommentInv, CommentTypes
  <2>3. QED BY <2>1, <2>2
<1> DEFINE number == IF known # 0 THEN known ELSE Len(comments')
           there == [publisher[p] EXCEPT !.at = to]
           next == [there EXCEPT !.comment = number]
<1>8. number \in Nat BY <1>2, <1>7 DEF Commenting
<1>9. publisher' = [publisher EXCEPT ![p] = next] BY <1>3 DEF CommentInv, CommentTypes
<1>10. there \in Commenting /\ there.at = to BY <1>2 DEF Commenting
<1> HIDE DEF there, number
<1>11. next \in Commenting /\ next.at = to BY <1>8, <1>10 DEF Commenting
<1> HIDE DEF next
<1>12. CASE known # 0 BY <1>4, <1>9, <1>11, <1>12, PublisherGoes
<1>13. CASE known = 0
  <2>1. comments' = Append(comments, added) BY <1>4, <1>13
  <2>2. /\ publisher' \in [Publishers -> Publishing \cup Commenting]
        /\ \A q \in Publishers : publisher'[q].at = "listed" => publisher'[q] = publisher[q]
    BY <1>9, <1>11 DEF CommentInv, CommentTypes
  <2>3. \A i \in 1 .. Len(comments) :
          i <= added.seen /\ comments[i].marked => i > PageSize
    BY <1>1, <1>2, <1>5, <1>13 DEF ListedHolds, Commenting
  <2> HIDE DEF added
  <2>4. QED BY <1>6, <2>1, <2>2, <2>3, CommentAdded
<1>14. QED BY <1>12, <1>13

LEMMA SomeoneCommentsHolds ==
  ASSUME CommentInv, Check!SomeoneComments
  PROVE  CommentInv'
<1> DEFINE added == [marked |-> FALSE, seen |-> 0]
<1>1. comments' = Append(comments, added) /\ UNCHANGED publisher
  BY DEF Check!SomeoneComments
<1>2. added \in CommentRows /\ ~ added.marked BY DEF CommentRows
<1> HIDE DEF added
<1>3. /\ publisher' \in [Publishers -> Publishing \cup Commenting]
      /\ \A q \in Publishers : publisher'[q] = publisher[q]
  BY <1>1 DEF CommentInv, CommentTypes
<1>4. QED BY <1>1, <1>2, <1>3, CommentAdded

LEMMA CommentStep ==
  ASSUME Check!ChecksAssumption, CommentInv, [Check!Next]_Check!vars
  PROVE  CommentInv'
<1>1. CASE UNCHANGED <<comments, publisher>>
  BY <1>1 DEF CommentInv, CommentTypes, ListedHolds, Check!DuplicatesHaveACause, Check!Marked
<1>2. CASE UNCHANGED Check!vars BY <1>1, <1>2 DEF Check!vars
<1>3. CASE Check!CompleteRun \/ Check!Suspend
  BY <1>1, <1>3 DEF Check!CompleteRun, Check!Suspend
<1>4. CASE Check!SomeoneComments BY <1>4, SomeoneCommentsHolds
<1>5. CASE \E s \in Starters : \/ Check!ReadQueued(s) \/ Check!StartCheck(s)
                               \/ Check!WriteStarted(s) \/ Check!AbandonStart(s)
  BY <1>1, <1>5
     DEF Check!ReadQueued, Check!StartCheck, Check!WriteStarted, Check!AbandonStart
<1>6. CASE \E p \in Publishers : Check!ReadCompleted(p)
  BY <1>6, PublisherMoves DEF Check!ReadCompleted
<1>7. CASE \E p \in Publishers : Check!CompleteCheck(p)
  BY <1>7, PublisherMoves DEF Check!CompleteCheck
<1>8. CASE \E p \in Publishers : Check!WriteCompleted(p)
  BY <1>8, PublisherMoves DEF Check!WriteCompleted
<1>9. CASE \E p \in Publishers : Check!ListComments(p) BY <1>9, ListCommentsHolds
<1>10. CASE \E p \in Publishers : Check!UpsertComment(p) BY <1>10, UpsertCommentHolds
<1>11. CASE \E p \in Publishers : Check!RecordComment(p)
  BY <1>11, PublisherMoves DEF Check!RecordComment
<1>12. CASE \E p \in Publishers : Check!AbandonPublish(p)
  BY <1>12, PublisherMoves DEF Check!AbandonPublish
<1>13. QED
  BY <1>2, <1>3, <1>4, <1>5, <1>6, <1>7, <1>8, <1>9, <1>10, <1>11, <1>12 DEF Check!Next

\* However many calls publish a run, at once or again after a lost answer, and
\* whatever people write: a second marked comment was listed for before the
\* first one was made, or the first one is beyond the page that is listed
\* (GitHubIntegration.publishRun, GitHubProvider.upsertPullRequestComment).
THEOREM DuplicatesAlwaysHaveACause ==
  ASSUME Check!ChecksAssumption
  PROVE  Check!Spec => []DuplicatesHaveACause
<1>1. CommentInv /\ [Check!Next]_Check!vars => CommentInv' BY CommentStep
<1>2. CommentInv => DuplicatesHaveACause BY DEF CommentInv, DuplicatesHaveACause
<1>3. QED BY <1>1, <1>2, CommentInit, PTL DEF Check!Spec


-----------------------------------------------------------------------------
(***************************************************************************)
(* LocalReports.  There is one file of each report, which may be replaced  *)
(* but stays; a reader has found, once each, what has been answered, or    *)
(* has its name still to read.                                             *)
(***************************************************************************)
ReportIds == Seq(RepositoryStates \cup Nat)
ReportRows == [kind : Local!Kinds, created : Nat, id : ReportIds]
ScannerStates ==
  {[at |-> "idle"]}
  \cup [at : {"assessed", "stored", "answered", "failed"}, report : ReportRows]
ReaderStates ==
  {[at |-> "idle"]}
  \cup [at : {"reading", "done"}, kind : Local!Kinds, found : SUBSET ReportRows,
        names : SUBSET ReportIds, latest : BOOLEAN, due : SUBSET ReportIds]

ReportTypes ==
  /\ state \in RepositoryStates /\ time \in Nat
  /\ file \subseteq ReportRows /\ latest \in ReportRows \cup {Nil}
  /\ scanner \in [Scanners -> ScannerStates]
  /\ reader \in [Readers -> ReaderStates]

Stored(x) == \E f \in file : Local!Same(f, x)

FilesHold ==
  /\ \A f, g \in file : Local!Same(f, g) => f = g
  /\ latest # Nil => latest.kind = "readiness" /\ Stored(latest)

ScannerHolds(s) ==
  /\ scanner[s].at \in {"stored", "answered"} => Stored(scanner[s].report)
  /\ scanner[s].at = "stored" => scanner[s].report.kind = "readiness"

ReaderHolds(q) ==
  reader[q].at # "idle" =>
    /\ \A f, g \in reader[q].found : Local!Same(f, g) => f = g
    /\ \A f \in reader[q].found : f.kind = reader[q].kind /\ f.id \notin reader[q].names
    /\ \A id \in reader[q].due : id \in reader[q].names \/ \E f \in reader[q].found : f.id = id
    /\ reader[q].latest => reader[q].kind = "readiness" /\ latest # Nil
    /\ reader[q].at = "done" => reader[q].names = {}

ReportInv ==
  /\ ReportTypes /\ FilesHold
  /\ \A s \in Scanners : ScannerHolds(s)
  /\ \A q \in Readers : ReaderHolds(q)

LEMMA ReportInit == Local!Init => ReportInv
BY DEF Local!Init, ReportInv, ReportTypes, FilesHold, ScannerHolds, ReaderHolds,
       ScannerStates, ReaderStates

LEMMA SameIsEquivalence ==
  ASSUME NEW x, NEW y, NEW z
  PROVE  /\ Local!Same(x, x)
         /\ Local!Same(x, y) => Local!Same(y, x)
         /\ Local!Same(x, y) /\ Local!Same(y, z) => Local!Same(x, z)
BY DEF Local!Same

\* What scanners and readers rely on that have not changed.
LEMMA ReportsStay ==
  ASSUME ReportInv, latest # Nil => latest' # Nil,
         \A x \in ReportRows : Stored(x) => Stored(x)'
  PROVE  /\ \A s \in Scanners : scanner'[s] = scanner[s] => ScannerHolds(s)'
         /\ \A q \in Readers : reader'[q] = reader[q] => ReaderHolds(q)'
<1>1. ASSUME NEW s \in Scanners, scanner'[s] = scanner[s] PROVE ScannerHolds(s)'
  <2>1. scanner[s].at \in {"stored", "answered"} => scanner[s].report \in ReportRows
    BY DEF ReportInv, ReportTypes, ScannerStates
  <2>2. Stored(scanner[s].report) /\ scanner[s].report \in ReportRows
          => Stored(scanner[s].report)'
    BY <1>1 DEF Stored
  <2>3. QED BY <1>1, <2>1, <2>2 DEF ReportInv, ScannerHolds, Stored
<1>2. ASSUME NEW q \in Readers, reader'[q] = reader[q] PROVE ReaderHolds(q)'
  BY <1>2 DEF ReportInv, ReaderHolds
<1>3. QED BY <1>1, <1>2

LEMMA WorkHolds == ASSUME ReportInv, Local!WorkGoesOn PROVE ReportInv'
<1>1. /\ state' \in RepositoryStates /\ time' \in Nat
      /\ UNCHANGED <<file, latest, scanner, reader>>
  BY DEF Local!WorkGoesOn, ReportInv, ReportTypes
<1>2. ReportTypes' BY <1>1 DEF ReportInv, ReportTypes
<1>3. QED
  BY <1>1, <1>2 DEF ReportInv, FilesHold, ScannerHolds, ReaderHolds, Stored

\* One scanner changes, and neither what is stored nor who reads.
LEMMA ScannerGoes ==
  ASSUME ReportInv, NEW s \in Scanners, NEW next \in ScannerStates,
         scanner' = [scanner EXCEPT ![s] = next],
         next.at = "answered" => Stored(next.report), next.at # "stored",
         \/ latest' = latest
         \/ /\ latest' \in ReportRows /\ latest' # Nil
            /\ latest'.kind = "readiness" /\ Stored(latest'),
         UNCHANGED <<state, time, file, reader>>
  PROVE  ReportInv'
<1>1. /\ scanner' \in [Scanners -> ScannerStates] /\ scanner'[s] = next
      /\ \A t \in Scanners \ {s} : scanner'[t] = scanner[t]
  BY DEF ReportInv, ReportTypes
<1>2. ReportTypes' BY <1>1 DEF ReportInv, ReportTypes
<1>3. FilesHold' BY DEF ReportInv, FilesHold, Stored
<1>4. \A x : Stored(x) => \E f \in file' : Local!Same(f, x) BY DEF Stored
<1>5. /\ \A t \in Scanners \ {s} : ScannerHolds(t)'
      /\ \A q \in Readers : ReaderHolds(q)'
  <2>1. \A x \in ReportRows : Stored(x) => Stored(x)' BY DEF Stored
  <2>2. latest # Nil => latest' # Nil OBVIOUS
  <2>3. QED BY <1>1, <2>1, <2>2, ReportsStay
<1>6. ScannerHolds(s)' BY <1>1, <1>4 DEF ScannerHolds, Stored
<1>7. QED BY <1>2, <1>3, <1>5, <1>6 DEF ReportInv

LEMMA ScannerMoves ==
  ASSUME ReportTypes, NEW s \in Scanners, scanner[s].at # "idle",
         NEW to \in {"stored", "answered", "failed"}, Local!Goes(s, to)
  PROVE  \E next \in ScannerStates :
           /\ scanner' = [scanner EXCEPT ![s] = next]
           /\ next.at = to /\ next.report = scanner[s].report
           /\ scanner[s].report \in ReportRows
<1> DEFINE next == [scanner[s] EXCEPT !.at = to]
<1>1. /\ scanner[s] \in [at : {"assessed", "stored", "answered", "failed"},
                         report : ReportRows]
      /\ scanner' = [scanner EXCEPT ![s] = next]
  BY DEF ReportTypes, ScannerStates, Local!Goes
<1>2. /\ next \in ScannerStates /\ next.at = to /\ next.report = scanner[s].report
      /\ scanner[s].report \in ReportRows
  BY <1>1 DEF ScannerStates
<1> HIDE DEF next
<1>3. QED BY <1>1, <1>2

LEMMA AssessHolds ==
  ASSUME ReportInv, NEW s \in Scanners, NEW k \in Local!Kinds, Local!Assess(s, k)
  PROVE  ReportInv'
<1> DEFINE name == IF k = "readiness" THEN <<state>> ELSE <<state, time>>
           made == [kind |-> k, created |-> time, id |-> name]
           next == [at |-> "assessed", report |-> made]
<1>1. /\ scanner' = [scanner EXCEPT ![s] = next]
      /\ UNCHANGED <<state, time, file, latest, reader>>
  BY DEF Local!Assess
<1>2. state \in RepositoryStates /\ time \in Nat BY DEF ReportInv, ReportTypes
<1>3. name \in ReportIds
  <2>1. <<state>> \in ReportIds /\ <<state, time>> \in ReportIds BY <1>2 DEF ReportIds
  <2>2. QED BY <2>1
<1> HIDE DEF name
<1>4. made \in ReportRows BY <1>2, <1>3 DEF ReportRows
<1> HIDE DEF made
<1>5. next \in ScannerStates /\ next.at = "assessed" BY <1>4 DEF ScannerStates
<1> HIDE DEF next
<1>6. QED BY <1>1, <1>5, ScannerGoes

LEMMA StoreHolds ==
  ASSUME ReportInv, NEW s \in Scanners, Local!Store(s)
  PROVE  ReportInv'
<1> DEFINE made == scanner[s].report
           to == IF made.kind = "readiness" THEN "stored" ELSE "answered"
<1>1. /\ scanner[s].at = "assessed" /\ Local!Goes(s, to)
      /\ file' = {f \in file : ~ Local!Same(f, made)} \cup {made}
      /\ UNCHANGED <<state, time, latest, reader>>
  BY DEF Local!Store
<1>2. to \in {"stored", "answered", "failed"} OBVIOUS
<1>3. PICK next \in ScannerStates :
        /\ scanner' = [scanner EXCEPT ![s] = next]
        /\ next.at = to /\ next.report = made /\ made \in ReportRows
  BY <1>1, <1>2, ScannerMoves DEF ReportInv
<1>4. /\ scanner' \in [Scanners -> ScannerStates] /\ scanner'[s] = next
      /\ \A t \in Scanners \ {s} : scanner'[t] = scanner[t]
  BY <1>3 DEF ReportInv, ReportTypes
<1>5. ReportTypes' BY <1>1, <1>3, <1>4 DEF ReportInv, ReportTypes
<1>6. \A x : Stored(x) => \E f \in file' : Local!Same(f, x)
  <2> SUFFICES ASSUME NEW x, Stored(x) PROVE \E f \in file' : Local!Same(f, x)
    OBVIOUS
  <2>1. PICK f \in file : Local!Same(f, x) BY DEF Stored
  <2>2. CASE Local!Same(f, made)
    <3>1. Local!Same(made, x) BY <2>1, <2>2, SameIsEquivalence
    <3>2. QED BY <1>1, <3>1
  <2>3. CASE ~ Local!Same(f, made) BY <1>1, <2>1, <2>3
  <2>4. QED BY <2>2, <2>3
<1>7. FilesHold'
  <2>1. \A f, g \in file' : Local!Same(f, g) => f = g
    BY <1>1, SameIsEquivalence DEF ReportInv, FilesHold
  <2>2. latest # Nil => latest.kind = "readiness" /\ \E f \in file' : Local!Same(f, latest)
    BY <1>6 DEF ReportInv, FilesHold
  <2>3. QED BY <1>1, <2>1, <2>2 DEF FilesHold, Stored
<1>8. /\ \A t \in Scanners \ {s} : ScannerHolds(t)'
      /\ \A q \in Readers : ReaderHolds(q)'
  <2>1. \A x \in ReportRows : Stored(x) => Stored(x)' BY <1>6 DEF Stored
  <2>2. latest # Nil => latest' # Nil BY <1>1
  <2>3. QED BY <1>1, <1>4, <2>1, <2>2, ReportsStay
<1>9. ScannerHolds(s)'
  <2>1. made \in file' /\ Local!Same(made, made) BY <1>1, SameIsEquivalence
  <2>2. QED BY <1>3, <1>4, <2>1 DEF ScannerHolds, Stored
<1>10. QED BY <1>5, <1>7, <1>8, <1>9 DEF ReportInv

LEMMA SetLatestHolds ==
  ASSUME Local!LocalReportsAssumption, ReportInv, NEW s \in Scanners, Local!SetLatest(s)
  PROVE  ReportInv'
<1>1. /\ scanner[s].at = "stored" /\ Local!Goes(s, "answered")
      /\ latest' = scanner[s].report /\ UNCHANGED <<state, time, file, reader>>
  BY DEF Local!SetLatest
<1>2. PICK next \in ScannerStates :
        /\ scanner' = [scanner EXCEPT ![s] = next]
        /\ next.at = "answered" /\ next.report = scanner[s].report
        /\ scanner[s].report \in ReportRows
  BY <1>1, ScannerMoves DEF ReportInv
<1>3. ScannerHolds(s) BY DEF ReportInv
<1>4. Stored(next.report) /\ latest'.kind = "readiness" /\ Stored(latest')
  BY <1>1, <1>2, <1>3 DEF ScannerHolds
<1>5. Nil \notin ReportRows
  BY DEF Local!LocalReportsAssumption, ReportRows, ReportIds
<1>6. QED BY <1>1, <1>2, <1>4, <1>5, ScannerGoes

LEMMA AbandonReportHolds ==
  ASSUME ReportInv, NEW s \in Scanners, Local!Abandon(s)
  PROVE  ReportInv'
<1>1. /\ scanner[s].at # "idle" /\ Local!Goes(s, "failed")
      /\ UNCHANGED <<state, time, file, latest, reader>>
  BY DEF Local!Abandon
<1>2. PICK next \in ScannerStates :
        scanner' = [scanner EXCEPT ![s] = next] /\ next.at = "failed"
  BY <1>1, ScannerMoves DEF ReportInv
<1>3. QED BY <1>1, <1>2, ScannerGoes

\* One reader changes, and what it holds of is shown.
LEMMA ReaderGoes ==
  ASSUME ReportInv, NEW q \in Readers, NEW next \in ReaderStates,
         reader' = [reader EXCEPT ![q] = next],
         \A f, g \in next.found : Local!Same(f, g) => f = g,
         \A f \in next.found : f.kind = next.kind /\ f.id \notin next.names,
         \A id \in next.due : id \in next.names \/ \E f \in next.found : f.id = id,
         next.latest => next.kind = "readiness" /\ latest # Nil,
         next.at = "done" => next.names = {},
         UNCHANGED <<state, time, file, latest, scanner>>
  PROVE  ReportInv'
<1>1. /\ reader' \in [Readers -> ReaderStates] /\ reader'[q] = next
      /\ \A r \in Readers \ {q} : reader'[r] = reader[r]
  BY DEF ReportInv, ReportTypes
<1>2. ReportTypes' BY <1>1 DEF ReportInv, ReportTypes
<1>3. FilesHold' /\ \A s \in Scanners : ScannerHolds(s)'
  BY DEF ReportInv, FilesHold, ScannerHolds, Stored
<1>4. ReaderHolds(q)' BY <1>1 DEF ReaderHolds
<1>5. \A r \in Readers \ {q} : ReaderHolds(r)' BY <1>1 DEF ReportInv, ReaderHolds
<1>6. QED BY <1>2, <1>3, <1>4, <1>5 DEF ReportInv

LEMMA ListHolds ==
  ASSUME ReportInv, NEW q \in Readers, NEW k \in Local!Kinds, Local!List(q, k)
  PROVE  ReportInv'
<1> DEFINE named == {f.id : f \in {g \in file : g.kind = k}}
           answered == {t \in Local!Answered : scanner[t].report.kind = k}
           owed == {scanner[s].report.id : s \in answered}
           hasLatest == k = "readiness" /\ latest # Nil
           next == [at |-> "reading", kind |-> k, found |-> {}, names |-> named,
                    latest |-> hasLatest, due |-> owed]
<1>1. /\ reader' = [reader EXCEPT ![q] = next]
      /\ UNCHANGED <<state, time, file, latest, scanner>>
  BY DEF Local!List
<1>2. \A s \in answered : s \in Scanners /\ scanner[s].report \in ReportRows
                          /\ Stored(scanner[s].report)
  <2> SUFFICES ASSUME NEW s \in answered
               PROVE  s \in Scanners /\ scanner[s].report \in ReportRows
                      /\ Stored(scanner[s].report)
    OBVIOUS
  <2>1. s \in Scanners /\ scanner[s].at = "answered" BY DEF Local!Answered
  <2>2. QED BY <2>1 DEF ReportInv, ReportTypes, ScannerStates, ScannerHolds
<1>3. named \subseteq ReportIds BY DEF ReportInv, ReportTypes, ReportRows
<1>4. owed \subseteq named
  <2> SUFFICES ASSUME NEW s \in answered PROVE scanner[s].report.id \in named
    OBVIOUS
  <2>1. PICK f \in file : Local!Same(f, scanner[s].report) BY <1>2 DEF Stored
  <2>2. f.kind = k /\ f.id = scanner[s].report.id BY <2>1 DEF Local!Same
  <2>3. QED BY <2>2
<1> HIDE DEF named, owed
<1>5. hasLatest \in BOOLEAN OBVIOUS
<1>6. hasLatest => k = "readiness" /\ latest # Nil OBVIOUS
<1> HIDE DEF hasLatest
<1>7. /\ next \in ReaderStates /\ next.at = "reading" /\ next.kind = k
      /\ next.found = {} /\ next.names = named /\ next.latest = hasLatest
      /\ next.due = owed
  BY <1>3, <1>4, <1>5 DEF ReaderStates
<1> HIDE DEF next
<1>8. QED BY <1>1, <1>4, <1>6, <1>7, ReaderGoes

LEMMA ReadHolds ==
  ASSUME ReportInv, NEW q \in Readers, Local!Read(q)
  PROVE  ReportInv'
<1> DEFINE w == reader[q]
<1>1. w.at = "reading" /\ UNCHANGED <<state, time, file, latest, scanner>>
  BY DEF Local!Read
<1>2. PICK id \in w.names, f \in file :
        /\ f.kind = w.kind /\ f.id = id
        /\ reader' = [reader EXCEPT ![q].names = @ \ {id}, ![q].found = @ \cup {f}]
  BY DEF Local!Read
<1>3. /\ w \in [at : {"reading", "done"}, kind : Local!Kinds, found : SUBSET ReportRows,
                names : SUBSET ReportIds, latest : BOOLEAN, due : SUBSET ReportIds]
      /\ ReaderHolds(q) /\ f \in ReportRows
  BY <1>1 DEF ReportInv, ReportTypes, ReaderStates
<1> DEFINE left == w.names \ {id}
           read == w.found \cup {f}
           there == [w EXCEPT !.names = left]
           next == [there EXCEPT !.found = read]
<1>4. left \subseteq ReportIds /\ read \subseteq ReportRows BY <1>3
<1>5. reader' = [reader EXCEPT ![q] = next] BY <1>2, <1>3 DEF ReportInv, ReportTypes
<1>6. /\ \A g, h \in read : Local!Same(g, h) => g = h
      /\ \A g \in read : g.kind = w.kind /\ g.id \notin left
      /\ \A i \in w.due : i \in left \/ \E g \in read : g.id = i
      /\ w.latest => w.kind = "readiness" /\ latest # Nil
  <2>1. \A g \in w.found : g.id # f.id BY <1>1, <1>2, <1>3 DEF ReaderHolds
  <2>2. \A g, h \in read : Local!Same(g, h) => g = h
    BY <1>1, <1>3, <2>1 DEF ReaderHolds, Local!Same
  <2>3. \A g \in read : g.kind = w.kind /\ g.id \notin left
    BY <1>1, <1>2, <1>3 DEF ReaderHolds
  <2>4. \A i \in w.due : i \in left \/ \E g \in read : g.id = i
    BY <1>1, <1>2, <1>3 DEF ReaderHolds
  <2>5. QED BY <1>1, <1>3, <2>2, <2>3, <2>4 DEF ReaderHolds
<1> HIDE DEF left, read
<1>7. /\ there \in [at : {"reading", "done"}, kind : Local!Kinds, found : SUBSET ReportRows,
                    names : SUBSET ReportIds, latest : BOOLEAN, due : SUBSET ReportIds]
      /\ there.at = "reading" /\ there.kind = w.kind /\ there.names = left
      /\ there.latest = w.latest /\ there.due = w.due
  BY <1>1, <1>3, <1>4
<1> HIDE DEF there
<1>8. /\ next \in ReaderStates /\ next.at = "reading" /\ next.kind = w.kind
      /\ next.names = left /\ next.found = read /\ next.latest = w.latest
      /\ next.due = w.due
  BY <1>4, <1>7 DEF ReaderStates
<1> HIDE DEF next
<1>9. QED BY <1>1, <1>5, <1>6, <1>8, ReaderGoes

LEMMA ReadLatestHolds ==
  ASSUME ReportInv, NEW q \in Readers, Local!ReadLatest(q)
  PROVE  ReportInv'
<1> DEFINE w == reader[q]
           read == IF w.latest THEN {f \in w.found : ~ Local!Same(f, latest)} \cup {latest}
                   ELSE w.found
           there == [w EXCEPT !.at = "done"]
           next == [there EXCEPT !.found = read]
<1>1. /\ w.at = "reading" /\ w.names = {} /\ UNCHANGED <<state, time, file, latest, scanner>>
  BY DEF Local!ReadLatest
<1>2. /\ w \in [at : {"reading", "done"}, kind : Local!Kinds, found : SUBSET ReportRows,
                names : SUBSET ReportIds, latest : BOOLEAN, due : SUBSET ReportIds]
      /\ ReaderHolds(q)
  BY <1>1 DEF ReportInv, ReportTypes, ReaderStates
<1>3. reader' = [reader EXCEPT ![q] = next]
  BY <1>2 DEF Local!ReadLatest, ReportInv, ReportTypes
<1>4. w.latest => /\ w.kind = "readiness" /\ latest # Nil /\ latest \in ReportRows
                  /\ latest.kind = "readiness"
  BY <1>1, <1>2 DEF ReaderHolds, ReportInv, ReportTypes, FilesHold
<1>5. /\ read \subseteq ReportRows
      /\ \A g, h \in read : Local!Same(g, h) => g = h
      /\ \A g \in read : g.kind = w.kind /\ g.id \notin {}
      /\ \A i \in w.due : \E g \in read : g.id = i
  <2>1. CASE w.latest
    <3>1. read = {f \in w.found : ~ Local!Same(f, latest)} \cup {latest} BY <2>1
    <3> HIDE DEF read
    <3>2. read \subseteq ReportRows BY <1>2, <1>4, <2>1, <3>1
    <3>3. \A g, h \in read : Local!Same(g, h) => g = h
      BY <1>1, <1>2, <3>1, SameIsEquivalence DEF ReaderHolds
    <3>4. \A g \in read : g.kind = w.kind
      BY <1>1, <1>2, <1>4, <2>1, <3>1 DEF ReaderHolds
    <3>5. ASSUME NEW i \in w.due PROVE \E g \in read : g.id = i
      <4>1. PICK g \in w.found : g.id = i BY <1>1, <1>2 DEF ReaderHolds
      <4>2. CASE Local!Same(g, latest) BY <3>1, <4>1, <4>2 DEF Local!Same
      <4>3. CASE ~ Local!Same(g, latest) BY <3>1, <4>1, <4>3
      <4>4. QED BY <4>2, <4>3
    <3>6. QED BY <3>2, <3>3, <3>4, <3>5
  <2>2. CASE ~ w.latest BY <1>1, <1>2, <2>2 DEF ReaderHolds
  <2>3. QED BY <2>1, <2>2
<1> HIDE DEF read
<1>6. /\ there \in [at : {"reading", "done"}, kind : Local!Kinds, found : SUBSET ReportRows,
                    names : SUBSET ReportIds, latest : BOOLEAN, due : SUBSET ReportIds]
      /\ there.at = "done" /\ there.kind = w.kind /\ there.names = {}
      /\ there.latest = w.latest /\ there.due = w.due
  BY <1>1, <1>2
<1> HIDE DEF there
<1>7. /\ next \in ReaderStates /\ next.at = "done" /\ next.kind = w.kind
      /\ next.names = {} /\ next.found = read /\ next.latest = w.latest
      /\ next.due = w.due
  BY <1>5, <1>6 DEF ReaderStates
<1> HIDE DEF next
<1>8. /\ \A f, g \in next.found : Local!Same(f, g) => f = g
      /\ \A f \in next.found : f.kind = next.kind /\ f.id \notin next.names
      /\ \A i \in next.due : \E f \in next.found : f.id = i
      /\ next.latest => next.kind = "readiness" /\ latest # Nil
  BY <1>4, <1>5, <1>7
<1> HIDE DEF w
<1>9. QED BY <1>1, <1>3, <1>7, <1>8, ReaderGoes

LEMMA ReportStep ==
  ASSUME Local!LocalReportsAssumption, ReportInv, [Local!Next]_Local!vars
  PROVE  ReportInv'
<1>1. CASE UNCHANGED Local!vars
  BY <1>1 DEF Local!vars, ReportInv, ReportTypes, FilesHold, ScannerHolds, ReaderHolds,
              Stored
<1>2. CASE Local!WorkGoesOn BY <1>2, WorkHolds
<1>3. CASE \E s \in Scanners : \/ \E k \in Local!Kinds : Local!Assess(s, k)
                               \/ Local!Store(s) \/ Local!SetLatest(s) \/ Local!Abandon(s)
  BY <1>3, AssessHolds, StoreHolds, SetLatestHolds, AbandonReportHolds
<1>4. CASE \E q \in Readers : \/ \E k \in Local!Kinds : Local!List(q, k)
                              \/ Local!Read(q) \/ Local!ReadLatest(q)
  BY <1>4, ListHolds, ReadHolds, ReadLatestHolds
<1>5. QED BY <1>1, <1>2, <1>3, <1>4 DEF Local!Next

\* Whoever writes, fails, dies or lists at the same time: the latest readiness
\* report has a file of its own, and a history shows once each report that had
\* been answered when it was asked for (the doctor command of packages/cli,
\* packages/local-product).
THEOREM HistoriesAreKept ==
  ASSUME Local!LocalReportsAssumption
  PROVE  Local!Spec => []HistoryIsKept
<1>1. ReportInv /\ [Local!Next]_Local!vars => ReportInv' BY ReportStep
<1>2. ReportInv => HistoryIsKept
  BY DEF ReportInv, FilesHold, ReaderHolds, Stored, HistoryIsKept, Local!HistoryIsKept
<1>3. QED BY <1>1, <1>2, ReportInit, PTL DEF Local!Spec


-----------------------------------------------------------------------------
(***************************************************************************)
(* Publishing.  A publication that is under way holds the lock of its run, *)
(* so the id that it has read, or drawn, is still the run's, or nobody's,  *)
(* when it commits.  A visitor who has found a publication finds it again  *)
(* unless one has been withdrawn since.                                    *)
(***************************************************************************)
Visibilities == {"PUBLIC", "PRIVATE"}
PublicRows ==
  [id : Nat, state : {"PUBLISHED", "UNPUBLISHED"}, shows : Visibilities, time : Nat]
Selections ==
  [at : {"selected"}, run : Runs, shows : Visibilities, time : Nat, id : Nat,
   repository : Nat]
Answers == [at : {"published"}, run : Runs, id : Nat, repository : Nat]
Findings == [at : {"latest", "found", "notFound"}, run : Runs, since : Nat]
VisitStates ==
  {[at |-> "idle"], [at |-> "empty"]} \cup Selections \cup Answers \cup Findings

PageTypes ==
  /\ visibility \in Visibilities /\ repository \in Nat \cup {Nil}
  /\ publication \in [Runs -> PublicRows \cup {Nil}]
  /\ visit \in [Visits -> VisitStates]
  /\ ids \in Nat /\ published \in Nat /\ withdrawn \in Nat

IdsAreOwn ==
  \A r \in Runs : publication[r] # Nil =>
    /\ publication[r].id <= ids
    /\ \A s \in Runs : publication[s] # Nil /\ publication[s].id = publication[r].id => s = r

\* What a visit that is under way, or has been answered, knows.
SelectionHolds(w) ==
  /\ w.id <= ids
  /\ publication[w.run] # Nil => publication[w.run].id = w.id
  /\ publication[w.run] = Nil =>
       \A s \in Runs : publication[s] # Nil => publication[s].id # w.id

AnswerHolds(w) ==
  publication[w.run] # Nil /\ publication[w.run].id = w.id /\ repository = w.repository

VisitHolds(w) ==
  /\ w.at = "selected" => SelectionHolds(w)
  /\ w.at = "published" => AnswerHolds(w)
  /\ w.at = "latest" => w.since <= withdrawn /\ (w.since = withdrawn => Page!Published(w.run))
  /\ w.at = "notFound" => w.since < withdrawn

\* Publications under way are of different runs, with different ids.
Apart(v, w) ==
  v.at = "selected" /\ w.at = "selected" => v.run # w.run /\ v.id # w.id

PageInv ==
  /\ PageTypes /\ IdsAreOwn
  /\ \A q \in Visits : VisitHolds(visit[q])
  /\ \A p, q \in Visits : p # q => Apart(visit[p], visit[q])

LEMMA PageInit == Page!Init => PageInv
BY DEF Page!Init, PageInv, PageTypes, Visibilities, IdsAreOwn, VisitHolds, Apart,
       VisitStates

LEMMA VisitForms ==
  ASSUME PageTypes, NEW q \in Visits
  PROVE  /\ visit[q].at \in {"idle", "empty", "selected", "published", "latest", "found",
                             "notFound"}
         /\ visit[q].at = "selected" => visit[q] \in Selections
         /\ visit[q].at = "published" => visit[q] \in Answers
         /\ visit[q].at \in {"latest", "found", "notFound"} => visit[q] \in Findings
<1>1. visit[q] \in VisitStates BY DEF PageTypes
<1>2. QED BY <1>1 DEF VisitStates, Selections, Answers, Findings

\* One visit changes, and nothing that is published.
LEMMA VisitGoes ==
  ASSUME PageInv, NEW q \in Visits, NEW next \in VisitStates,
         visit' = [visit EXCEPT ![q] = next],
         UNCHANGED <<visibility, repository, publication, withdrawn>>,
         ids' \in Nat, ids <= ids', published' \in Nat,
         next.at = "selected" =>
           /\ next.id <= ids'
           /\ publication[next.run] # Nil => publication[next.run].id = next.id
           /\ publication[next.run] = Nil =>
                \A s \in Runs : publication[s] # Nil => publication[s].id # next.id
           /\ \A p \in Visits \ {q} : Apart(visit[p], next),
         next.at # "selected" => VisitHolds(next)
  PROVE  PageInv'
<1>1. /\ visit' \in [Visits -> VisitStates] /\ visit'[q] = next
      /\ \A p \in Visits \ {q} : visit'[p] = visit[p]
  BY DEF PageInv, PageTypes
<1>2. PageTypes' BY <1>1 DEF PageInv, PageTypes
<1>3. IdsAreOwn'
  <2>1. \A r \in Runs : publication[r] # Nil => publication[r].id \in Nat
    BY DEF PageInv, PageTypes, PublicRows
  <2>2. QED BY <2>1 DEF PageInv, PageTypes, IdsAreOwn
<1>4. ASSUME NEW p \in Visits PROVE VisitHolds(visit[p])'
  <2>1. CASE p = q
    <3>1. next.at # "selected" => VisitHolds(visit[p])'
      BY <1>1, <2>1 DEF VisitHolds, AnswerHolds, Page!Published
    <3>2. next.at = "selected" => VisitHolds(visit[p])'
      BY <1>1, <2>1 DEF VisitHolds, SelectionHolds
    <3>3. QED BY <3>1, <3>2
  <2>2. CASE p # q
    <3>1. visit'[p] = visit[p] /\ VisitHolds(visit[p]) BY <1>1, <2>2 DEF PageInv
    <3>2. visit[p].at = "selected" => visit[p].id \in Nat
      BY VisitForms DEF PageInv, Selections
    <3>3. QED
      BY <3>1, <3>2
         DEF PageInv, PageTypes, VisitHolds, SelectionHolds, AnswerHolds, Page!Published
  <2>3. QED BY <2>1, <2>2
<1>5. \A o, p \in Visits : o # p => Apart(visit[o], visit[p])'
  BY <1>1 DEF PageInv, Apart
<1>6. QED BY <1>2, <1>3, <1>4, <1>5 DEF PageInv

\* The same for a visit that does not begin to publish.
LEMMA VisitGoesOn ==
  ASSUME PageInv, NEW q \in Visits, NEW next \in VisitStates,
         visit' = [visit EXCEPT ![q] = next], next.at # "selected", VisitHolds(next),
         UNCHANGED <<visibility, repository, publication, ids, published, withdrawn>>
  PROVE  PageInv'
<1>1. ids' \in Nat /\ ids <= ids' /\ published' \in Nat BY DEF PageInv, PageTypes
<1>2. UNCHANGED <<visibility, repository, publication, withdrawn>> OBVIOUS
<1>3. QED BY <1>1, <1>2, VisitGoes

LEMMA PublishSelectHolds ==
  ASSUME PageInv, NEW q \in Visits, NEW r \in Runs, NEW confirmed \in BOOLEAN,
         NEW t \in {published, published + 1}, Page!PublishSelect(q, r, confirmed, t)
  PROVE  PageInv'
<1> DEFINE known == IF publication[r] # Nil THEN publication[r].id ELSE ids + 1
           next == [at |-> "selected", run |-> r, shows |-> visibility, time |-> t,
                    id |-> known, repository |-> ids + 2]
<1>1. /\ visit' = [visit EXCEPT ![q] = next]
      /\ ids' = ids + 2 /\ published' = t /\ ~ Page!Locked(r)
      /\ UNCHANGED <<visibility, repository, publication, withdrawn>>
  BY DEF Page!PublishSelect
<1>2. /\ ids \in Nat /\ t \in Nat /\ visibility \in Visibilities
      /\ \A s \in Runs : publication[s] # Nil =>
           publication[s].id \in Nat /\ publication[s].id <= ids
  BY DEF PageInv, PageTypes, IdsAreOwn, PublicRows
<1>3. /\ known \in Nat /\ known <= ids + 2
      /\ publication[r] # Nil => publication[r].id = known
      /\ publication[r] = Nil => known = ids + 1
  BY <1>2
<1> HIDE DEF known
<1>4. publication[r] = Nil => \A s \in Runs : publication[s] # Nil => publication[s].id # known
  BY <1>2, <1>3
<1>5. /\ next \in Selections /\ next.at = "selected" /\ next.run = r /\ next.id = known
  BY <1>2, <1>3 DEF Selections
<1>6. next \in VisitStates BY <1>5 DEF VisitStates
<1> HIDE DEF next
<1>7. ASSUME NEW p \in Visits \ {q} PROVE Apart(visit[p], next)
  <2> SUFFICES ASSUME visit[p].at = "selected"
               PROVE  visit[p].run # r /\ visit[p].id # known
    BY <1>5 DEF Apart
  <2>1. visit[p].run # r BY <1>1 DEF Page!Locked
  <2>2. SelectionHolds(visit[p]) /\ visit[p].run \in Runs /\ visit[p].id \in Nat
    BY VisitForms DEF PageInv, VisitHolds, Selections
  <2>3. CASE publication[r] = Nil BY <1>2, <1>3, <2>1, <2>2, <2>3 DEF SelectionHolds
  <2>4. CASE publication[r] # Nil
    BY <1>3, <2>1, <2>2, <2>4 DEF SelectionHolds, PageInv, IdsAreOwn
  <2>5. QED BY <2>1, <2>3, <2>4
<1>8. ids' \in Nat /\ ids <= ids' /\ published' \in Nat BY <1>1, <1>2
<1>9. /\ next.id <= ids'
      /\ publication[next.run] # Nil => publication[next.run].id = next.id
      /\ publication[next.run] = Nil =>
           \A s \in Runs : publication[s] # Nil => publication[s].id # next.id
      /\ \A p \in Visits \ {q} : Apart(visit[p], next)
  BY <1>1, <1>3, <1>4, <1>5, <1>7
<1>10. next.at = "selected" BY <1>5
<1>11. QED BY <1>1, <1>6, <1>8, <1>9, <1>10, VisitGoes

LEMMA PublishCommitHolds ==
  ASSUME Page!PublishingAssumption, PageInv, NEW q \in Visits, Page!PublishCommit(q)
  PROVE  PageInv'
<1> DEFINE w == visit[q]
           r == w.run
           identity == IF repository = Nil THEN w.repository ELSE repository
           row == [id |-> IF publication[r] = Nil THEN w.id ELSE publication[r].id,
                   state |-> "PUBLISHED", shows |-> w.shows, time |-> w.time]
           next == [at |-> "published", run |-> r, id |-> w.id, repository |-> identity]
<1>1. /\ w.at = "selected" /\ repository' = identity
      /\ publication' = [publication EXCEPT ![r] = row]
      /\ visit' = [visit EXCEPT ![q] = next]
      /\ UNCHANGED <<visibility, ids, published, withdrawn>>
  BY DEF Page!PublishCommit
<1>2. w \in Selections /\ SelectionHolds(w)
  BY <1>1, VisitForms DEF PageInv, VisitHolds
<1>3. identity \in Nat BY <1>2 DEF PageInv, PageTypes, Selections
<1>4. /\ row.id = w.id /\ row.state = "PUBLISHED" /\ r \in Runs /\ w.id \in Nat
      /\ w.id <= ids
  BY <1>2 DEF SelectionHolds, Selections
<1>5. row \in PublicRows BY <1>2, <1>4 DEF PublicRows, Selections
<1>6. row # Nil BY <1>5 DEF PublicRows, Visibilities, Page!PublishingAssumption
<1> HIDE DEF row
<1>7. /\ next \in VisitStates /\ next.at = "published" /\ next.run = r /\ next.id = w.id
      /\ next.repository = identity
  BY <1>3, <1>4 DEF VisitStates, Answers
<1> HIDE DEF next
<1>8. repository # Nil => identity = repository OBVIOUS
<1> HIDE DEF identity
<1>9. /\ publication' \in [Runs -> PublicRows \cup {Nil}] /\ publication'[r] = row
      /\ \A s \in Runs \ {r} : publication'[s] = publication[s]
  BY <1>1, <1>4, <1>5 DEF PageInv, PageTypes
<1>10. /\ visit' \in [Visits -> VisitStates] /\ visit'[q] = next
       /\ \A p \in Visits \ {q} : visit'[p] = visit[p]
  BY <1>1, <1>7 DEF PageInv, PageTypes
<1>11. PageTypes' BY <1>1, <1>3, <1>9, <1>10 DEF PageInv, PageTypes
<1>12. /\ publication[r] # Nil => publication[r].id = w.id
       /\ \A s \in Runs \ {r} : publication[s] # Nil => publication[s].id # w.id
  BY <1>2, <1>4 DEF SelectionHolds, PageInv, IdsAreOwn
<1>13. IdsAreOwn'
  <2> SUFFICES ASSUME NEW s \in Runs, publication'[s] # Nil
               PROVE  /\ publication'[s].id <= ids
                      /\ \A o \in Runs : publication'[o] # Nil
                           /\ publication'[o].id = publication'[s].id => o = s
    BY <1>1 DEF IdsAreOwn
  <2>1. CASE s = r BY <1>4, <1>9, <1>12, <2>1
  <2>2. CASE s # r BY <1>4, <1>9, <1>12, <2>2 DEF PageInv, IdsAreOwn
  <2>3. QED BY <2>1, <2>2
<1>14. VisitHolds(visit[q])'
  BY <1>1, <1>4, <1>6, <1>7, <1>9, <1>10 DEF VisitHolds, AnswerHolds
<1>15. ASSUME NEW p \in Visits \ {q} PROVE VisitHolds(visit[p])'
  <2>1. visit'[p] = visit[p] /\ VisitHolds(visit[p]) /\ Apart(visit[p], w)
    BY <1>10 DEF PageInv
  <2>2. ASSUME visit[p].at = "selected" PROVE SelectionHolds(visit[p])'
    <3>1. /\ visit[p].run \in Runs \ {r} /\ visit[p].id # w.id
          /\ SelectionHolds(visit[p])
      BY <1>1, <2>1, <2>2, VisitForms DEF Apart, VisitHolds, Selections, PageInv
    <3>2. QED BY <1>1, <1>4, <1>9, <2>1, <3>1 DEF SelectionHolds
  <2>3. ASSUME visit[p].at = "published" PROVE AnswerHolds(visit[p])'
    <3>1. visit[p] \in Answers /\ AnswerHolds(visit[p])
      BY <2>1, <2>3, VisitForms DEF PageInv, VisitHolds
    <3>2. repository # Nil
      BY <3>1 DEF AnswerHolds, Answers, Page!PublishingAssumption
    <3>3. visit[p].run \in Runs BY <3>1 DEF Answers
    <3>4. QED
      BY <1>1, <1>4, <1>6, <1>8, <1>9, <1>12, <2>1, <3>1, <3>2, <3>3 DEF AnswerHolds
  <2>4. ASSUME visit[p].at = "latest", visit[p].since = withdrawn
        PROVE  Page!Published(visit[p].run)'
    <3>1. visit[p].run \in Runs /\ Page!Published(visit[p].run)
      BY <2>1, <2>4, VisitForms DEF PageInv, Findings, VisitHolds
    <3>2. QED BY <1>4, <1>6, <1>9, <2>1, <3>1 DEF Page!Published
  <2>5. QED BY <1>1, <2>1, <2>2, <2>3, <2>4 DEF VisitHolds
<1>16. \A o, p \in Visits : o # p => Apart(visit[o], visit[p])'
  BY <1>7, <1>10 DEF PageInv, Apart
<1>17. QED BY <1>11, <1>13, <1>14, <1>15, <1>16 DEF PageInv

LEMMA UnpublishHolds ==
  ASSUME Page!PublishingAssumption, PageInv, NEW r \in Runs, Page!Unpublish(r)
  PROVE  PageInv'
<1> DEFINE row == [publication[r] EXCEPT !.state = "UNPUBLISHED"]
<1>1. /\ publication[r] # Nil /\ publication' = [publication EXCEPT ![r] = row]
      /\ withdrawn' = withdrawn + 1
      /\ UNCHANGED <<visibility, repository, visit, ids, published>>
  BY DEF Page!Unpublish, Page!Published
<1>2. publication[r] \in PublicRows BY <1>1 DEF PageInv, PageTypes
<1>3. row \in PublicRows /\ row.id = publication[r].id BY <1>2 DEF PublicRows
<1>4. row # Nil BY <1>3 DEF PublicRows, Visibilities, Page!PublishingAssumption
<1> HIDE DEF row
<1>5. /\ publication' \in [Runs -> PublicRows \cup {Nil}] /\ publication'[r] = row
      /\ \A s \in Runs \ {r} : publication'[s] = publication[s]
  BY <1>1, <1>3 DEF PageInv, PageTypes
<1>6. \A s \in Runs : /\ publication'[s] # Nil <=> publication[s] # Nil
                      /\ publication[s] # Nil => publication'[s].id = publication[s].id
  BY <1>1, <1>3, <1>4, <1>5
<1>7. PageTypes' BY <1>1, <1>5 DEF PageInv, PageTypes
<1>8. IdsAreOwn' BY <1>1, <1>6 DEF PageInv, IdsAreOwn
<1>9. ASSUME NEW p \in Visits PROVE VisitHolds(visit[p])'
  <2>1. VisitHolds(visit[p]) /\ withdrawn \in Nat BY DEF PageInv, PageTypes
  <2>2. visit[p].at \in {"selected", "published"} => visit[p].run \in Runs
    BY VisitForms DEF PageInv, Selections, Answers
  <2>3. visit[p].at \in {"latest", "notFound"} => visit[p].since \in Nat
    BY VisitForms DEF PageInv, Findings
  <2>4. visit[p].at = "selected" => SelectionHolds(visit[p])'
    BY <1>1, <1>6, <2>1, <2>2 DEF VisitHolds, SelectionHolds
  <2>5. visit[p].at = "published" => AnswerHolds(visit[p])'
    BY <1>1, <1>6, <2>1, <2>2 DEF VisitHolds, AnswerHolds
  <2>6. QED BY <1>1, <2>1, <2>3, <2>4, <2>5 DEF VisitHolds
<1>10. \A o, p \in Visits : o # p => Apart(visit[o], visit[p])'
  BY <1>1 DEF PageInv, Apart
<1>11. QED BY <1>7, <1>8, <1>9, <1>10 DEF PageInv

LEMMA ReadLatestPageHolds ==
  ASSUME PageInv, NEW q \in Visits, Page!ReadLatest(q)
  PROVE  PageInv'
<1> DEFINE first == CHOOSE r \in Page!Latest : TRUE
           next == IF Page!Latest = {} THEN [at |-> "empty"]
                   ELSE [at |-> "latest", run |-> first, since |-> withdrawn]
<1>1. /\ visit' = [visit EXCEPT ![q] = next]
      /\ UNCHANGED <<visibility, repository, publication, ids, published, withdrawn>>
  BY DEF Page!ReadLatest
<1>2. ids \in Nat /\ published \in Nat /\ withdrawn \in Nat BY DEF PageInv, PageTypes
<1>3. next \in VisitStates /\ next.at # "selected" /\ VisitHolds(next)
  <2>1. CASE Page!Latest = {} BY <2>1 DEF VisitStates, VisitHolds
  <2>2. CASE Page!Latest # {}
    <3>1. first \in Runs /\ Page!Published(first) BY <2>2 DEF Page!Latest
    <3> HIDE DEF first
    <3>2. next = [at |-> "latest", run |-> first, since |-> withdrawn] BY <2>2
    <3>3. next \in Findings /\ next.at = "latest" BY <1>2, <3>1, <3>2 DEF Findings
    <3>4. QED BY <1>2, <3>1, <3>2, <3>3 DEF VisitStates, VisitHolds
  <2>3. QED BY <2>1, <2>2
<1> HIDE DEF next
<1>4. QED BY <1>1, <1>3, VisitGoesOn

LEMMA GetPublicHolds ==
  ASSUME PageInv, NEW q \in Visits, Page!GetPublic(q)
  PROVE  PageInv'
<1> DEFINE to == IF Page!Published(visit[q].run) THEN "found" ELSE "notFound"
           next == [visit[q] EXCEPT !.at = to]
<1>1. /\ visit[q].at = "latest" /\ visit' = [visit EXCEPT ![q] = next]
      /\ UNCHANGED <<visibility, repository, publication, ids, published, withdrawn>>
  BY DEF Page!GetPublic
<1>2. /\ ids \in Nat /\ published \in Nat /\ withdrawn \in Nat
      /\ visit[q] \in Findings /\ VisitHolds(visit[q])
  BY <1>1, VisitForms DEF PageInv, PageTypes
<1>3. /\ to \in {"found", "notFound"}
      /\ to = "notFound" => visit[q].since < withdrawn
  BY <1>1, <1>2 DEF VisitHolds, Findings
<1> HIDE DEF to
<1>4. next \in Findings /\ next.at = to /\ next.since = visit[q].since
  BY <1>2, <1>3 DEF Findings
<1> HIDE DEF next
<1>5. next \in VisitStates /\ next.at # "selected" /\ VisitHolds(next)
  BY <1>3, <1>4 DEF VisitStates, VisitHolds
<1>6. QED BY <1>1, <1>5, VisitGoesOn

LEMMA PageStep ==
  ASSUME Page!PublishingAssumption, PageInv, [Page!Next]_Page!vars
  PROVE  PageInv'
<1>1. ids \in Nat /\ published \in Nat BY DEF PageInv, PageTypes
<1>2. ASSUME UNCHANGED <<repository, publication, visit, ids, published, withdrawn>>,
             visibility' \in Visibilities
      PROVE  PageInv'
  BY <1>2 DEF PageInv, PageTypes, IdsAreOwn, VisitHolds, SelectionHolds, AnswerHolds,
              Apart, Page!Published
<1>3. CASE UNCHANGED Page!vars BY <1>2, <1>3 DEF Page!vars, PageInv, PageTypes
<1>4. CASE \E r \in Runs : Page!Complete(r)
  BY <1>2, <1>4 DEF Page!Complete, PageInv, PageTypes
<1>5. CASE \E r \in Runs : Page!Unpublish(r) BY <1>5, UnpublishHolds
<1>6. CASE \E v \in {"PUBLIC", "PRIVATE"} : Page!Synchronize(v)
  BY <1>2, <1>6 DEF Page!Synchronize, Visibilities
<1>7. CASE \E q \in Visits, r \in Runs, c \in BOOLEAN, t \in {published, published + 1} :
             Page!PublishSelect(q, r, c, t)
  BY <1>7, PublishSelectHolds
<1>8. CASE \E q \in Visits : Page!PublishCommit(q) BY <1>8, PublishCommitHolds
<1>9. CASE \E q \in Visits : Page!PublishAbort(q)
  <2>1. PICK q \in Visits : Page!PublishAbort(q) BY <1>9
  <2> DEFINE next == [at |-> "idle"]
  <2>2. visit' = [visit EXCEPT ![q] = next] BY <2>1 DEF Page!PublishAbort
  <2>3. next \in VisitStates /\ next.at = "idle" /\ VisitHolds(next)
    BY DEF VisitStates, VisitHolds
  <2> HIDE DEF next
  <2>4. QED BY <2>1, <2>2, <2>3, VisitGoesOn DEF Page!PublishAbort
<1>10. CASE \E q \in Visits : Page!ReadLatest(q) BY <1>10, ReadLatestPageHolds
<1>11. CASE \E q \in Visits : Page!GetPublic(q) BY <1>11, GetPublicHolds
<1>12. QED
  BY <1>3, <1>4, <1>5, <1>6, <1>7, <1>8, <1>9, <1>10, <1>11 DEF Page!Next

\* A leaderboard ranks runs only if all that are eligible share their tasks.
LEMMA RankedShareTasks ==
  ASSUME Page!PublishingAssumption
  PROVE  Page!RankedAreComparable
<1> SUFFICES ASSUME NEW limit \in 1 .. Page!Cardinality(Runs)
             PROVE  LET board == Page!Leaderboard(limit)
                        ranked == {r \in DOMAIN board : board[r] = "ELIGIBLE"}
                    IN \A r, s \in ranked :
                         TaskSetOf[r] = TaskSetOf[s] /\ publication[r].shows = "PUBLIC"
  BY DEF Page!RankedAreComparable
<1> DEFINE all == {r \in Runs : Page!Published(r)}
           page == {r \in all : Page!Cardinality({s \in all : Page!Precedes(s, r)}) < limit}
           eligible == {r \in page : Page!Eligibility(r) = "ELIGIBLE"}
           sets == {TaskSetOf[r] : r \in eligible}
           comparable == Page!Cardinality(sets) <= 1
           board == [r \in page |-> IF r \in eligible /\ ~ comparable
                                    THEN "INCOMPARABLE_TASK_SET" ELSE Page!Eligibility(r)]
<1>1. Page!Leaderboard(limit) = board BY DEF Page!Leaderboard
<1>2. \A T : Page!Cardinality(T) = Cardinality(T) BY DEF Page!Cardinality, Cardinality
<1>3. IsFiniteSet(Runs)
  <2>1. Page!IsFiniteSet(Runs) BY DEF Page!PublishingAssumption
  <2>2. QED BY <2>1 DEF Page!IsFiniteSet, IsFiniteSet
<1>4. IsFiniteSet(eligible) BY <1>3, FS_Subset
<1> HIDE DEF eligible
<1>5. IsFiniteSet(sets)
  <2> DEFINE f == [r \in eligible |-> TaskSetOf[r]]
  <2>1. f \in Surjection(eligible, sets) BY DEF Surjection
  <2> HIDE DEF f, sets
  <2>2. QED BY <1>4, <2>1, FS_Surjection
<1>6. \A r \in DOMAIN board : board[r] = "ELIGIBLE" =>
        r \in eligible /\ comparable /\ publication[r].shows = "PUBLIC"
  BY DEF eligible, Page!Eligibility
<1>7. ASSUME comparable, NEW x \in sets, NEW y \in sets PROVE x = y
  <2> HIDE DEF sets
  <2>1. Cardinality(sets) \in Nat /\ Cardinality(sets) <= 1
    BY <1>2, <1>5, <1>7, FS_CardinalityType
  <2>2. {x, y} \subseteq sets OBVIOUS
  <2>3. Cardinality({x, y}) <= 1
    BY <1>5, <2>1, <2>2, FS_Subset, FS_CardinalityType
  <2>4. x # y => Cardinality({x, y}) = 2
    <3>1. IsFiniteSet({x}) /\ Cardinality({x}) = 1 BY FS_Singleton
    <3>2. x # y => Cardinality({x} \cup {y}) = 1 + 1 BY <3>1, FS_AddElement
    <3>3. {x} \cup {y} = {x, y} OBVIOUS
    <3>4. QED BY <3>2, <3>3
  <2>5. QED BY <2>3, <2>4
<1>8. \A r, s \in {x \in DOMAIN board : board[x] = "ELIGIBLE"} :
        TaskSetOf[r] = TaskSetOf[s] /\ publication[r].shows = "PUBLIC"
  <2> HIDE DEF comparable, board
  <2>1. \A r \in eligible : TaskSetOf[r] \in sets OBVIOUS
  <2> HIDE DEF sets
  <2>2. QED BY <1>6, <1>7, <2>1
<1>9. QED BY <1>1, <1>8

\* However many publications, withdrawals and visits overlap: whoever was
\* answered with an address finds the publication there, a repository is not
\* found only if something was withdrawn meanwhile, and a leaderboard compares
\* runs of the same tasks (PublishingService.publish, unpublish,
\* latestRepository and leaderboard).
THEOREM AnswersAlwaysServe ==
  ASSUME Page!PublishingAssumption
  PROVE  Page!Spec => []AnswersServe
<1>1. PageInv /\ [Page!Next]_Page!vars => PageInv' BY PageStep
<1>2. PageInv => AnswersServe
  <2> SUFFICES ASSUME PageInv PROVE AnswersServe OBVIOUS
  <2>1. Page!AnswersAgree
    BY DEF PageInv, IdsAreOwn, VisitHolds, AnswerHolds, Page!AnswersAgree
  <2>2. Page!NotFoundIsJustified BY DEF PageInv, VisitHolds, Page!NotFoundIsJustified
  <2>3. QED BY <2>1, <2>2, RankedShareTasks DEF AnswersServe, Page!AnswersServe
<1>3. QED BY <1>1, <1>2, PageInit, PTL DEF Page!Spec


-----------------------------------------------------------------------------
(***************************************************************************)
(* RunPages.  Runs are in the total order of created_at and id, of which a *)
(* page is an initial part; but a cursor cuts the time of the last one, so *)
(* that what is left out is older than that one and of its millisecond.    *)
(***************************************************************************)
Cursors == [time : Nat, id : Ids]
Walks ==
  [at : {"walking", "done"}, cursor : Cursors \cup {Nil}, there : SUBSET Ids,
   shown : SUBSET Ids, ends : SUBSET Ids, again : BOOLEAN]

WalkTypes ==
  /\ created \in [Ids -> Nat \cup {Nil}]
  /\ walk \in [Clients -> {[at |-> "idle"]} \cup Walks]

ToCome(i, cursor) == cursor # Nil => Walk!Older(i, cursor.time, cursor.id)

\* i may be left out, as a page has ended with e.
Excused(i, e) ==
  Walk!Milli(created[i]) = Walk!Milli(created[e]) /\ Walk!Older(i, created[e], e)

WalkHolds(w) ==
  w.at # "idle" =>
    /\ ~ w.again
    /\ w.there \cup w.shown \cup w.ends \subseteq Walk!Listed
    /\ w.at = "walking" => \A i \in w.shown : ~ ToCome(i, w.cursor)
    /\ \A i \in w.there \ w.shown : \/ w.at = "walking" /\ ToCome(i, w.cursor)
                                    \/ \E e \in w.ends : Excused(i, e)

WalkInv == WalkTypes /\ \A c \in Clients : WalkHolds(walk[c])

LEMMA WalkInit == Walk!Init => WalkInv
BY DEF Walk!Init, WalkInv, WalkTypes, WalkHolds

LEMMA ListedTimes ==
  ASSUME Walk!RunPagesAssumption, WalkTypes
  PROVE  \A i \in Walk!Listed : i \in Ids /\ i \in Nat /\ created[i] \in Nat
BY DEF Walk!RunPagesAssumption, WalkTypes, Walk!Listed

LEMMA MilliBelow ==
  ASSUME Walk!RunPagesAssumption, NEW t \in Nat
  PROVE  /\ Walk!Milli(t) \in Nat /\ Walk!Milli(t) <= t
         /\ \A a \in Nat : Walk!Milli(t) <= a /\ a <= t => Walk!Milli(a) = Walk!Milli(t)
<1> DEFINE m == t \div PerMilli
<1>1. PerMilli \in Nat /\ PerMilli > 0 BY DEF Walk!RunPagesAssumption
<1>2. m \in Nat /\ PerMilli * m <= t /\ t < PerMilli * (m + 1) BY <1>1
<1>3. ASSUME NEW a \in Nat, PerMilli * m <= a, a <= t PROVE a \div PerMilli = m
  <2>1. a < PerMilli * (m + 1) BY <1>1, <1>2, <1>3
  <2>2. QED BY <1>1, <1>2, <1>3, <2>1
<1> HIDE DEF m
<1>4. PerMilli * m \in Nat BY <1>1, <1>2
<1>5. Walk!Milli(t) = PerMilli * m BY DEF Walk!Milli, m
<1>6. QED BY <1>2, <1>3, <1>4, <1>5 DEF Walk!Milli

\* The runs of R that i is older than.
NewerIn(R, i) == {j \in R : Walk!Older(i, created[j], j)}
Rank(R, i) == Cardinality(NewerIn(R, i))

LEMMA RanksOrder ==
  ASSUME Walk!RunPagesAssumption, WalkTypes, NEW R \in SUBSET Walk!Listed, IsFiniteSet(R)
  PROVE  /\ \A i \in R : Rank(R, i) \in Nat
         /\ \A i, j \in R : Walk!Older(i, created[j], j) => Rank(R, j) < Rank(R, i)
<1>1. \A i : IsFiniteSet(NewerIn(R, i)) BY FS_Subset DEF NewerIn
<1>2. \A i : Rank(R, i) \in Nat BY <1>1, FS_CardinalityType DEF Rank
<1>3. ASSUME NEW i \in R, NEW j \in R, Walk!Older(i, created[j], j)
      PROVE  Rank(R, j) < Rank(R, i)
  <2>1. \A k \in R : k \in Nat /\ created[k] \in Nat BY ListedTimes
  <2>2. NewerIn(R, j) \subseteq NewerIn(R, i)
    BY <1>3, <2>1 DEF NewerIn, Walk!Older
  <2>3. j \in NewerIn(R, i) \ NewerIn(R, j) BY <1>3, <2>1 DEF NewerIn, Walk!Older
  <2>4. Rank(R, j) <= Rank(R, i) /\ Rank(R, j) # Rank(R, i)
    BY <1>1, <2>2, <2>3, FS_Subset DEF Rank
  <2>5. QED BY <1>2, <2>4
<1>4. QED BY <1>2, <1>3

LEMMA LeastNatural ==
  ASSUME NEW T \in SUBSET Nat, T # {}
  PROVE  \E n \in T : \A m \in T : n <= m
<1>1. PICK n \in T : \A m \in T : <<m, n>> \notin OpToRel(<, Nat)
  BY NatLessThanWellFounded, WFMin
<1>2. \A m \in T : ~ m < n BY <1>1 DEF OpToRel
<1>3. QED BY <1>2

\* A page is an initial part of the rows, which has a last one.
LEMMA FirstRows ==
  ASSUME Walk!RunPagesAssumption, WalkTypes, NEW R \in SUBSET Walk!Listed, IsFiniteSet(R),
         NEW items, items = Walk!FirstOf(R)
  PROVE  /\ items \subseteq R
         /\ R # {} => \E e \in items : \A j \in items : ~ Walk!Older(j, created[e], e)
         /\ \A i \in R \ items, e \in items : Walk!Older(i, created[e], e)
<1>1. \A T : Walk!Cardinality(T) = Cardinality(T) BY DEF Walk!Cardinality, Cardinality
<1>2. items = {i \in R : Rank(R, i) < PageSize}
  BY <1>1 DEF Walk!FirstOf, Rank, NewerIn
<1>3. /\ \A i \in R : Rank(R, i) \in Nat
      /\ \A i, j \in R : Walk!Older(i, created[j], j) => Rank(R, j) < Rank(R, i)
  BY RanksOrder
<1>4. PageSize \in Nat /\ PageSize > 0 BY DEF Walk!RunPagesAssumption
<1>5. ASSUME R # {} PROVE items # {}
  <2> DEFINE T == {Rank(R, i) : i \in R}
  <2>1. PICK n \in T : \A m \in T : n <= m
    <3>1. T \in SUBSET Nat /\ T # {} BY <1>3, <1>5
    <3> HIDE DEF T
    <3>2. QED BY <3>1, LeastNatural
  <2>2. PICK i \in R : n = Rank(R, i) OBVIOUS
  <2>3. \A j \in R : Rank(R, i) <= Rank(R, j) BY <2>1, <2>2
  <2>4. NewerIn(R, i) = {}
    <3> SUFFICES ASSUME NEW j \in R, Walk!Older(i, created[j], j) PROVE FALSE
      BY DEF NewerIn
    <3>1. Rank(R, j) < Rank(R, i) /\ Rank(R, i) <= Rank(R, j) BY <1>3, <2>3
    <3>2. QED BY <1>3, <3>1
  <2>5. Rank(R, i) = 0 BY <2>4, FS_EmptySet DEF Rank
  <2>6. QED BY <1>2, <1>4, <2>5
<1>6. ASSUME R # {}
      PROVE  \E e \in items : \A j \in items : ~ Walk!Older(j, created[e], e)
  <2> DEFINE T == {PageSize - Rank(R, i) : i \in items}
  <2>1. PICK n \in T : \A m \in T : n <= m
    <3>1. \A i \in items : PageSize - Rank(R, i) \in Nat BY <1>2, <1>3, <1>4
    <3>2. T \in SUBSET Nat /\ T # {} BY <1>5, <1>6, <3>1
    <3> HIDE DEF T
    <3>3. QED BY <3>2, LeastNatural
  <2>2. PICK e \in items : n = PageSize - Rank(R, e) OBVIOUS
  <2>3. \A j \in items : PageSize - Rank(R, e) <= PageSize - Rank(R, j) BY <2>1, <2>2
  <2>4. \A j \in items : ~ Rank(R, e) < Rank(R, j) BY <1>2, <1>3, <1>4, <2>3
  <2>5. QED BY <1>2, <1>3, <2>4
<1>7. ASSUME NEW i \in R \ items, NEW e \in items PROVE Walk!Older(i, created[e], e)
  <2>1. ~ Rank(R, i) < Rank(R, e) /\ i # e
    BY <1>2, <1>3, <1>4
  <2>2. ~ Walk!Older(e, created[i], i) BY <1>2, <1>3, <2>1
  <2>3. /\ i \in Nat /\ e \in Nat /\ created[i] \in Nat /\ created[e] \in Nat
    BY <1>2, ListedTimes
  <2>4. QED BY <2>1, <2>2, <2>3 DEF Walk!Older
<1>8. QED BY <1>2, <1>6, <1>7

\* Runs that are created do not matter to a walk.
LEMMA WalkStays ==
  ASSUME WalkTypes, NEW w \in {[at |-> "idle"]} \cup Walks, WalkHolds(w),
         Walk!Listed \subseteq Walk!Listed', \A i \in Walk!Listed : created'[i] = created[i]
  PROVE  WalkHolds(w)'
BY DEF WalkHolds, ToCome, Excused, Walk!Older

LEMMA CreateRunsHolds ==
  ASSUME Walk!RunPagesAssumption, WalkInv, NEW new \in SUBSET Ids,
         NEW t \in 0 .. MaxTime, Walk!CreateRuns(new, t)
  PROVE  WalkInv'
<1>1. /\ new \cap Walk!Listed = {} /\ UNCHANGED walk
      /\ created' = [i \in Ids |-> IF i \in new THEN t ELSE created[i]]
  BY DEF Walk!CreateRuns
<1>2. WalkTypes' BY <1>1 DEF WalkInv, WalkTypes
<1>3. t # Nil BY DEF Walk!RunPagesAssumption
<1>4. /\ Walk!Listed \subseteq Walk!Listed'
      /\ \A i \in Walk!Listed : created'[i] = created[i]
  BY <1>1, <1>3 DEF Walk!Listed
<1>5. ASSUME NEW c \in Clients PROVE WalkHolds(walk[c])'
  <2>1. walk[c] \in {[at |-> "idle"]} \cup Walks /\ WalkHolds(walk[c])
    BY DEF WalkInv, WalkTypes
  <2> DEFINE w == walk[c]
  <2>2. w' = w BY <1>1
  <2>3. QED BY <1>4, <2>1, <2>2, WalkStays DEF WalkInv, WalkHolds, ToCome, Excused, Walk!Older
<1>6. QED BY <1>2, <1>5 DEF WalkInv

LEMMA WalkGoes ==
  ASSUME WalkInv, NEW c \in Clients, NEW next \in Walks, WalkHolds(next),
         walk' = [walk EXCEPT ![c] = next], UNCHANGED created
  PROVE  WalkInv'
<1>1. /\ walk' \in [Clients -> {[at |-> "idle"]} \cup Walks] /\ walk'[c] = next
      /\ \A d \in Clients \ {c} : walk'[d] = walk[d]
  BY DEF WalkInv, WalkTypes
<1>2. WalkTypes' BY <1>1 DEF WalkInv, WalkTypes
<1>3. WalkHolds(walk[c])'
  BY <1>1 DEF WalkHolds, Walk!Listed, ToCome, Excused, Walk!Older
<1>4. \A d \in Clients \ {c} : WalkHolds(walk[d])'
  BY <1>1 DEF WalkInv, WalkHolds, Walk!Listed, ToCome, Excused, Walk!Older
<1>5. QED BY <1>2, <1>3, <1>4 DEF WalkInv

LEMMA WalkBeginHolds ==
  ASSUME WalkInv, NEW c \in Clients, Walk!Begin(c)
  PROVE  WalkInv'
<1> DEFINE next == [at |-> "walking", cursor |-> Nil, there |-> Walk!Listed,
                    shown |-> {}, ends |-> {}, again |-> FALSE]
<1>1. walk' = [walk EXCEPT ![c] = next] /\ UNCHANGED created BY DEF Walk!Begin
<1>2. next \in Walks BY DEF Walks, Walk!Listed
<1>3. WalkHolds(next) BY DEF WalkHolds, ToCome
<1> HIDE DEF next
<1>4. QED BY <1>1, <1>2, <1>3, WalkGoes

\* What is older than the last row of a page comes after its cursor, or it is
\* of the same millisecond; what is not older does not come again.
LEMMA CursorCuts ==
  ASSUME Walk!RunPagesAssumption, WalkTypes, NEW i \in Walk!Listed, NEW e \in Walk!Listed,
         NEW cursor, cursor = [time |-> Walk!Milli(created[e]), id |-> e]
  PROVE  /\ Walk!Older(i, created[e], e) => ToCome(i, cursor) \/ Excused(i, e)
         /\ ~ Walk!Older(i, created[e], e) => ~ ToCome(i, cursor)
<1> DEFINE m == Walk!Milli(created[e])
<1>1. i \in Nat /\ e \in Nat /\ created[i] \in Nat /\ created[e] \in Nat BY ListedTimes
<1>2. /\ m \in Nat /\ m <= created[e]
      /\ m <= created[i] /\ created[i] <= created[e] => Walk!Milli(created[i]) = m
  BY <1>1, MilliBelow
<1>3. cursor # Nil
  <2>1. cursor \in [time : Nat, id : Ids] BY <1>2, ListedTimes
  <2>2. QED BY <2>1 DEF Walk!RunPagesAssumption
<1> HIDE DEF m
<1>4. ToCome(i, cursor) <=> created[i] < m \/ (created[i] = m /\ i < e)
  BY <1>3 DEF ToCome, Walk!Older, m
<1>5. QED BY <1>1, <1>2, <1>4 DEF Walk!Older, Excused, m

LEMMA NextPageHolds ==
  ASSUME Walk!RunPagesAssumption, WalkInv, NEW c \in Clients, Walk!NextPage(c)
  PROVE  WalkInv'
<1> DEFINE w == walk[c]
           rows == Walk!After(w.cursor)
           items == Walk!FirstOf(rows)
           last == CHOOSE i \in items : \A j \in items : ~ Walk!Older(j, created[i], i)
           more == items # rows
           goes == IF more THEN "walking" ELSE "done"
           cursor == IF more THEN [time |-> Walk!Milli(created[last]), id |-> last] ELSE Nil
           seen == w.shown \cup items
           stops == w.ends \cup (IF more THEN {last} ELSE {})
           twice == w.again \/ items \cap w.shown # {}
           next == [at |-> goes, cursor |-> cursor, there |-> w.there, shown |-> seen,
                    ends |-> stops, again |-> twice]
<1>1. w.at = "walking" /\ walk' = [walk EXCEPT ![c] = next] /\ UNCHANGED created
  BY DEF Walk!NextPage
<1>2. WalkTypes /\ w \in Walks /\ WalkHolds(w) BY <1>1 DEF WalkInv, WalkTypes
<1>3. /\ ~ w.again /\ w.there \cup w.shown \cup w.ends \subseteq Walk!Listed
      /\ \A i \in w.shown : ~ ToCome(i, w.cursor)
      /\ \A i \in w.there \ w.shown : ToCome(i, w.cursor) \/ \E e \in w.ends : Excused(i, e)
  BY <1>1, <1>2 DEF WalkHolds
<1>4. rows = {i \in Walk!Listed : ToCome(i, w.cursor)} BY DEF Walk!After, ToCome
<1>5. IsFiniteSet(rows)
  <2>1. Walk!IsFiniteSet(Ids) BY DEF Walk!RunPagesAssumption
  <2>2. IsFiniteSet(Ids) BY <2>1 DEF Walk!IsFiniteSet, IsFiniteSet
  <2>3. rows \subseteq Ids BY <1>4 DEF Walk!Listed
  <2> HIDE DEF rows
  <2>4. QED BY <2>2, <2>3, FS_Subset
<1>61. rows \in SUBSET Walk!Listed BY <1>4
<1>62. items = Walk!FirstOf(rows) OBVIOUS
<1> HIDE DEF rows, items
<1>6. /\ items \subseteq rows
      /\ rows # {} => \E e \in items : \A j \in items : ~ Walk!Older(j, created[e], e)
      /\ \A i \in rows \ items, e \in items : Walk!Older(i, created[e], e)
  BY <1>2, <1>5, <1>61, <1>62, FirstRows
<1>7. more => last \in items /\ \A j \in items : ~ Walk!Older(j, created[last], last)
  BY <1>6
<1> HIDE DEF last
<1>8. more => last \in Walk!Listed /\ ToCome(last, w.cursor) BY <1>4, <1>6, <1>7
<1>9. seen \cup stops \subseteq Walk!Listed BY <1>3, <1>4, <1>6, <1>8
<1>10. ~ twice BY <1>3, <1>4, <1>6
<1>11. ASSUME more, NEW i \in seen PROVE ~ ToCome(i, cursor)
  <2>1. i \in Walk!Listed BY <1>9
  <2>2. ~ Walk!Older(i, created[last], last)
    <3>1. CASE i \in items BY <1>7, <1>11, <3>1
    <3>2. CASE i \in w.shown
      <4>1. /\ w.cursor # Nil /\ ~ Walk!Older(i, w.cursor.time, w.cursor.id)
            /\ Walk!Older(last, w.cursor.time, w.cursor.id)
        BY <1>3, <1>8, <1>11, <3>2 DEF ToCome
      <4>2. w.cursor.time \in Nat /\ w.cursor.id \in Nat
        BY <1>2, <4>1 DEF Walks, Cursors, Walk!RunPagesAssumption
      <4>3. /\ i \in Nat /\ last \in Nat /\ created[i] \in Nat /\ created[last] \in Nat
        BY <1>2, <1>8, <1>11, <2>1, ListedTimes
      <4>4. QED BY <4>1, <4>2, <4>3 DEF Walk!Older
    <3>3. QED BY <3>1, <3>2
  <2>3. QED BY <1>2, <1>8, <1>11, <2>1, <2>2, CursorCuts
<1>12. ASSUME NEW i \in w.there \ seen
       PROVE  \/ more /\ ToCome(i, cursor)
              \/ \E e \in stops : Excused(i, e)
  <2>1. CASE \E e \in w.ends : Excused(i, e) BY <2>1
  <2>2. CASE ToCome(i, w.cursor)
    <3>1. i \in rows \ items /\ i \in Walk!Listed BY <1>3, <1>4, <2>2
    <3>2. more BY <3>1
    <3>3. Walk!Older(i, created[last], last) BY <1>6, <1>7, <3>1, <3>2
    <3>4. ToCome(i, cursor) \/ Excused(i, last)
      BY <1>2, <1>8, <3>1, <3>2, <3>3, CursorCuts
    <3>5. QED BY <3>2, <3>4
  <2>3. QED BY <1>3, <2>1, <2>2
<1>13. cursor \in Cursors \cup {Nil}
  <2>1. CASE ~ more BY <2>1
  <2>2. CASE more
    <3>1. last \in Ids /\ created[last] \in Nat BY <1>2, <1>8, <2>2, ListedTimes
    <3>2. Walk!Milli(created[last]) \in Nat BY <3>1, MilliBelow
    <3>3. QED BY <2>2, <3>1, <3>2 DEF Cursors
  <2>3. QED BY <2>1, <2>2
<1>14. goes \in {"walking", "done"} /\ (goes = "walking" <=> more) OBVIOUS
<1>15. seen \cup stops \cup w.there \subseteq Ids BY <1>3, <1>9 DEF Walk!Listed
<1>16. twice \in BOOLEAN OBVIOUS
<1> HIDE DEF cursor, goes, seen, stops, twice, more
<1>17. /\ next \in Walks /\ next.at = goes /\ next.cursor = cursor /\ next.there = w.there
       /\ next.shown = seen /\ next.ends = stops /\ next.again = twice
  BY <1>13, <1>14, <1>15, <1>16 DEF Walks
<1> HIDE DEF next
<1>18. WalkHolds(next)
  BY <1>3, <1>9, <1>10, <1>11, <1>12, <1>14, <1>17 DEF WalkHolds
<1>19. QED BY <1>1, <1>17, <1>18, WalkGoes

LEMMA WalkStep ==
  ASSUME Walk!RunPagesAssumption, WalkInv, [Walk!Next]_Walk!vars
  PROVE  WalkInv'
<1>1. CASE UNCHANGED <<created, walk>>
  BY <1>1 DEF WalkInv, WalkTypes, WalkHolds, Walk!Listed, ToCome, Excused, Walk!Older
<1>2. CASE UNCHANGED Walk!vars BY <1>1, <1>2 DEF Walk!vars
<1>3. CASE Walk!Tick BY <1>1, <1>3 DEF Walk!Tick
<1>4. CASE \E new \in SUBSET Ids, t \in 0 .. MaxTime : Walk!CreateRuns(new, t)
  BY <1>4, CreateRunsHolds
<1>5. CASE \E c \in Clients : Walk!Begin(c) BY <1>5, WalkBeginHolds
<1>6. CASE \E c \in Clients : Walk!NextPage(c) BY <1>6, NextPageHolds
<1>7. QED BY <1>2, <1>3, <1>4, <1>5, <1>6 DEF Walk!Next

\* Whatever is created during a walk, for any size of the pages: no run is
\* shown twice, and one that was there is left out only if it is of the
\* millisecond in which a page ended, and older than the last run of that page
\* (CloudService.listRuns and GET .../runs).
THEOREM OnlySameMillisecondsAreMissed ==
  ASSUME Walk!RunPagesAssumption
  PROVE  Walk!Spec => []OnlyTheSameMillisecondIsMissed
<1>1. WalkInv /\ [Walk!Next]_Walk!vars => WalkInv' BY WalkStep
<1>2. WalkInv => OnlyTheSameMillisecondIsMissed
  BY DEF WalkInv, WalkHolds, Excused, OnlyTheSameMillisecondIsMissed,
         Walk!OnlyTheSameMillisecondIsMissed
<1>3. QED BY <1>1, <1>2, WalkInit, PTL DEF Walk!Spec


-----------------------------------------------------------------------------
(***************************************************************************)
(* Catalogue.  A version is numbered by the versions of its task that were *)
(* committed before it, as the row of the task is locked from before the   *)
(* number is drawn until the version is inserted.  What a request owns it  *)
(* owns for ever, so what was checked when it began still holds.           *)
(***************************************************************************)
CatalogueTasks == Repositories \X TaskKeys
Writing == [at : {"owns", "locked"}, org : Tenants, task : CatalogueTasks, content : Contents]
Numbered ==
  [at : {"numbered"}, org : Tenants, task : CatalogueTasks, content : Contents, number : Nat]

CatalogueTypes ==
  /\ owner \in [Repositories -> {Nil} \cup [org : Tenants, state : {"ACTIVE", "ARCHIVED"}]]
  /\ task \in [CatalogueTasks -> {Nil} \cup Tenants]
  /\ version \in Seq([task : CatalogueTasks, number : Nat, content : Contents])
  /\ benchmark \in
       Seq([org : Tenants, repository : Repositories, tasks : SUBSET (DOMAIN version)])
  /\ report \in [Reports -> {Nil} \cup [org : Tenants, repository : Repositories]]
  /\ writer \in [Writers -> {[at |-> "idle"]} \cup Writing \cup Numbered]

Before(i) == {j \in Catalogue!VersionsOf(version[i].task) : j <= i}

NumbersHold ==
  /\ \A i \in DOMAIN version : version[i].number = Cardinality(Before(i))
  /\ \A w \in Writers : writer[w].at = "numbered" =>
       writer[w].number = Cardinality(Catalogue!VersionsOf(writer[w].task)) + 1
  /\ \A w, v \in Writers : \A t \in CatalogueTasks :
       Catalogue!LocksTask(w, t) /\ Catalogue!LocksTask(v, t) => w = v

OwnersHold ==
  /\ \A t \in CatalogueTasks : task[t] # Nil => Catalogue!Owns(task[t], t[1])
  /\ \A w \in Writers : writer[w].at # "idle" =>
       Catalogue!Owns(writer[w].org, writer[w].task[1])
  /\ \A k \in DOMAIN benchmark :
       /\ Catalogue!Owns(benchmark[k].org, benchmark[k].repository)
       /\ \A i \in benchmark[k].tasks : task[version[i].task] = benchmark[k].org
  /\ \A s \in Reports : report[s] # Nil =>
       Catalogue!Owns(report[s].org, report[s].repository)

CatalogueInv == CatalogueTypes /\ NumbersHold /\ OwnersHold

LEMMA CatalogueInit == Catalogue!Init => CatalogueInv
BY DEF Catalogue!Init, Catalogue!Tasks, CatalogueInv, CatalogueTypes, CatalogueTasks,
       NumbersHold, OwnersHold, Catalogue!LocksTask

LEMMA CatalogueRows ==
  ASSUME CatalogueTypes
  PROVE  /\ DOMAIN version = 1 .. Len(version) /\ Len(version) \in Nat
         /\ \A i \in DOMAIN version :
              version[i].task \in CatalogueTasks /\ version[i].number \in Nat
         /\ \A k \in DOMAIN benchmark :
              /\ benchmark[k].org \in Tenants /\ benchmark[k].repository \in Repositories
              /\ benchmark[k].tasks \subseteq DOMAIN version
         /\ \A t \in CatalogueTasks : t[1] \in Repositories
         /\ \A w \in Writers : writer[w].at # "idle" => writer[w].task \in CatalogueTasks
         /\ \A s \in Reports : report[s] # Nil => report[s].repository \in Repositories
<1> DEFINE Row == [task : CatalogueTasks, number : Nat, content : Contents]
           Named == [org : Tenants, repository : Repositories, tasks : SUBSET (DOMAIN version)]
<1>1. version \in Seq(Row) /\ benchmark \in Seq(Named) BY DEF CatalogueTypes
<1>2. /\ \A b \in Row : b.task \in CatalogueTasks /\ b.number \in Nat
      /\ \A b \in Named : /\ b.org \in Tenants /\ b.repository \in Repositories
                         /\ b.tasks \subseteq DOMAIN version
  OBVIOUS
<1> HIDE DEF Row, Named
<1>3. /\ DOMAIN version = 1 .. Len(version) /\ Len(version) \in Nat
      /\ \A i \in DOMAIN version : version[i] \in Row
      /\ \A k \in DOMAIN benchmark : benchmark[k] \in Named
  BY <1>1
<1>4. \A t \in CatalogueTasks : t[1] \in Repositories BY DEF CatalogueTasks
<1>5. \A w \in Writers : writer[w].at # "idle" => writer[w].task \in CatalogueTasks
  BY DEF CatalogueTypes, Writing, Numbered
<1>6. \A s \in Reports : report[s] # Nil => report[s].repository \in Repositories
  BY DEF CatalogueTypes
<1>7. QED BY <1>2, <1>3, <1>4, <1>5, <1>6

\* Numbers rise with the positions, and the last one is how many there are.
LEMMA NumbersRise ==
  ASSUME CatalogueTypes, NumbersHold, NEW t \in CatalogueTasks
  PROVE  LET of == Catalogue!VersionsOf(t)
         IN /\ IsFiniteSet(of) /\ Cardinality(of) \in Nat
            /\ \A i, j \in of : j < i => version[j].number < version[i].number
            /\ \A i \in of : version[i].number <= Cardinality(of)
            /\ of # {} => \E i \in of : version[i].number = Cardinality(of)
            /\ of = {} => Cardinality(of) = 0
<1> DEFINE of == Catalogue!VersionsOf(t)
<1>1. IsFiniteSet(of) /\ Cardinality(of) \in Nat
  <2>1. of \subseteq 1 .. Len(version) BY DEF Catalogue!VersionsOf, CatalogueTypes
  <2>2. Len(version) \in Nat BY DEF CatalogueTypes
  <2>3. IsFiniteSet(1 .. Len(version)) BY <2>2, FS_Interval
  <2> HIDE DEF of
  <2>4. QED BY <2>1, <2>3, FS_Subset, FS_CardinalityType
<1>2. \A i \in of : /\ i \in Nat /\ i <= Len(version) /\ version[i].number \in Nat
                    /\ version[i].number = Cardinality(Before(i))
                    /\ Before(i) = {j \in of : j <= i}
  BY CatalogueRows DEF NumbersHold, Before, Catalogue!VersionsOf
<1> HIDE DEF of
<1>3. \A i \in of : IsFiniteSet(Before(i)) BY <1>1, <1>2, FS_Subset
<1>4. ASSUME NEW i \in of, NEW j \in of, j < i PROVE version[j].number < version[i].number
  <2>1. Before(j) \subseteq Before(i) /\ i \in Before(i) \ Before(j) BY <1>2, <1>4
  <2>2. /\ Cardinality(Before(j)) <= Cardinality(Before(i))
        /\ Cardinality(Before(j)) # Cardinality(Before(i))
    BY <1>3, <2>1, FS_Subset
  <2>3. QED BY <1>2, <2>2
<1>5. ASSUME NEW i \in of PROVE version[i].number <= Cardinality(of)
  <2>1. Before(i) \subseteq of BY <1>2
  <2>2. Cardinality(Before(i)) <= Cardinality(of) BY <1>1, <2>1, FS_Subset
  <2>3. QED BY <1>2, <2>2
<1>6. ASSUME of # {} PROVE \E i \in of : version[i].number = Cardinality(of)
  <2> DEFINE T == {Len(version) - i : i \in of}
  <2>1. T \in SUBSET Nat /\ T # {}
    <3>1. Len(version) \in Nat BY DEF CatalogueTypes
    <3>2. \A i \in of : Len(version) - i \in Nat BY <1>2, <3>1
    <3>3. QED BY <1>6, <3>2
  <2>2. PICK n \in T : \A m \in T : n <= m
    <3> HIDE DEF T
    <3>1. QED BY <2>1, LeastNatural
  <2>3. PICK i \in of : n = Len(version) - i OBVIOUS
  <2>4. \A j \in of : Len(version) - i <= Len(version) - j BY <2>2, <2>3
  <2>5. \A j \in of : j <= i
    <3>1. Len(version) \in Nat BY DEF CatalogueTypes
    <3>2. QED BY <1>2, <2>4, <3>1
  <2>6. Before(i) = of BY <1>2, <2>5
  <2>7. QED BY <1>2, <2>6
<1>7. of = {} => Cardinality(of) = 0 BY FS_EmptySet
<1>8. QED BY <1>1, <1>4, <1>5, <1>6, <1>7 DEF of

\* An owner stays one, whatever happens to the repositories.
LEMMA CreateRepositoryHolds ==
  ASSUME Catalogue!CatalogueAssumption, CatalogueInv, NEW o \in Tenants,
         NEW r \in Repositories, Catalogue!CreateRepository(o, r)
  PROVE  CatalogueInv'
<1>1. /\ owner[r] = Nil /\ UNCHANGED <<task, version, benchmark, report, writer>>
      /\ owner' = [owner EXCEPT ![r] = [org |-> o, state |-> "ACTIVE"]]
  BY DEF Catalogue!CreateRepository
<1>2. CatalogueTypes' BY <1>1 DEF CatalogueInv, CatalogueTypes
<1>3. \A x, q : q \in Repositories /\ Catalogue!Owns(x, q) => Catalogue!Owns(x, q)'
  BY <1>1 DEF CatalogueInv, CatalogueTypes, Catalogue!Owns
<1>4. OwnersHold'
  BY <1>1, <1>3, CatalogueRows DEF CatalogueInv, OwnersHold
<1>5. NumbersHold'
  BY <1>1 DEF CatalogueInv, NumbersHold, Before, Catalogue!VersionsOf, Catalogue!LocksTask
<1>6. QED BY <1>2, <1>4, <1>5 DEF CatalogueInv

LEMMA ArchiveHolds ==
  ASSUME Catalogue!CatalogueAssumption, CatalogueInv, NEW r \in Repositories,
         Catalogue!Archive(r)
  PROVE  CatalogueInv'
<1>1. /\ owner[r] # Nil /\ UNCHANGED <<task, version, benchmark, report, writer>>
      /\ \E s \in {"ACTIVE", "ARCHIVED"} : owner' = [owner EXCEPT ![r].state = s]
  BY DEF Catalogue!Archive
<1>2. PICK s \in {"ACTIVE", "ARCHIVED"} : owner' = [owner EXCEPT ![r].state = s] BY <1>1
<1>3. owner[r] \in [org : Tenants, state : {"ACTIVE", "ARCHIVED"}]
  BY <1>1 DEF CatalogueInv, CatalogueTypes
<1>4. /\ owner'[r] = [org |-> owner[r].org, state |-> s]
      /\ \A q \in Repositories \ {r} : owner'[q] = owner[q]
      /\ owner' \in [Repositories -> {Nil} \cup [org : Tenants, state : {"ACTIVE", "ARCHIVED"}]]
  BY <1>2, <1>3 DEF CatalogueInv, CatalogueTypes
<1>5. CatalogueTypes' BY <1>1, <1>4 DEF CatalogueInv, CatalogueTypes
<1>6. owner'[r] # Nil BY <1>3, <1>4 DEF Catalogue!CatalogueAssumption
<1>7. \A x, q : q \in Repositories /\ Catalogue!Owns(x, q) => Catalogue!Owns(x, q)'
  BY <1>4, <1>6 DEF Catalogue!Owns
<1>8. OwnersHold'
  BY <1>1, <1>7, CatalogueRows DEF CatalogueInv, OwnersHold
<1>9. NumbersHold'
  BY <1>1 DEF CatalogueInv, NumbersHold, Before, Catalogue!VersionsOf, Catalogue!LocksTask
<1>10. QED BY <1>5, <1>8, <1>9 DEF CatalogueInv

\* The writer w goes on, and nothing else changes.
LEMMA WriterGoes ==
  ASSUME CatalogueInv, NEW w \in Writers,
         NEW next \in {[at |-> "idle"]} \cup Writing \cup Numbered,
         writer' = [writer EXCEPT ![w] = next],
         UNCHANGED <<owner, task, version, benchmark, report>>,
         next.at # "idle" => Catalogue!Owns(next.org, next.task[1]),
         next.at \in {"locked", "numbered"} =>
           \A v \in Writers \ {w} : ~ Catalogue!LocksTask(v, next.task),
         next.at = "numbered" =>
           next.number = Cardinality(Catalogue!VersionsOf(next.task)) + 1
  PROVE  CatalogueInv'
<1>1. /\ writer' \in [Writers -> {[at |-> "idle"]} \cup Writing \cup Numbered]
      /\ writer'[w] = next /\ \A v \in Writers \ {w} : writer'[v] = writer[v]
  BY DEF CatalogueInv, CatalogueTypes
<1>2. CatalogueTypes' BY <1>1 DEF CatalogueInv, CatalogueTypes
<1>3. OwnersHold' BY <1>1 DEF CatalogueInv, OwnersHold, Catalogue!Owns
<1>4. \A t : /\ Catalogue!VersionsOf(t)' = Catalogue!VersionsOf(t)
             /\ \A v \in Writers \ {w} : Catalogue!LocksTask(v, t)' = Catalogue!LocksTask(v, t)
  BY <1>1 DEF Catalogue!VersionsOf, Catalogue!LocksTask
<1>5. (\A i \in DOMAIN version : version[i].number = Cardinality(Before(i)))'
  BY <1>4 DEF CatalogueInv, NumbersHold, Before
<1>6. (\A v \in Writers : writer[v].at = "numbered" =>
         writer[v].number = Cardinality(Catalogue!VersionsOf(writer[v].task)) + 1)'
  BY <1>1, <1>4 DEF CatalogueInv, NumbersHold
<1>7. ASSUME NEW u \in Writers, NEW v \in Writers, NEW t \in CatalogueTasks,
             Catalogue!LocksTask(u, t)', Catalogue!LocksTask(v, t)'
      PROVE  u = v
  <2>1. \A x \in Writers \ {w} : Catalogue!LocksTask(w, t)' => ~ Catalogue!LocksTask(x, t)'
    BY <1>1, <1>4 DEF Catalogue!LocksTask
  <2>2. CASE u # w /\ v # w BY <1>4, <1>7, <2>2 DEF CatalogueInv, NumbersHold
  <2>3. QED BY <1>7, <2>1, <2>2
<1>8. NumbersHold' BY <1>5, <1>6, <1>7 DEF NumbersHold
<1>9. QED BY <1>2, <1>3, <1>8 DEF CatalogueInv

LEMMA CheckOwnershipHolds ==
  ASSUME CatalogueInv, NEW w \in Writers, NEW o \in Tenants, NEW t \in CatalogueTasks,
         NEW x \in Contents, Catalogue!CheckOwnership(w, o, t, x)
  PROVE  CatalogueInv'
<1> DEFINE next == [at |-> "owns", org |-> o, task |-> t, content |-> x]
<1>1. /\ writer' = [writer EXCEPT ![w] = next] /\ Catalogue!Owns(o, t[1])
      /\ UNCHANGED <<owner, task, version, benchmark, report>>
  BY DEF Catalogue!CheckOwnership
<1>2. next \in Writing BY DEF Writing
<1>3. /\ next.at # "idle" => Catalogue!Owns(next.org, next.task[1])
      /\ next.at = "owns"
  BY <1>1
<1> HIDE DEF next
<1>4. QED BY <1>1, <1>2, <1>3, WriterGoes

LEMMA UpsertTaskHolds ==
  ASSUME CatalogueInv, NEW w \in Writers, Catalogue!UpsertTask(w)
  PROVE  CatalogueInv'
<1> DEFINE q == writer[w]
           next == [q EXCEPT !.at = "locked"]
<1>1. /\ q.at = "owns" /\ writer' = [writer EXCEPT ![w].at = "locked"]
      /\ \A v \in Writers : ~ Catalogue!LocksTask(v, q.task)
      /\ UNCHANGED <<owner, task, version, benchmark, report>>
  BY DEF Catalogue!UpsertTask
<1>2. q \in Writing /\ Catalogue!Owns(q.org, q.task[1])
  BY <1>1 DEF CatalogueInv, CatalogueTypes, OwnersHold, Numbered
<1>3. next \in Writing /\ next.at = "locked" /\ next.org = q.org /\ next.task = q.task
  BY <1>2 DEF Writing
<1>4. writer' = [writer EXCEPT ![w] = next] BY <1>1
<1> HIDE DEF next, q
<1>5. /\ next.at # "idle" => Catalogue!Owns(next.org, next.task[1])
      /\ \A v \in Writers \ {w} : ~ Catalogue!LocksTask(v, next.task)
  BY <1>1, <1>2, <1>3
<1>6. QED BY <1>1, <1>3, <1>4, <1>5, WriterGoes

LEMMA NumberVersionHolds ==
  ASSUME CatalogueInv, NEW w \in Writers, Catalogue!NumberVersion(w)
  PROVE  CatalogueInv'
<1> DEFINE q == writer[w]
           of == Catalogue!VersionsOf(q.task)
           used == {version[i].number : i \in of} \cup {0}
           last == CHOOSE n \in used : \A m \in used : m <= n
           next == [at |-> "numbered", org |-> q.org, task |-> q.task,
                    content |-> q.content, number |-> last + 1]
<1>1. /\ q.at = "locked" /\ writer' = [writer EXCEPT ![w] = next]
      /\ UNCHANGED <<owner, task, version, benchmark, report>>
  BY DEF Catalogue!NumberVersion
<1>2. q \in Writing /\ Catalogue!Owns(q.org, q.task[1])
  BY <1>1 DEF CatalogueInv, CatalogueTypes, OwnersHold, Numbered
<1>3. q.task \in CatalogueTasks BY <1>2 DEF Writing
<1>4. \A v \in Writers \ {w} : ~ Catalogue!LocksTask(v, q.task)
  BY <1>1, <1>3 DEF CatalogueInv, NumbersHold, Catalogue!LocksTask
<1>5. last = Cardinality(of) /\ last \in Nat
  <2>1. /\ Cardinality(of) \in Nat
        /\ \A i \in of : version[i].number <= Cardinality(of)
        /\ of # {} => \E i \in of : version[i].number = Cardinality(of)
        /\ of = {} => Cardinality(of) = 0
    BY <1>3, NumbersRise DEF CatalogueInv
  <2>2. Cardinality(of) \in used /\ \A m \in used : m <= Cardinality(of) BY <2>1
  <2>3. \A m \in used : m \in Nat
    BY CatalogueRows DEF CatalogueInv, Catalogue!VersionsOf
  <2> HIDE DEF used, of
  <2>4. last \in used /\ \A m \in used : m <= last BY <2>2
  <2>5. QED BY <2>1, <2>2, <2>3, <2>4
<1> HIDE DEF last
<1>6. /\ next \in Numbered /\ next.at = "numbered" /\ next.org = q.org
      /\ next.task = q.task /\ next.number = last + 1
  BY <1>2, <1>5 DEF Writing, Numbered
<1> HIDE DEF next, q
<1>7. /\ next.at # "idle" => Catalogue!Owns(next.org, next.task[1])
      /\ \A v \in Writers \ {w} : ~ Catalogue!LocksTask(v, next.task)
      /\ next.number = Cardinality(Catalogue!VersionsOf(next.task)) + 1
  BY <1>2, <1>4, <1>5, <1>6
<1>8. QED BY <1>1, <1>6, <1>7, WriterGoes

LEMMA AbortVersionHolds ==
  ASSUME CatalogueInv, NEW w \in Writers, Catalogue!AbortVersion(w)
  PROVE  CatalogueInv'
<1> DEFINE next == [at |-> "idle"]
<1>1. /\ writer' = [writer EXCEPT ![w] = next]
      /\ UNCHANGED <<owner, task, version, benchmark, report>>
  BY DEF Catalogue!AbortVersion
<1>2. next.at = "idle" /\ next \in {[at |-> "idle"]} OBVIOUS
<1> HIDE DEF next
<1>3. QED BY <1>1, <1>2, WriterGoes

LEMMA InsertVersionHolds ==
  ASSUME Catalogue!CatalogueAssumption, CatalogueInv, NEW w \in Writers,
         Catalogue!InsertVersion(w)
  PROVE  CatalogueInv'
<1> DEFINE q == writer[w]
           taken == \E i \in Catalogue!VersionsOf(q.task) :
                      version[i].number = q.number \/ version[i].content = q.content
           row == [task |-> q.task, number |-> q.number, content |-> q.content]
<1> PICK n : n = Len(version) + 1 OBVIOUS
<1>1. /\ q.at = "numbered" /\ writer' = [writer EXCEPT ![w] = [at |-> "idle"]]
      /\ UNCHANGED <<owner, benchmark, report>>
      /\ IF taken THEN UNCHANGED <<task, version>>
         ELSE /\ task' = [task EXCEPT ![q.task] = IF @ = Nil THEN q.org ELSE @]
              /\ version' = Append(version, row)
  BY DEF Catalogue!InsertVersion
<1>2. CASE taken
  <2> DEFINE next == [at |-> "idle"]
  <2>1. writer' = [writer EXCEPT ![w] = next] /\ UNCHANGED <<owner, task, version, benchmark, report>>
    BY <1>1, <1>2
  <2>2. next.at = "idle" /\ next \in {[at |-> "idle"]} OBVIOUS
  <2> HIDE DEF next, taken, q, row
  <2>3. QED BY <2>1, <2>2, WriterGoes
<1>3. CASE ~ taken
  <2>1. /\ task' = [task EXCEPT ![q.task] = IF @ = Nil THEN q.org ELSE @]
        /\ version' = Append(version, row)
    BY <1>1, <1>3
  <2> HIDE DEF taken
  <2>2. q \in Numbered /\ Catalogue!Owns(q.org, q.task[1])
    <3>1. q \in Numbered BY <1>1 DEF CatalogueInv, CatalogueTypes, Writing
    <3>2. QED BY <1>1, <3>1 DEF CatalogueInv, OwnersHold
  <2>3. /\ q.org \in Tenants /\ q.task \in CatalogueTasks /\ q.number \in Nat
        /\ row \in [task : CatalogueTasks, number : Nat, content : Contents]
    BY <2>2 DEF Numbered
  <2> HIDE DEF row
  <2>4. row.task = q.task /\ row.number = q.number BY DEF row
  <2>5. /\ version \in Seq([task : CatalogueTasks, number : Nat, content : Contents])
        /\ Len(version) \in Nat /\ DOMAIN version = 1 .. Len(version)
    BY DEF CatalogueInv, CatalogueTypes
  <2>6. /\ version' \in Seq([task : CatalogueTasks, number : Nat, content : Contents])
        /\ DOMAIN version' = 1 .. n /\ version'[n] = row
        /\ \A i \in DOMAIN version : version'[i] = version[i]
    BY <2>1, <2>3, <2>5
  <2>7. /\ task' \in [CatalogueTasks -> {Nil} \cup Tenants]
        /\ \A t \in CatalogueTasks : task[t] # Nil => task'[t] = task[t]
        /\ \A t \in CatalogueTasks : task'[t] # task[t] => t = q.task /\ task'[t] = q.org
    BY <2>1, <2>3 DEF CatalogueInv, CatalogueTypes
  <2>8. /\ writer' \in [Writers -> {[at |-> "idle"]} \cup Writing \cup Numbered]
        /\ writer'[w] = [at |-> "idle"] /\ \A v \in Writers \ {w} : writer'[v] = writer[v]
    BY <1>1 DEF CatalogueInv, CatalogueTypes
  <2>9. DOMAIN version \subseteq DOMAIN version' BY <2>5, <2>6
  <2>10. CatalogueTypes'
    <3>1. benchmark' \in Seq([org : Tenants, repository : Repositories,
                              tasks : SUBSET (DOMAIN version')])
      <4> DEFINE Old == [org : Tenants, repository : Repositories, tasks : SUBSET (DOMAIN version)]
                 New == [org : Tenants, repository : Repositories, tasks : SUBSET (DOMAIN version')]
      <4>1. \A b \in Old : b \in New BY <2>9
      <4>2. benchmark \in Seq(Old) BY DEF CatalogueInv, CatalogueTypes
      <4> HIDE DEF Old, New
      <4>3. benchmark \in Seq(New) BY <4>1, <4>2
      <4>4. QED BY <1>1, <4>3 DEF New
    <3>2. QED BY <1>1, <2>6, <2>7, <2>8, <3>1 DEF CatalogueInv, CatalogueTypes
  <2>11. OwnersHold'
    <3>1. \A x, r : Catalogue!Owns(x, r)' = Catalogue!Owns(x, r) BY <1>1 DEF Catalogue!Owns
    <3>2. (\A t \in CatalogueTasks : task[t] # Nil => Catalogue!Owns(task[t], t[1]))'
      BY <2>2, <2>7, <3>1 DEF CatalogueInv, OwnersHold
    <3>3. (\A v \in Writers : writer[v].at # "idle" =>
             Catalogue!Owns(writer[v].org, writer[v].task[1]))'
      BY <2>8, <3>1 DEF CatalogueInv, OwnersHold
    <3>4. ASSUME NEW k \in DOMAIN benchmark'
          PROVE  (/\ Catalogue!Owns(benchmark[k].org, benchmark[k].repository)
                  /\ \A i \in benchmark[k].tasks :
                       task[version[i].task] = benchmark[k].org)'
      <4>1. /\ benchmark' = benchmark /\ k \in DOMAIN benchmark
            /\ benchmark[k].org \in Tenants /\ benchmark[k].tasks \subseteq DOMAIN version
        BY <1>1, <3>4, CatalogueRows DEF CatalogueInv
      <4>2. \A i \in benchmark[k].tasks : task[version[i].task] = benchmark[k].org
        BY <4>1 DEF CatalogueInv, OwnersHold
      <4>3. \A i \in DOMAIN version : version[i].task \in CatalogueTasks
        BY CatalogueRows DEF CatalogueInv
      <4>4. benchmark[k].org # Nil BY <4>1 DEF Catalogue!CatalogueAssumption
      <4>5. \A i \in benchmark[k].tasks : task'[version'[i].task] = benchmark[k].org
        BY <2>6, <2>7, <4>1, <4>2, <4>3, <4>4
      <4>6. Catalogue!Owns(benchmark[k].org, benchmark[k].repository)
        BY <4>1 DEF CatalogueInv, OwnersHold
      <4>7. QED BY <1>1, <4>1, <4>5, <4>6 DEF Catalogue!Owns
    <3>5. (\A s \in Reports : report[s] # Nil =>
             Catalogue!Owns(report[s].org, report[s].repository))'
      BY <1>1, <3>1 DEF CatalogueInv, OwnersHold
    <3>6. QED BY <3>2, <3>3, <3>4, <3>5 DEF OwnersHold
  <2>12. NumbersHold'
    <3> DEFINE of == Catalogue!VersionsOf(q.task)
    <3>1. \A t : Catalogue!VersionsOf(t)' =
                   Catalogue!VersionsOf(t) \cup (IF t = q.task THEN {n} ELSE {})
      BY <2>4, <2>5, <2>6 DEF Catalogue!VersionsOf
    <3>2. \A t : \A i \in Catalogue!VersionsOf(t) : i \in Nat /\ i < n
      BY <2>5 DEF Catalogue!VersionsOf
    <3>3. ASSUME NEW i \in DOMAIN version PROVE version'[i].number = Cardinality(Before(i)')
      <4>1. Before(i)' = Before(i)
        BY <2>5, <2>6, <3>1 DEF Before
      <4>2. QED BY <2>6, <3>3, <4>1 DEF CatalogueInv, NumbersHold
    <3>4. version'[n].number = Cardinality(Before(n)')
      <4> PICK t : t = q.task OBVIOUS
      <4>1. Before(n)' = of \cup {n}
        <5>1. Before(n)' = {j \in Catalogue!VersionsOf(t)' : j <= n}
          BY <2>4, <2>6 DEF Before, Catalogue!VersionsOf
        <5>2. Catalogue!VersionsOf(t)' = of \cup {n} BY <3>1
        <5>3. n \in Nat BY <2>5
        <5>4. QED BY <3>2, <5>1, <5>2, <5>3
      <4>2. IsFiniteSet(of) /\ n \notin of BY <2>3, <2>5, <3>2, NumbersRise DEF CatalogueInv
      <4>3. Cardinality(of \cup {n}) = Cardinality(of) + 1 BY <4>2, FS_AddElement
      <4>4. q.number = Cardinality(of) + 1 BY <1>1 DEF CatalogueInv, NumbersHold
      <4>5. QED BY <2>4, <2>6, <4>1, <4>3, <4>4
    <3>5. ASSUME NEW v \in Writers, writer'[v].at = "numbered"
          PROVE  (writer[v].number = Cardinality(Catalogue!VersionsOf(writer[v].task)) + 1)'
      <4>1. v # w /\ writer'[v] = writer[v] BY <2>8, <3>5
      <4>2. writer[v].task # q.task
        <5>1. Catalogue!LocksTask(w, q.task) BY <1>1 DEF Catalogue!LocksTask
        <5>2. Catalogue!LocksTask(v, writer[v].task) BY <3>5, <4>1 DEF Catalogue!LocksTask
        <5>3. QED BY <2>3, <4>1, <5>1, <5>2 DEF CatalogueInv, NumbersHold
      <4>3. Catalogue!VersionsOf(writer[v].task)' = Catalogue!VersionsOf(writer[v].task)
        <5>1. PICK t : t = writer[v].task OBVIOUS
        <5>2. Catalogue!VersionsOf(t)' = Catalogue!VersionsOf(t) BY <3>1, <4>2, <5>1
        <5>3. Catalogue!VersionsOf(writer[v].task)' = Catalogue!VersionsOf(t)'
          BY <4>1, <5>1 DEF Catalogue!VersionsOf
        <5>4. QED BY <5>1, <5>2, <5>3
      <4>4. QED BY <3>5, <4>1, <4>3 DEF CatalogueInv, NumbersHold
    <3>6. ASSUME NEW u \in Writers, NEW v \in Writers, NEW t \in CatalogueTasks,
                 Catalogue!LocksTask(u, t)', Catalogue!LocksTask(v, t)'
          PROVE  u = v
      <4>1. Catalogue!LocksTask(u, t) /\ Catalogue!LocksTask(v, t)
        BY <2>8, <3>6 DEF Catalogue!LocksTask
      <4>2. QED BY <4>1 DEF CatalogueInv, NumbersHold
    <3>7. \A i \in DOMAIN version' : i \in DOMAIN version \/ i = n BY <2>5, <2>6
    <3>8. QED BY <3>3, <3>4, <3>5, <3>6, <3>7 DEF NumbersHold
  <2>13. QED BY <2>10, <2>11, <2>12 DEF CatalogueInv
<1>4. QED BY <1>2, <1>3

LEMMA CreateBenchmarkHolds ==
  ASSUME CatalogueInv, NEW o \in Tenants, NEW r \in Repositories,
         NEW named \in SUBSET DOMAIN version, Catalogue!CreateBenchmark(o, r, named)
  PROVE  CatalogueInv'
<1> DEFINE new == [org |-> o, repository |-> r, tasks |-> named \cap Catalogue!Visible(o)]
           Row == [org : Tenants, repository : Repositories, tasks : SUBSET (DOMAIN version)]
           n == Len(benchmark) + 1
<1>1. /\ Catalogue!Owns(o, r) /\ benchmark' = Append(benchmark, new)
      /\ UNCHANGED <<owner, task, version, report, writer>>
  BY DEF Catalogue!CreateBenchmark
<1>2. new \in Row OBVIOUS
<1>3. \A i \in new.tasks : task[version[i].task] = o BY DEF Catalogue!Visible
<1>4. new.org = o /\ new.repository = r OBVIOUS
<1>5. benchmark \in Seq(Row) BY DEF CatalogueInv, CatalogueTypes
<1> HIDE DEF new, Row
<1>6. /\ benchmark' \in Seq(Row) /\ DOMAIN benchmark' = DOMAIN benchmark \cup {n}
      /\ benchmark'[n] = new /\ \A k \in DOMAIN benchmark : benchmark'[k] = benchmark[k]
  BY <1>1, <1>2, <1>5
<1>7. CatalogueTypes' BY <1>1, <1>6 DEF CatalogueInv, CatalogueTypes, Row
<1>8. \A x, p : Catalogue!Owns(x, p)' = Catalogue!Owns(x, p) BY <1>1 DEF Catalogue!Owns
<1>9. ASSUME NEW k \in DOMAIN benchmark'
      PROVE  (/\ Catalogue!Owns(benchmark[k].org, benchmark[k].repository)
              /\ \A i \in benchmark[k].tasks : task[version[i].task] = benchmark[k].org)'
  <2>1. CASE k = n BY <1>1, <1>3, <1>4, <1>6, <2>1 DEF Catalogue!Owns
  <2>2. CASE k \in DOMAIN benchmark
    BY <1>1, <1>6, <2>2 DEF CatalogueInv, OwnersHold, Catalogue!Owns
  <2>3. QED BY <1>6, <1>9, <2>1, <2>2
<1>10. OwnersHold' BY <1>1, <1>8, <1>9 DEF CatalogueInv, OwnersHold
<1>11. NumbersHold'
  BY <1>1 DEF CatalogueInv, NumbersHold, Before, Catalogue!VersionsOf, Catalogue!LocksTask
<1>12. QED BY <1>7, <1>10, <1>11 DEF CatalogueInv

LEMMA SaveReportHolds ==
  ASSUME CatalogueInv, NEW o \in Tenants, NEW r \in Repositories, NEW s \in Reports,
         Catalogue!SaveReport(o, r, s)
  PROVE  CatalogueInv'
<1>1. /\ Catalogue!Owns(o, r)
      /\ report' = [report EXCEPT ![s] = [org |-> o, repository |-> r]]
      /\ UNCHANGED <<owner, task, version, benchmark, writer>>
  BY DEF Catalogue!SaveReport
<1>2. CatalogueTypes' BY <1>1 DEF CatalogueInv, CatalogueTypes
<1>3. OwnersHold' BY <1>1 DEF CatalogueInv, CatalogueTypes, OwnersHold, Catalogue!Owns
<1>4. NumbersHold'
  BY <1>1 DEF CatalogueInv, NumbersHold, Before, Catalogue!VersionsOf, Catalogue!LocksTask
<1>5. QED BY <1>2, <1>3, <1>4 DEF CatalogueInv

LEMMA CatalogueStep ==
  ASSUME Catalogue!CatalogueAssumption, CatalogueInv, [Catalogue!Next]_Catalogue!vars
  PROVE  CatalogueInv'
<1>1. CASE UNCHANGED Catalogue!vars
  <2>1. UNCHANGED <<owner, task, version, benchmark, report, writer>>
    BY <1>1 DEF Catalogue!vars
  <2>2. CatalogueTypes' BY <2>1 DEF CatalogueInv, CatalogueTypes
  <2>3. OwnersHold' BY <2>1 DEF CatalogueInv, OwnersHold, Catalogue!Owns
  <2>4. NumbersHold'
    BY <2>1 DEF CatalogueInv, NumbersHold, Before, Catalogue!VersionsOf, Catalogue!LocksTask
  <2>5. QED BY <2>2, <2>3, <2>4 DEF CatalogueInv
<1>2. CASE \E r \in Repositories : Catalogue!Archive(r) BY <1>2, ArchiveHolds
<1>3. ASSUME NEW o \in Tenants, NEW r \in Repositories,
             \/ Catalogue!CreateRepository(o, r)
             \/ \E s \in Reports : Catalogue!SaveReport(o, r, s)
             \/ \E named \in SUBSET DOMAIN version : Catalogue!CreateBenchmark(o, r, named)
      PROVE  CatalogueInv'
  BY <1>3, CreateRepositoryHolds, SaveReportHolds, CreateBenchmarkHolds
<1>4. ASSUME NEW w \in Writers,
             \/ \E o \in Tenants, t \in Catalogue!Tasks, x \in Contents :
                  Catalogue!CheckOwnership(w, o, t, x)
             \/ Catalogue!UpsertTask(w) \/ Catalogue!NumberVersion(w)
             \/ Catalogue!InsertVersion(w) \/ Catalogue!AbortVersion(w)
      PROVE  CatalogueInv'
  <2>1. Catalogue!Tasks = CatalogueTasks BY DEF Catalogue!Tasks, CatalogueTasks
  <2>2. QED BY <1>4, <2>1, CheckOwnershipHolds, UpsertTaskHolds, NumberVersionHolds,
               InsertVersionHolds, AbortVersionHolds
<1>5. QED BY <1>1, <1>2, <1>3, <1>4 DEF Catalogue!Next

\* The versions of a task are numbered 1, 2, ... as they are committed, and
\* runs and reports stay within their organizations, whatever identifiers the
\* requests name, for any number of writers that overlap (createTaskVersion,
\* createBenchmark, createRun, saveReadiness and saveOptimization).
THEOREM CataloguesAlwaysAgree ==
  ASSUME Catalogue!CatalogueAssumption
  PROVE  Catalogue!Spec => []CatalogueAgrees
<1>1. CatalogueInv /\ [Catalogue!Next]_Catalogue!vars => CatalogueInv' BY CatalogueStep
<1>2. CatalogueInv => CatalogueAgrees
  <2> SUFFICES ASSUME CatalogueInv PROVE CatalogueAgrees OBVIOUS
  <2>1. Catalogue!Tasks = CatalogueTasks BY DEF Catalogue!Tasks, CatalogueTasks
  <2>2. \A T : Catalogue!Cardinality(T) = Cardinality(T)
    BY DEF Catalogue!Cardinality, Cardinality
  <2>3. ASSUME NEW t \in CatalogueTasks
        PROVE  Catalogue!Listed(t) = {i \in Catalogue!VersionsOf(t) :
                                        \A j \in Catalogue!VersionsOf(t) : j <= i}
    <3> DEFINE of == Catalogue!VersionsOf(t)
    <3>1. \A i, j \in of : j < i => version[j].number < version[i].number
      BY <2>3, NumbersRise DEF CatalogueInv
    <3>2. \A i \in of : i \in Nat /\ version[i].number \in Nat
      BY CatalogueRows DEF CatalogueInv, Catalogue!VersionsOf
    <3>3. \A i, j \in of : version[j].number <= version[i].number <=> j <= i
      BY <3>1, <3>2
    <3>4. QED BY <3>3 DEF Catalogue!Listed
  <2>4. Catalogue!VersionsInOrder
    BY <2>1, <2>2, <2>3 DEF Catalogue!VersionsInOrder, CatalogueInv, NumbersHold, Before
  <2>5. Catalogue!TenantsAreSeparate
    <3>1. \A t \in CatalogueTasks : task[t] # Nil => Catalogue!Owns(task[t], t[1])
      BY DEF CatalogueInv, OwnersHold
    <3>2. \A o \in Tenants, r \in Repositories, k \in DOMAIN benchmark :
            Catalogue!MayOrder(o, r, benchmark[k]) =>
              Catalogue!Owns(o, r) /\ \A i \in benchmark[k].tasks : task[version[i].task] = o
      BY DEF CatalogueInv, OwnersHold, Catalogue!MayOrder
    <3>3. \A s \in Reports : report[s] # Nil =>
            /\ Catalogue!Owns(report[s].org, report[s].repository)
            /\ \A o \in Tenants, r \in Repositories :
                 s \in Catalogue!ReportsOn(o, r) => Catalogue!Owns(o, r)
      BY DEF CatalogueInv, OwnersHold, Catalogue!ReportsOn
    <3>4. QED BY <2>1, <3>1, <3>2, <3>3 DEF Catalogue!TenantsAreSeparate
  <2>6. QED BY <2>4, <2>5 DEF CatalogueAgrees, Catalogue!CatalogueAgrees
<1>3. QED BY <1>1, <1>2, CatalogueInit, PTL DEF Catalogue!Spec


-----------------------------------------------------------------------------
(***************************************************************************)
(* The budget of Submission.  What a lease may add to a month is its price *)
(* and what it overruns it by.  The part up to the price is admitted only  *)
(* within the budget, and afterwards it shrinks; what was spent is never   *)
(* less than that part.                                                    *)
(*                                                                         *)
(* A sum is a recursive function; that it exists, and what it does, is     *)
(* proved by the least position at which it would fail.                    *)
(***************************************************************************)
LEMMA UpToAll ==
  ASSUME NEW n \in Nat, NEW T \in SUBSET (0 .. n), 0 \in T,
         \A k \in 1 .. n : k - 1 \in T => k \in T
  PROVE  \A k \in 0 .. n : k \in T
<1> SUFFICES ASSUME (0 .. n) \ T # {} PROVE FALSE OBVIOUS
<1> DEFINE U == (0 .. n) \ T
<1>1. U \in SUBSET Nat /\ U # {} OBVIOUS
<1>2. PICK k \in U : \A m \in U : k <= m
  <2> HIDE DEF U
  <2>1. QED BY <1>1, LeastNatural
<1>3. k \in 1 .. n /\ k - 1 \in 0 .. n /\ k - 1 \notin U BY <1>2
<1>4. QED BY <1>2, <1>3

Step(amounts, f, n) == IF n = 0 THEN 0 ELSE f[n - 1] + amounts[n]

\* The sums of the first amounts, as a function.
LEMMA SumsExist ==
  ASSUME NEW amounts \in Seq(Nat)
  PROVE  \E sums \in [0 .. Len(amounts) -> Nat] :
           /\ Order!Total(amounts) = sums[Len(amounts)] /\ sums[0] = 0
           /\ \A n \in 1 .. Len(amounts) : sums[n] = sums[n - 1] + amounts[n]
<1>1. Len(amounts) \in Nat /\ \A n \in 1 .. Len(amounts) : amounts[n] \in Nat OBVIOUS
<1> DEFINE len == Len(amounts)
           T == {k \in 0 .. len : \E f \in [0 .. k -> Nat] :
                   \A n \in 0 .. k : f[n] = Step(amounts, f, n)}
<1>2. 0 \in T
  <2> DEFINE f == [n \in 0 .. 0 |-> 0]
  <2>1. f \in [0 .. 0 -> Nat] /\ \A n \in 0 .. 0 : f[n] = Step(amounts, f, n) BY DEF Step
  <2> HIDE DEF f
  <2>2. QED BY <1>1, <2>1
<1>3. ASSUME NEW k \in 1 .. len, k - 1 \in T PROVE k \in T
  <2>1. PICK f \in [0 .. (k - 1) -> Nat] : \A n \in 0 .. (k - 1) : f[n] = Step(amounts, f, n)
    BY <1>3
  <2> DEFINE g == [n \in 0 .. k |-> IF n = k THEN f[k - 1] + amounts[k] ELSE f[n]]
  <2>2. g \in [0 .. k -> Nat] BY <1>1
  <2>3. g[k] = g[k - 1] + amounts[k] BY <1>1
  <2>4. \A n \in 0 .. (k - 1) : g[n] = f[n] BY <1>1
  <2> HIDE DEF g
  <2>5. \A n \in 0 .. k : g[n] = Step(amounts, g, n)
    <3> SUFFICES ASSUME NEW n \in 0 .. k PROVE g[n] = Step(amounts, g, n) OBVIOUS
    <3>1. CASE n = k BY <1>1, <2>3, <3>1 DEF Step
    <3>2. CASE n # k
      <4>1. n \in 0 .. (k - 1) /\ (n # 0 => n - 1 \in 0 .. (k - 1)) BY <1>1, <3>2
      <4>2. QED BY <2>1, <2>4, <4>1 DEF Step
    <3>3. QED BY <3>1, <3>2
  <2>6. QED BY <1>1, <2>2, <2>5
<1>4. len \in T
  <2> HIDE DEF T
  <2>1. T \in SUBSET (0 .. len) BY DEF T
  <2>2. \A k \in 0 .. len : k \in T BY <1>1, <1>2, <1>3, <2>1, UpToAll
  <2>3. QED BY <1>1, <2>2
<1>5. PICK f \in [0 .. len -> Nat] : \A n \in 0 .. len : f[n] = Step(amounts, f, n)
  BY <1>4
<1>6. f = [n \in 0 .. Len(amounts) |-> IF n = 0 THEN 0 ELSE f[n - 1] + amounts[n]]
  BY <1>5 DEF Step
<1> DEFINE upTo == CHOOSE u : u = [n \in 0 .. Len(amounts) |->
                                    IF n = 0 THEN 0 ELSE u[n - 1] + amounts[n]]
<1>7. upTo = [n \in 0 .. Len(amounts) |-> IF n = 0 THEN 0 ELSE upTo[n - 1] + amounts[n]]
  BY <1>6
<1>8. Order!Total(amounts) = upTo[Len(amounts)] BY DEF Order!Total
<1> HIDE DEF upTo
<1>9. upTo[0] = 0 /\ \A n \in 1 .. len : upTo[n] = upTo[n - 1] + amounts[n] BY <1>1, <1>7
<1>10. \A n \in 0 .. len : upTo[n] \in Nat
  <2> DEFINE Summed == {n \in 0 .. len : upTo[n] \in Nat}
  <2>1. 0 \in Summed BY <1>1, <1>9
  <2>2. ASSUME NEW k \in 1 .. len, k - 1 \in Summed PROVE k \in Summed
    <3>1. upTo[k - 1] \in Nat /\ amounts[k] \in Nat BY <1>1, <2>2
    <3>2. upTo[k] = upTo[k - 1] + amounts[k] /\ k \in 0 .. len BY <1>1, <1>9
    <3>3. QED BY <3>1, <3>2
  <2> HIDE DEF Summed
  <2>3. Summed \in SUBSET (0 .. len) BY DEF Summed
  <2>4. \A k \in 0 .. len : k \in Summed BY <1>1, <2>1, <2>2, <2>3, UpToAll
  <2>5. QED BY <2>4 DEF Summed
<1>11. upTo \in [0 .. len -> Nat] BY <1>7, <1>10
<1>12. QED BY <1>8, <1>9, <1>11

\* What is left to arithmetic.
LEMMA SumOfBounds ==
  ASSUME NEW g \in Nat, NEW b \in Nat, NEW a \in Nat, NEW p \in Nat, NEW m \in Nat,
         NEW q \in Nat, g <= a + m, b <= p + q
  PROVE  g + b <= (a + p) + (m + q)
OBVIOUS

LEMMA TotalIsNatural ==
  ASSUME NEW amounts \in Seq(Nat)
  PROVE  Order!Total(amounts) \in Nat
<1>1. Len(amounts) \in 0 .. Len(amounts) OBVIOUS
<1>2. QED BY <1>1, SumsExist

\* If no amount is greater, but for one that is so by x, the sum is at most
\* greater by x; amounts that are added count as such.
LEMMA TotalGrows ==
  ASSUME NEW a \in Seq(Nat), NEW b \in Seq(Nat), NEW x \in Nat, NEW j \in Nat,
         Len(a) <= Len(b),
         \A i \in 1 .. Len(b) :
           b[i] <= (IF i <= Len(a) THEN a[i] ELSE 0) + (IF i = j THEN x ELSE 0)
  PROVE  Order!Total(b) <= Order!Total(a) + x
<1>1. PICK f \in [0 .. Len(a) -> Nat] :
        /\ Order!Total(a) = f[Len(a)] /\ f[0] = 0
        /\ \A n \in 1 .. Len(a) : f[n] = f[n - 1] + a[n]
  BY SumsExist
<1>2. PICK g \in [0 .. Len(b) -> Nat] :
        /\ Order!Total(b) = g[Len(b)] /\ g[0] = 0
        /\ \A n \in 1 .. Len(b) : g[n] = g[n - 1] + b[n]
  BY SumsExist
<1>3. /\ Len(a) \in Nat /\ Len(b) \in Nat
      /\ \A i \in 1 .. Len(a) : a[i] \in Nat
      /\ \A i \in 1 .. Len(b) : b[i] \in Nat
  OBVIOUS
<1> DEFINE at(k) == IF k <= Len(a) THEN f[k] ELSE f[Len(a)]
           more(k) == IF j >= 1 /\ j <= k THEN x ELSE 0
           T == {k \in 0 .. Len(b) : g[k] <= at(k) + more(k)}
<1>4. 0 \in T BY <1>1, <1>2, <1>3
<1>5. ASSUME NEW k \in 1 .. Len(b), k - 1 \in T PROVE k \in T
  <2> DEFINE p == IF k <= Len(a) THEN a[k] ELSE 0
             q == IF k = j THEN x ELSE 0
  <2>1. /\ g[k - 1] \in Nat /\ g[k] = g[k - 1] + b[k]
        /\ g[k - 1] <= at(k - 1) + more(k - 1)
    <3>1. k - 1 \in 0 .. Len(b) BY <1>3
    <3>2. g[k - 1] \in Nat BY <1>2, <3>1
    <3>3. g[k - 1] <= at(k - 1) + more(k - 1) BY <1>5
    <3>4. QED BY <1>2, <3>2, <3>3
  <2>2. at(k) = at(k - 1) + p /\ at(k - 1) \in Nat
    <3>1. CASE k <= Len(a)
      <4>1. k \in 1 .. Len(a) /\ k - 1 \in 0 .. Len(a) /\ k - 1 <= Len(a) BY <1>3, <3>1
      <4>2. at(k) = f[k] /\ at(k - 1) = f[k - 1] /\ p = a[k] BY <3>1, <4>1
      <4>3. f[k] = f[k - 1] + a[k] /\ f[k - 1] \in Nat BY <1>1, <4>1
      <4>4. QED BY <4>2, <4>3
    <3>2. CASE ~ k <= Len(a)
      <4>1. Len(a) \in 0 .. Len(a) /\ (k - 1 <= Len(a) => k - 1 = Len(a)) BY <1>3, <3>2
      <4>2. at(k) = f[Len(a)] /\ at(k - 1) = f[Len(a)] /\ p = 0 BY <3>2, <4>1
      <4>3. f[Len(a)] \in Nat BY <1>1, <4>1
      <4>4. QED BY <4>2, <4>3
    <3>3. QED BY <3>1, <3>2
  <2>3. more(k) = more(k - 1) + q /\ more(k - 1) \in Nat BY <1>3
  <2>4. b[k] <= p + q /\ b[k] \in Nat /\ p \in Nat /\ q \in Nat BY <1>3
  <2> HIDE DEF at, more, p, q
  <2>5. g[k - 1] + b[k] <= (at(k - 1) + p) + (more(k - 1) + q)
    BY <2>1, <2>2, <2>3, <2>4, SumOfBounds
  <2>6. g[k] <= at(k) + more(k) BY <2>1, <2>2, <2>3, <2>5
  <2>7. k \in 0 .. Len(b) BY <1>3
  <2>8. QED BY <2>6, <2>7
<1>6. Len(b) \in T
  <2> HIDE DEF T
  <2>1. T \in SUBSET (0 .. Len(b)) BY DEF T
  <2>2. \A k \in 0 .. Len(b) : k \in T BY <1>3, <1>4, <1>5, <2>1, UpToAll
  <2>3. QED BY <1>3, <2>2
<1>7. at(Len(b)) = f[Len(a)] /\ f[Len(a)] \in Nat BY <1>1, <1>3
<1>8. g[Len(b)] <= f[Len(a)] + x
  <2>1. g[Len(b)] <= at(Len(b)) + more(Len(b)) BY <1>6
  <2>2. more(Len(b)) \in Nat /\ more(Len(b)) <= x BY <1>3
  <2>3. g[Len(b)] \in Nat BY <1>2, <1>3
  <2> HIDE DEF at, more
  <2>4. QED BY <1>7, <2>1, <2>2, <2>3
<1>9. QED BY <1>1, <1>2, <1>8

LEMMA TotalAdds ==
  ASSUME NEW a \in Seq(Nat), NEW b \in Seq(Nat), NEW c \in Seq(Nat),
         Len(a) = Len(c), Len(b) = Len(c), \A i \in 1 .. Len(c) : c[i] = a[i] + b[i]
  PROVE  Order!Total(c) = Order!Total(a) + Order!Total(b)
<1>1. PICK f \in [0 .. Len(c) -> Nat] :
        /\ Order!Total(a) = f[Len(c)] /\ f[0] = 0
        /\ \A n \in 1 .. Len(c) : f[n] = f[n - 1] + a[n]
  <2>1. \E f \in [0 .. Len(a) -> Nat] :
          /\ Order!Total(a) = f[Len(a)] /\ f[0] = 0
          /\ \A n \in 1 .. Len(a) : f[n] = f[n - 1] + a[n]
    BY SumsExist
  <2>2. QED BY <2>1
<1>2. PICK g \in [0 .. Len(c) -> Nat] :
        /\ Order!Total(b) = g[Len(c)] /\ g[0] = 0
        /\ \A n \in 1 .. Len(c) : g[n] = g[n - 1] + b[n]
  <2>1. \E g \in [0 .. Len(b) -> Nat] :
          /\ Order!Total(b) = g[Len(b)] /\ g[0] = 0
          /\ \A n \in 1 .. Len(b) : g[n] = g[n - 1] + b[n]
    BY SumsExist
  <2>2. QED BY <2>1
<1>3. PICK h \in [0 .. Len(c) -> Nat] :
        /\ Order!Total(c) = h[Len(c)] /\ h[0] = 0
        /\ \A n \in 1 .. Len(c) : h[n] = h[n - 1] + c[n]
  BY SumsExist
<1>4. /\ Len(c) \in Nat
      /\ \A i \in 1 .. Len(c) : a[i] \in Nat /\ b[i] \in Nat /\ c[i] \in Nat
  OBVIOUS
<1> DEFINE T == {k \in 0 .. Len(c) : h[k] = f[k] + g[k]}
<1>5. 0 \in T BY <1>1, <1>2, <1>3, <1>4
<1>6. ASSUME NEW k \in 1 .. Len(c), k - 1 \in T PROVE k \in T
  <2>1. k - 1 \in 0 .. Len(c) /\ k \in 0 .. Len(c) BY <1>4
  <2>2. /\ f[k - 1] \in Nat /\ g[k - 1] \in Nat /\ h[k - 1] \in Nat
        /\ a[k] \in Nat /\ b[k] \in Nat /\ c[k] = a[k] + b[k]
        /\ f[k] = f[k - 1] + a[k] /\ g[k] = g[k - 1] + b[k] /\ h[k] = h[k - 1] + c[k]
    BY <1>1, <1>2, <1>3, <1>4, <2>1
  <2>3. h[k - 1] = f[k - 1] + g[k - 1] BY <1>6
  <2> DEFINE u == f[k - 1]
             v == g[k - 1]
             w == h[k - 1]
             p == a[k]
             q == b[k]
  <2>4. /\ u \in Nat /\ v \in Nat /\ w \in Nat /\ p \in Nat /\ q \in Nat /\ w = u + v
        /\ f[k] = u + p /\ g[k] = v + q /\ h[k] = w + (p + q)
    BY <2>2, <2>3
  <2> HIDE DEF u, v, w, p, q
  <2>5. h[k] = f[k] + g[k] BY <2>4
  <2>6. QED BY <2>1, <2>5
<1>7. Len(c) \in T
  <2> HIDE DEF T
  <2>1. T \in SUBSET (0 .. Len(c)) BY DEF T
  <2>2. \A k \in 0 .. Len(c) : k \in T BY <1>4, <1>5, <1>6, <2>1, UpToAll
  <2>3. QED BY <1>4, <2>2
<1>8. QED BY <1>1, <1>2, <1>3, <1>7


-----------------------------------------------------------------------------
\* What a lease adds to a month within its price.
WithinPrice(j, m) ==
  IF Order!InMonth(j, m)
  THEN IF lease[j].cost > lease[j].price THEN lease[j].price ELSE lease[j].cost
  ELSE 0

Kept(m) == [j \in DOMAIN lease |-> WithinPrice(j, m)]
Costs(m) == [j \in DOMAIN lease |-> IF Order!InMonth(j, m) THEN lease[j].cost ELSE 0]
Overruns(m) == [j \in DOMAIN lease |-> Order!Overrun(j, m)]
Queued == {j \in DOMAIN lease : lease[j].state = "REQUESTED"}

BudgetInv ==
  /\ OrderInv
  /\ \A j \in DOMAIN lease :
       lease[j].state # "NONE" /\ lease[j].meter # "done" => lease[j].cost = lease[j].price
  /\ \A m \in Nat : Order!Total(Kept(m)) <= Budget
  /\ Cardinality(Order!Unasked) <= MaxQueued

LeaseForms ==
  /\ Len(lease) \in Nat /\ DOMAIN lease = 1 .. Len(lease)
  /\ \A j \in 1 .. Len(lease) :
       /\ lease[j].state # "NONE" => lease[j] \in Reservations
       /\ lease[j].state # "NONE" =>
            lease[j].price \in Nat /\ lease[j].cost \in Nat /\ lease[j].month \in Nat

LEMMA LeasesHaveForms == OrderTypes => LeaseForms
<1> SUFFICES ASSUME OrderTypes PROVE LeaseForms OBVIOUS
<1>1. lease \in Seq(LeaseRows) BY DEF OrderTypes
<1>2. \A row \in LeaseRows :
        /\ row.state # "NONE" => row \in Reservations
        /\ row.state # "NONE" => row.price \in Nat /\ row.cost \in Nat /\ row.month \in Nat
  BY DEF LeaseRows, Reservations
<1> HIDE DEF LeaseRows
<1>3. Len(lease) \in Nat /\ DOMAIN lease = 1 .. Len(lease) BY <1>1
<1>4. \A j \in 1 .. Len(lease) : lease[j] \in LeaseRows BY <1>1, <1>3
<1>5. QED BY <1>2, <1>3, <1>4 DEF LeaseForms

Amounts ==
  \A m \in Nat :
    /\ Kept(m) \in Seq(Nat) /\ Len(Kept(m)) = Len(lease)
    /\ Costs(m) \in Seq(Nat) /\ Len(Costs(m)) = Len(lease)
    /\ Overruns(m) \in Seq(Nat) /\ Len(Overruns(m)) = Len(lease)
    /\ \A j \in 1 .. Len(lease) :
         /\ Kept(m)[j] = WithinPrice(j, m) /\ WithinPrice(j, m) \in Nat
         /\ Costs(m)[j] = WithinPrice(j, m) + Overruns(m)[j]

LEMMA AmountsAreNatural == OrderTypes => Amounts
<1> SUFFICES ASSUME OrderTypes, NEW m \in Nat
             PROVE  /\ Kept(m) \in Seq(Nat) /\ Len(Kept(m)) = Len(lease)
                    /\ Costs(m) \in Seq(Nat) /\ Len(Costs(m)) = Len(lease)
                    /\ Overruns(m) \in Seq(Nat) /\ Len(Overruns(m)) = Len(lease)
                    /\ \A j \in 1 .. Len(lease) :
                         /\ Kept(m)[j] = WithinPrice(j, m) /\ WithinPrice(j, m) \in Nat
                         /\ Costs(m)[j] = WithinPrice(j, m) + Overruns(m)[j]
  BY DEF Amounts
<1>1. LeaseForms BY LeasesHaveForms
<1>2. \A j \in 1 .. Len(lease) :
        /\ WithinPrice(j, m) \in Nat /\ Order!Overrun(j, m) \in Nat
        /\ (IF Order!InMonth(j, m) THEN lease[j].cost ELSE 0) \in Nat
        /\ (IF Order!InMonth(j, m) THEN lease[j].cost ELSE 0)
             = WithinPrice(j, m) + Order!Overrun(j, m)
  BY <1>1 DEF LeaseForms, WithinPrice, Order!Overrun, Order!InMonth
<1>3. /\ Kept(m) \in [1 .. Len(lease) -> Nat]
      /\ Costs(m) \in [1 .. Len(lease) -> Nat]
      /\ Overruns(m) \in [1 .. Len(lease) -> Nat]
  BY <1>1, <1>2 DEF LeaseForms, Kept, Costs, Overruns
<1>4. \A s \in [1 .. Len(lease) -> Nat] : s \in Seq(Nat) /\ Len(s) = Len(lease)
  BY <1>1, IsASeq, LenProperties DEF LeaseForms
<1>5. QED BY <1>1, <1>2, <1>3, <1>4 DEF LeaseForms, Kept, Costs, Overruns

LEMMA FewWait ==
  ASSUME OrderTypes
  PROVE  /\ IsFiniteSet(Queued) /\ Cardinality(Queued) \in Nat
         /\ Order!Queued = Cardinality(Queued) /\ Order!Unasked \subseteq Queued
         /\ IsFiniteSet(Order!Unasked) /\ Cardinality(Order!Unasked) \in Nat
         /\ Cardinality(Order!Unasked) <= Cardinality(Queued)
<1>1. Len(lease) \in Nat /\ DOMAIN lease = 1 .. Len(lease)
  BY LeasesHaveForms DEF LeaseForms
<1>2. IsFiniteSet(1 .. Len(lease)) BY <1>1, FS_Interval
<1>3. Queued \subseteq 1 .. Len(lease) BY <1>1 DEF Queued
<1>4. IsFiniteSet(Queued) /\ Cardinality(Queued) \in Nat
  BY <1>2, <1>3, FS_Subset, FS_CardinalityType
<1>5. {j \in Order!Reserved : lease[j].state = "REQUESTED"} = Queued
  BY DEF Order!Reserved, Queued
<1>6. Order!Queued = Cardinality(Queued)
  BY <1>5 DEF Order!Queued, Order!Cardinality, Cardinality
<1>7. Order!Unasked \subseteq Queued BY DEF Order!Unasked, Order!Reserved, Queued
<1>8. /\ IsFiniteSet(Order!Unasked) /\ Cardinality(Order!Unasked) \in Nat
      /\ Cardinality(Order!Unasked) <= Cardinality(Queued)
  BY <1>4, <1>7, FS_Subset, FS_CardinalityType
<1>9. QED BY <1>4, <1>6, <1>7, <1>8

LEMMA BudgetInit ==
  ASSUME Order!SubmissionAssumption, Order!Init
  PROVE  BudgetInv
<1>1. OrderInv /\ lease = <<>> BY OrderInit DEF Order!Init
<1>2. DOMAIN lease = {} /\ Len(lease) = 0 BY <1>1
<1>3. ASSUME NEW m \in Nat PROVE Order!Total(Kept(m)) <= Budget
  <2>1. Kept(m) \in Seq(Nat) /\ Len(Kept(m)) = 0
    BY <1>1, <1>2, AmountsAreNatural DEF OrderInv, Amounts
  <2>2. PICK s \in [0 .. Len(Kept(m)) -> Nat] :
          Order!Total(Kept(m)) = s[Len(Kept(m))] /\ s[0] = 0
    BY <2>1, SumsExist
  <2>3. QED BY <2>1, <2>2 DEF Order!SubmissionAssumption
<1>4. Cardinality(Order!Unasked) <= MaxQueued
  <2>1. Order!Unasked = {} BY <1>2 DEF Order!Unasked, Order!Reserved
  <2>2. QED BY <2>1, FS_EmptySet DEF Order!SubmissionAssumption
<1>5. QED BY <1>1, <1>2, <1>3, <1>4 DEF BudgetInv

\* A lease that goes on: it costs no more within its price than before.
GoesOn(i) ==
  \/ lease'[i] = lease[i]
  \/ /\ lease[i] \in Reservations /\ lease'[i] \in Reservations
     /\ Follows(lease'[i], lease[i])

LEMMA LeasesGoOn ==
  ASSUME Order!SubmissionAssumption, BudgetInv, OrderInv', Len(lease) <= Len(lease'),
         \A i \in 1 .. Len(lease) : GoesOn(i),
         \A i \in 1 .. Len(lease') : i > Len(lease) => lease'[i].state = "NONE"
  PROVE  BudgetInv'
<1>1. OrderTypes /\ OrderTypes' BY DEF BudgetInv, OrderInv
<1>2. LeaseForms /\ Amounts BY <1>1, LeasesHaveForms, AmountsAreNatural
<1>3. LeaseForms' /\ Amounts' BY <1>1, LeasesHaveForms, AmountsAreNatural, PTL
<1>4. ASSUME NEW j \in DOMAIN lease', lease'[j].state # "NONE", lease'[j].meter # "done"
      PROVE  lease'[j].cost = lease'[j].price
  <2>1. j \in 1 .. Len(lease) /\ GoesOn(j) BY <1>2, <1>3, <1>4 DEF LeaseForms
  <2>2. lease[j].state # "NONE" /\ lease[j].meter # "done"
    BY <1>4, <2>1 DEF GoesOn, Follows, Reservations
  <2>3. lease[j].cost = lease[j].price BY <1>2, <2>1, <2>2 DEF LeaseForms, BudgetInv
  <2>4. QED BY <1>4, <2>1, <2>3 DEF GoesOn, Follows
<1>5. ASSUME NEW m \in Nat PROVE Order!Total(Kept(m)') <= Budget
  <2>1. /\ Kept(m) \in Seq(Nat) /\ Len(Kept(m)) = Len(lease)
        /\ \A j \in 1 .. Len(lease) :
             Kept(m)[j] = WithinPrice(j, m) /\ WithinPrice(j, m) \in Nat
    BY <1>2 DEF Amounts
  <2>2. /\ Kept(m)' \in Seq(Nat) /\ Len(Kept(m)') = Len(lease')
        /\ \A j \in 1 .. Len(lease') :
             Kept(m)'[j] = WithinPrice(j, m)' /\ WithinPrice(j, m)' \in Nat
    BY <1>3 DEF Amounts
  <2>3. ASSUME NEW i \in 1 .. Len(lease')
        PROVE  WithinPrice(i, m)' <= IF i <= Len(lease) THEN WithinPrice(i, m) ELSE 0
    <3>1. CASE i > Len(lease)
      <4>1. WithinPrice(i, m)' = 0 BY <3>1 DEF WithinPrice, Order!InMonth
      <4>2. QED BY <1>2, <1>3, <3>1, <4>1 DEF LeaseForms
    <3>2. CASE i <= Len(lease)
      <4>1. i \in 1 .. Len(lease) /\ GoesOn(i) BY <1>2, <1>3, <3>2 DEF LeaseForms
      <4>2. CASE lease'[i] = lease[i]
        <5>1. WithinPrice(i, m)' = WithinPrice(i, m)
          BY <4>2 DEF WithinPrice, Order!InMonth
        <5>2. WithinPrice(i, m) \in Nat BY <2>1, <4>1
        <5>3. QED BY <3>2, <5>1, <5>2
      <4>3. CASE lease'[i] # lease[i]
        <5>1. /\ lease[i] \in Reservations /\ lease'[i] \in Reservations
              /\ Follows(lease'[i], lease[i])
          BY <4>1, <4>3 DEF GoesOn
        <5>2. /\ lease[i].state # "NONE" /\ lease'[i].state # "NONE"
              /\ lease[i].price \in Nat /\ lease[i].cost \in Nat /\ lease'[i].cost \in Nat
              /\ lease'[i].price = lease[i].price /\ lease'[i].month = lease[i].month
          BY <5>1 DEF Reservations, Follows
        <5>3. \/ lease'[i].cost = lease[i].cost
              \/ lease[i].cost = lease[i].price
          BY <1>2, <4>1, <5>1, <5>2 DEF Follows, LeaseForms, BudgetInv
        <5>4. QED BY <3>2, <5>2, <5>3 DEF WithinPrice, Order!InMonth
      <4>4. QED BY <4>2, <4>3
    <3>3. QED BY <1>2, <1>3, <3>1, <3>2 DEF LeaseForms
  <2> DEFINE a == Kept(m)
             b == Kept(m)'
  <2>4. \A i \in 1 .. Len(b) :
          b[i] <= (IF i <= Len(a) THEN a[i] ELSE 0) + (IF i = 0 THEN 0 ELSE 0)
    <3> SUFFICES ASSUME NEW i \in 1 .. Len(lease')
                 PROVE  Kept(m)'[i] <= (IF i <= Len(lease) THEN Kept(m)[i] ELSE 0)
      BY <2>1, <2>2
    <3>1. i <= Len(lease) => i \in 1 .. Len(lease) BY <1>2, <1>3 DEF LeaseForms
    <3>2. QED BY <2>1, <2>2, <2>3, <3>1
  <2>5. a \in Seq(Nat) /\ b \in Seq(Nat) /\ Len(a) <= Len(b) BY <2>1, <2>2
  <2>6. Order!Total(a) <= Budget BY DEF BudgetInv
  <2> HIDE DEF a, b
  <2>7. Order!Total(b) <= Order!Total(a) + 0 BY <2>4, <2>5, TotalGrows
  <2>8. Order!Total(a) \in Nat /\ Order!Total(b) \in Nat BY <2>5, TotalIsNatural
  <2>9. Order!Total(b) <= Budget BY <2>6, <2>7, <2>8 DEF Order!SubmissionAssumption
  <2>10. QED BY <2>9 DEF b
<1>6. Cardinality(Order!Unasked') <= MaxQueued
  <2>1. Order!Unasked' \subseteq Order!Unasked
    <3> SUFFICES ASSUME NEW i \in 1 .. Len(lease'), lease'[i].state = "REQUESTED",
                        lease'[i].provider = "unasked"
                 PROVE  /\ i \in 1 .. Len(lease) /\ lease[i].state = "REQUESTED"
                        /\ lease[i].provider = "unasked"
      BY <1>2, <1>3 DEF LeaseForms, Order!Unasked, Order!Reserved
    <3>1. i \in 1 .. Len(lease) BY <1>2, <1>3 DEF LeaseForms
    <3>2. QED BY <3>1 DEF GoesOn, Follows
  <2>2. IsFiniteSet(Order!Unasked) /\ Cardinality(Order!Unasked) \in Nat BY <1>1, FewWait
  <2>3. Cardinality(Order!Unasked') <= Cardinality(Order!Unasked) /\ Cardinality(Order!Unasked') \in Nat
    BY <2>1, <2>2, FS_Subset, FS_CardinalityType
  <2>4. QED BY <2>2, <2>3 DEF BudgetInv, Order!SubmissionAssumption
<1>7. QED BY <1>4, <1>5, <1>6 DEF BudgetInv

LEMMA LeasesStay ==
  ASSUME Order!SubmissionAssumption, BudgetInv, OrderInv', lease' = lease
  PROVE  BudgetInv'
<1>1. LeaseForms BY LeasesHaveForms DEF BudgetInv, OrderInv
<1>2. /\ Len(lease) <= Len(lease')
      /\ \A i \in 1 .. Len(lease) : GoesOn(i)
      /\ \A i \in 1 .. Len(lease') : i > Len(lease) => lease'[i].state = "NONE"
  BY <1>1 DEF LeaseForms, GoesOn
<1>3. QED BY <1>2, LeasesGoOn

\* One lease goes on.
LEMMA LeaseGoesOn ==
  ASSUME Order!SubmissionAssumption, BudgetInv, OrderInv', NEW j \in 1 .. Len(job),
         LeaseSteps(j)
  PROVE  BudgetInv'
<1>1. LeaseForms /\ OrderTypes BY LeasesHaveForms DEF BudgetInv, OrderInv
<1>2. Len(job) = Len(lease) BY <1>1 DEF OrderTypes
<1>3. PICK new \in Reservations :
        lease' = [lease EXCEPT ![j] = new] /\ Follows(new, lease[j])
  BY <1>1, LeaseChanges
<1>4. lease[j] \in Reservations BY <1>1, LeaseChanges
<1>5. /\ Len(lease') = Len(lease) /\ lease'[j] = new
      /\ \A i \in 1 .. Len(lease) : i # j => lease'[i] = lease[i]
  BY <1>1, <1>2, <1>3 DEF LeaseForms
<1>6. \A i \in 1 .. Len(lease) : GoesOn(i) BY <1>3, <1>4, <1>5 DEF GoesOn
<1>7. /\ Len(lease) <= Len(lease')
      /\ \A i \in 1 .. Len(lease') : i > Len(lease) => lease'[i].state = "NONE"
  BY <1>1, <1>5 DEF LeaseForms
<1>8. QED BY <1>6, <1>7, LeasesGoOn

LEMMA BudgetWithRun ==
  ASSUME Order!SubmissionAssumption, BudgetInv, NEW c \in Calls, Order!CreateRun(c)
  PROVE  BudgetInv'
<1>1. OrderInv' BY CreateRunHolds DEF BudgetInv
<1>2. UNCHANGED lease \/ lease' = Append(lease, [state |-> "NONE"])
  BY DEF Order!CreateRun
<1>3. CASE UNCHANGED lease BY <1>1, <1>3, LeasesStay
<1>4. CASE lease' = Append(lease, [state |-> "NONE"])
  <2>1. LeaseForms /\ lease \in Seq(LeaseRows)
    BY LeasesHaveForms DEF BudgetInv, OrderInv, OrderTypes
  <2>2. [state |-> "NONE"] \in LeaseRows BY DEF LeaseRows
  <2>3. /\ Len(lease') = Len(lease) + 1 /\ lease'[Len(lease) + 1] = [state |-> "NONE"]
        /\ \A i \in 1 .. Len(lease) : lease'[i] = lease[i]
    BY <1>4, <2>1, <2>2, AppendProperties DEF LeaseForms
  <2>4. /\ Len(lease) <= Len(lease')
        /\ \A i \in 1 .. Len(lease) : GoesOn(i)
        /\ \A i \in 1 .. Len(lease') : i > Len(lease) => lease'[i].state = "NONE"
    BY <2>1, <2>3 DEF LeaseForms, GoesOn
  <2>5. QED BY <1>1, <2>4, LeasesGoOn
<1>5. QED BY <1>2, <1>3, <1>4

\* The order is admitted if it has room in the queue, and in the budget beside
\* all that was spent.
LEMMA BudgetWithRequest ==
  ASSUME Order!SubmissionAssumption, BudgetInv, NEW c \in Calls, Order!Request(c)
  PROVE  BudgetInv'
<1> DEFINE j == call[c].job
           price == call[c].price
           new == [state |-> "REQUESTED", provider |-> "unasked", meter |-> "open",
                   price |-> price, cost |-> price, month |-> month]
<1>1. OrderInv' BY OrderRequestHolds DEF BudgetInv
<1>2. \/ UNCHANGED lease
      \/ /\ lease[j].state = "NONE" /\ lease' = [lease EXCEPT ![j] = new]
         /\ ~ (Order!Queued >= MaxQueued) /\ ~ (Order!Spent(month) + price > Budget)
  BY <1>1 DEF Order!Request, BudgetInv, OrderInv, OrderTypes
<1>3. CASE UNCHANGED lease BY <1>1, <1>3, LeasesStay
<1>4. CASE /\ lease[j].state = "NONE" /\ lease' = [lease EXCEPT ![j] = new]
           /\ ~ (Order!Queued >= MaxQueued) /\ ~ (Order!Spent(month) + price > Budget)
  <2>1. OrderTypes /\ OrderTypes' /\ month \in Nat BY <1>1 DEF BudgetInv, OrderInv, OrderTypes
  <2>2. LeaseForms /\ Amounts BY <2>1, LeasesHaveForms, AmountsAreNatural
  <2>3. LeaseForms' /\ Amounts' BY <2>1, LeasesHaveForms, AmountsAreNatural, PTL
  <2>4. j \in 1 .. Len(lease) /\ price \in Nat
    <3>1. call[c].at = "checked" BY DEF Order!Request
    <3>2. call[c] \in Posted BY <2>1, <3>1, CallForms
    <3>3. call[c].job \in 1 .. Len(job) /\ price # Nil /\ Len(lease) = Len(job)
      BY <3>1 DEF BudgetInv, OrderInv, CallHolds, OrderTypes
    <3>4. QED BY <3>2, <3>3 DEF Posted
  <2> HIDE DEF j, price
  <2>5. /\ new.state = "REQUESTED" /\ new.price = price /\ new.cost = price
        /\ new.month = month
    OBVIOUS
  <2> HIDE DEF new
  <2>6. /\ Len(lease') = Len(lease) /\ lease'[j] = new
        /\ DOMAIN lease' = 1 .. Len(lease)
        /\ \A i \in 1 .. Len(lease) : i # j => lease'[i] = lease[i]
    BY <1>4, <2>2, <2>4 DEF LeaseForms
  <2>7. \A i \in DOMAIN lease' :
          lease'[i].state # "NONE" /\ lease'[i].meter # "done" =>
            lease'[i].cost = lease'[i].price
    BY <2>2, <2>5, <2>6 DEF BudgetInv, LeaseForms
  <2>8. ASSUME NEW m \in Nat PROVE Order!Total(Kept(m)') <= Budget
    <3> DEFINE a == Kept(m)
               b == Kept(m)'
    <3>1. /\ a \in Seq(Nat) /\ b \in Seq(Nat) /\ Len(a) = Len(lease) /\ Len(b) = Len(lease)
          /\ \A i \in 1 .. Len(lease) :
               /\ a[i] = WithinPrice(i, m) /\ b[i] = WithinPrice(i, m)'
               /\ a[i] \in Nat /\ b[i] \in Nat
      BY <2>2, <2>3, <2>6 DEF Amounts
    <3>2. \A i \in 1 .. Len(lease) : i # j => b[i] = a[i]
      BY <2>6, <3>1 DEF WithinPrice, Order!InMonth
    <3>3. a[j] = 0 /\ b[j] = (IF m = month THEN price ELSE 0)
      BY <1>4, <2>4, <2>5, <2>6, <3>1 DEF WithinPrice, Order!InMonth
    <3>4. Order!Total(a) \in Nat /\ Order!Total(b) \in Nat BY <3>1, TotalIsNatural
    <3>5. Order!Total(a) <= Budget BY DEF BudgetInv
    <3>6. Budget \in Nat BY DEF Order!SubmissionAssumption
    <3>7. CASE m = month
      <4> DEFINE costs == Costs(m)
      <4>1. Order!Spent(month) = Order!Total(costs) BY <3>7 DEF Order!Spent, Costs
      <4>2. /\ costs \in Seq(Nat) /\ Len(costs) = Len(lease)
            /\ \A i \in 1 .. Len(lease) : a[i] <= costs[i] /\ costs[i] \in Nat
        <5>1. /\ costs \in Seq(Nat) /\ Len(costs) = Len(lease)
              /\ Overruns(m) \in Seq(Nat) /\ Len(Overruns(m)) = Len(lease)
              /\ \A i \in 1 .. Len(lease) :
                   costs[i] = WithinPrice(i, m) + Overruns(m)[i]
          BY <2>2 DEF Amounts
        <5> HIDE DEF costs, a, b
        <5>2. \A i \in 1 .. Len(lease) : Overruns(m)[i] \in Nat /\ costs[i] \in Nat
          BY <5>1
        <5>3. QED BY <3>1, <5>1, <5>2
      <4>3. j \in Nat BY <2>4
      <4> HIDE DEF costs, a, b
      <4>4. \A i \in 1 .. Len(b) :
              b[i] <= (IF i <= Len(costs) THEN costs[i] ELSE 0) + (IF i = j THEN price ELSE 0)
        <5> SUFFICES ASSUME NEW i \in 1 .. Len(lease)
                     PROVE  b[i] <= costs[i] + (IF i = j THEN price ELSE 0)
          BY <3>1, <4>2
        <5>1. CASE i = j BY <2>4, <3>3, <3>7, <4>2, <5>1
        <5>2. CASE i # j BY <3>1, <3>2, <4>2, <5>2
        <5>3. QED BY <5>1, <5>2
      <4>5. Len(costs) <= Len(b) BY <3>1, <4>2
      <4>6. Order!Total(b) <= Order!Total(costs) + price
        BY <2>4, <3>1, <4>2, <4>3, <4>4, <4>5, TotalGrows
      <4>7. Order!Total(costs) \in Nat BY <4>2, TotalIsNatural
      <4>8. ~ (Order!Total(costs) + price > Budget) BY <1>4, <4>1
      <4>9. Order!Total(b) <= Budget BY <2>4, <3>4, <3>6, <4>6, <4>7, <4>8
      <4>10. QED BY <4>9 DEF b
    <3>8. CASE m # month
      <4>1. \A i \in 1 .. Len(b) :
              b[i] <= (IF i <= Len(a) THEN a[i] ELSE 0) + (IF i = 0 THEN 0 ELSE 0)
        BY <2>4, <3>1, <3>2, <3>3, <3>8
      <4>2. Len(a) <= Len(b) BY <3>1
      <4> HIDE DEF a, b
      <4>3. Order!Total(b) <= Order!Total(a) + 0 BY <3>1, <4>1, <4>2, TotalGrows
      <4>4. Order!Total(b) <= Budget BY <3>4, <3>5, <3>6, <4>3
      <4>5. QED BY <4>4 DEF b
    <3>9. QED BY <3>7, <3>8
  <2>9. Cardinality(Order!Unasked') <= MaxQueued
    <3>1. /\ IsFiniteSet(Order!Unasked) /\ Cardinality(Order!Unasked) \in Nat
          /\ Cardinality(Order!Unasked) <= Order!Queued /\ Order!Queued \in Nat
      BY <2>1, FewWait
    <3>2. Order!Unasked' \subseteq Order!Unasked \cup {j}
      BY <2>2, <2>6 DEF Order!Unasked, Order!Reserved, LeaseForms
    <3>3. /\ IsFiniteSet(Order!Unasked \cup {j})
          /\ Cardinality(Order!Unasked \cup {j}) <= Cardinality(Order!Unasked) + 1
          /\ Cardinality(Order!Unasked \cup {j}) \in Nat
      <4> DEFINE T == Order!Unasked
      <4>1. IsFiniteSet(T) /\ Cardinality(T) \in Nat BY <3>1
      <4> HIDE DEF T
      <4>2. IsFiniteSet(T \cup {j}) BY <4>1, FS_AddElement
      <4>3. \/ Cardinality(T \cup {j}) = Cardinality(T)
            \/ Cardinality(T \cup {j}) = Cardinality(T) + 1
        BY <4>1, FS_AddElement
      <4>4. QED BY <4>1, <4>2, <4>3 DEF T
    <3>4. /\ Cardinality(Order!Unasked') <= Cardinality(Order!Unasked \cup {j})
          /\ Cardinality(Order!Unasked') \in Nat
      BY <3>2, <3>3, FS_Subset, FS_CardinalityType
    <3>5. MaxQueued \in Nat BY DEF Order!SubmissionAssumption
    <3>6. QED BY <1>4, <3>1, <3>3, <3>4, <3>5
  <2>10. QED BY <1>1, <2>7, <2>8, <2>9 DEF BudgetInv
<1>5. QED BY <1>2, <1>3, <1>4

LEMMA BudgetStep ==
  ASSUME Order!SubmissionAssumption, BudgetInv, [Order!Next]_Order!vars
  PROVE  BudgetInv'
<1>1. OrderInv' BY OrderStep DEF BudgetInv
<1>2. CASE UNCHANGED lease BY <1>1, <1>2, LeasesStay
<1>3. CASE UNCHANGED Order!vars BY <1>2, <1>3 DEF Order!vars
<1>4. CASE \/ Order!MonthPasses
           \/ \E o \in (1 .. MaxVersion) \cup {Nil} : Order!Offer(o)
           \/ \E k \in RunKeys : Order!ExpireKey(k)
           \/ \E c \in Calls :
                \/ \E k \in RunKeys, b \in Bodies, l \in Limits \cup {Nil} :
                     Order!Post(c, k, b, l)
                \/ Order!LookUpKey(c) \/ Order!CheckAgain(c) \/ Order!Abandon(c)
  BY <1>2, <1>4 DEF Order!MonthPasses, Order!Offer, Order!ExpireKey, Order!Post,
                    Order!LookUpKey, Order!CheckAgain, Order!Abandon
<1>5. CASE \E j \in DOMAIN job : LeaseSteps(j)
  <2>1. DOMAIN job = 1 .. Len(job) BY LenProperties DEF BudgetInv, OrderInv, OrderTypes
  <2>2. QED BY <1>1, <1>5, <2>1, LeaseGoesOn
<1>6. CASE \E c \in Calls : Order!CreateRun(c) BY <1>6, BudgetWithRun
<1>7. CASE \E c \in Calls : Order!Request(c) BY <1>7, BudgetWithRequest
<1>8. QED BY <1>3, <1>4, <1>5, <1>6, <1>7 DEF Order!Next, LeaseSteps

\* However many orders are served at once, and whatever the prices do between
\* the check and the reservation: no more leases wait for their first machine
\* than the policy allows, and the leases of a month cost no more than its budget and what they have
\* overrun their own reservations by (HostedComputeService.request and
\* finalizeUsage).
THEOREM BudgetsAlwaysHold ==
  ASSUME Order!SubmissionAssumption
  PROVE  Order!Spec => []BudgetHolds
<1>1. Order!Init => BudgetInv BY BudgetInit
<1>2. BudgetInv /\ [Order!Next]_Order!vars => BudgetInv' BY BudgetStep
<1>3. BudgetInv => BudgetHolds
  <2> SUFFICES ASSUME BudgetInv PROVE BudgetHolds OBVIOUS
  <2>1. Amounts /\ OrderTypes /\ month \in Nat
    BY AmountsAreNatural DEF BudgetInv, OrderInv, OrderTypes
  <2>2. Order!Cardinality(Order!Unasked) <= MaxQueued
    <3>1. \A T : Order!Cardinality(T) = Cardinality(T) BY DEF Order!Cardinality, Cardinality
    <3>2. QED BY <3>1 DEF BudgetInv
  <2>3. ASSUME NEW m \in 0 .. month
        PROVE  Order!Spent(m)
                 <= Budget + Order!Total([j \in DOMAIN lease |-> Order!Overrun(j, m)])
    <3> DEFINE a == Kept(m)
               b == Overruns(m)
               s == Costs(m)
    <3>1. m \in Nat BY <2>1
    <3>2. /\ a \in Seq(Nat) /\ b \in Seq(Nat) /\ s \in Seq(Nat)
          /\ Len(a) = Len(s) /\ Len(b) = Len(s)
          /\ \A i \in 1 .. Len(s) : s[i] = a[i] + b[i]
      BY <2>1, <3>1 DEF Amounts
    <3>3. Order!Total(a) <= Budget BY <3>1 DEF BudgetInv
    <3>4. Order!Spent(m) = Order!Total(s) BY DEF Order!Spent, Costs
    <3>5. [j \in DOMAIN lease |-> Order!Overrun(j, m)] = b BY DEF Overruns
    <3> HIDE DEF a, b, s
    <3>6. Order!Total(s) = Order!Total(a) + Order!Total(b) BY <3>2, TotalAdds
    <3>7. Order!Total(a) \in Nat /\ Order!Total(b) \in Nat BY <3>2, TotalIsNatural
    <3>8. Budget \in Nat BY DEF Order!SubmissionAssumption
    <3>9. Order!Spent(m) <= Budget + Order!Total(b) BY <3>3, <3>4, <3>6, <3>7, <3>8
    <3>10. QED BY <3>5, <3>9
  <2>4. QED BY <2>2, <2>3 DEF BudgetHolds, Order!BudgetHolds
<1>4. QED BY <1>1, <1>2, <1>3, PTL DEF Order!Spec

(***************************************************************************)
(* Optimizer.  The trials with a result are ranked by a total order, the   *)
(* first objective that differs and then the candidate, as no candidate is *)
(* tried twice.  So there is a best one, and whatever dominates it would   *)
(* be ranked before it.                                                    *)
(***************************************************************************)
Trials ==
  [candidate : Candidates, status : {"COMPLETED", "CACHED", "FAILED", "CANCELLED"},
   metrics : Metrics \cup {Nil}]

OptimizerTypes ==
  /\ todo \in Seq(Candidates) /\ trial \in Seq(Trials)
  /\ cache \in [Candidates -> Metrics \cup {Nil}]
  /\ spent \in [attempts : Nat, cost : Nat]
  /\ aborted \in BOOLEAN /\ exhausted \in BOOLEAN
  /\ stage \in {"next", "try", "done"} /\ objectives \in Objectives

TriedOnce ==
  /\ \A i, j \in DOMAIN todo : i # j => todo[i] # todo[j]
  /\ \A i, j \in DOMAIN trial : i # j => trial[i].candidate # trial[j].candidate
  /\ \A i \in DOMAIN trial, j \in DOMAIN todo : trial[i].candidate # todo[j]

Measures == \A i \in Optimizer!Completed : trial[i].metrics \in Metrics

Paid == {i \in DOMAIN trial : trial[i].status = "COMPLETED"}

\* What was spent before the last trial that was paid for.
WithinBudget ==
  /\ Len(trial) <= MaxTrials
  /\ stage = "try" => todo # <<>> /\ ~ Optimizer!BudgetReached
  /\ \A i \in Paid : (\A j \in Paid : i >= j) =>
       /\ MaxAttempts # Nil => spent.attempts - trial[i].metrics.attempts < MaxAttempts
       /\ MaxCost # Nil /\ trial[i].metrics.cost # Nil =>
            spent.cost - trial[i].metrics.cost < MaxCost

\* The loop ends early only when it says so.
EndsForAReason == stage = "done" /\ ~ aborted /\ ~ exhausted => todo = <<>>

OptimizerInv == OptimizerTypes /\ TriedOnce /\ Measures /\ WithinBudget /\ EndsForAReason

LEMMA WorthIsInteger ==
  ASSUME Optimizer!OptimizerAssumption, NEW m \in Metrics,
         NEW o \in {"correctness", "cost", "duration"}
  PROVE  Optimizer!Worth(m, o) \in Int
<1>1. m.success \in Int /\ m.cost \in Nat \cup {Nil} /\ m.duration \in Nat \cup {Nil}
  BY DEF Optimizer!OptimizerAssumption, Optimizer!Metric
<1>2. CASE o = "correctness" BY <1>1, <1>2 DEF Optimizer!Worth
<1>3. CASE o = "cost" BY <1>1, <1>3 DEF Optimizer!Worth, Optimizer!Unknown
<1>4. CASE o = "duration" BY <1>1, <1>4 DEF Optimizer!Worth, Optimizer!Unknown
<1>5. QED BY <1>2, <1>3, <1>4

\* What an objective says of a trial.
Value(i, k) == Optimizer!Worth(trial[i].metrics, objectives[k])

LEMMA ObjectivesAreKnown ==
  ASSUME Optimizer!OptimizerAssumption, OptimizerInv
  PROVE  /\ DOMAIN objectives = 1 .. Len(objectives) /\ Len(objectives) \in Nat \ {0}
         /\ \A i \in Optimizer!Completed, k \in DOMAIN objectives : Value(i, k) \in Int
<1>1. objectives \in Seq({"correctness", "cost", "duration"}) /\ objectives # <<>>
  BY DEF OptimizerInv, OptimizerTypes, Optimizer!OptimizerAssumption, Optimizer!Goals
<1>2. DOMAIN objectives = 1 .. Len(objectives) /\ Len(objectives) \in Nat \ {0} BY <1>1
<1>3. ASSUME NEW i \in Optimizer!Completed, NEW k \in DOMAIN objectives
      PROVE  Value(i, k) \in Int
  <2>1. trial[i].metrics \in Metrics BY DEF OptimizerInv, Measures
  <2>2. objectives[k] \in {"correctness", "cost", "duration"} BY <1>1, <1>2
  <2>3. QED BY <2>1, <2>2, WorthIsInteger DEF Value
<1>4. QED BY <1>2, <1>3

LEMMA CandidatesAreNumbers ==
  ASSUME Optimizer!OptimizerAssumption, OptimizerInv, NEW i \in Optimizer!Completed
  PROVE  i \in DOMAIN trial /\ trial[i].candidate \in Nat
<1>1. i \in DOMAIN trial BY DEF Optimizer!Completed
<1>2. trial[i] \in Trials BY <1>1 DEF OptimizerInv, OptimizerTypes
<1>3. QED BY <1>1, <1>2 DEF Trials, Optimizer!OptimizerAssumption

\* The comparison without a choice: at the first objective that differs the
\* first trial is better, or there is none and its candidate comes first.
LEMMA BeforeMeans ==
  ASSUME Optimizer!OptimizerAssumption, OptimizerInv,
         NEW i \in Optimizer!Completed, NEW j \in Optimizer!Completed
  PROVE  Optimizer!Before(i, j) <=>
           \/ /\ \A k \in DOMAIN objectives : Value(i, k) = Value(j, k)
              /\ trial[i].candidate < trial[j].candidate
           \/ \E k \in DOMAIN objectives :
                /\ \A l \in DOMAIN objectives : l < k => Value(i, l) = Value(j, l)
                /\ Value(i, k) > Value(j, k)
<1> DEFINE D == Optimizer!Differ(i, j)
           f == Optimizer!First(D)
<1>1. /\ DOMAIN objectives \subseteq Nat
      /\ \A k \in DOMAIN objectives : Value(i, k) \in Int /\ Value(j, k) \in Int
  BY ObjectivesAreKnown
<1>2. D = {k \in DOMAIN objectives : Value(i, k) # Value(j, k)} BY DEF Optimizer!Differ, Value
<1>3. CASE D = {}
  <2>1. Optimizer!Before(i, j) <=> trial[i].candidate < trial[j].candidate
    BY <1>3 DEF Optimizer!Before
  <2>2. \A k \in DOMAIN objectives : Value(i, k) = Value(j, k) BY <1>2, <1>3
  <2>3. QED BY <1>1, <2>1, <2>2
<1>4. CASE D # {}
  <2>1. Optimizer!Before(i, j) <=> Value(i, f) > Value(j, f)
    BY <1>4 DEF Optimizer!Before, Optimizer!Better, Value
  <2>2. f \in D /\ \A l \in D : f <= l
    <3> HIDE DEF D
    <3>1. D \in SUBSET Nat BY <1>1, <1>2
    <3>2. \E n \in D : \A m \in D : n <= m BY <1>4, <3>1, LeastNatural
    <3>3. QED BY <3>2 DEF Optimizer!First
  <2> HIDE DEF f, D
  <2>3. /\ f \in DOMAIN objectives /\ Value(i, f) # Value(j, f)
        /\ \A l \in DOMAIN objectives : l < f => Value(i, l) = Value(j, l)
    BY <1>1, <1>2, <2>2
  <2>4. ASSUME NEW k \in DOMAIN objectives, Value(i, k) > Value(j, k),
               \A l \in DOMAIN objectives : l < k => Value(i, l) = Value(j, l)
        PROVE  k = f
    BY <1>1, <2>3, <2>4
  <2>5. QED BY <2>1, <2>3, <2>4
<1>5. QED BY <1>3, <1>4

\* Of two different trials one is before the other.
LEMMA BeforeIsTotal ==
  ASSUME Optimizer!OptimizerAssumption, OptimizerInv,
         NEW i \in Optimizer!Completed, NEW j \in Optimizer!Completed, i # j
  PROVE  Optimizer!Before(i, j) \/ Optimizer!Before(j, i)
<1> DEFINE D == {k \in DOMAIN objectives : Value(i, k) # Value(j, k)}
<1>1. /\ DOMAIN objectives \subseteq Nat
      /\ \A k \in DOMAIN objectives : Value(i, k) \in Int /\ Value(j, k) \in Int
  BY ObjectivesAreKnown
<1>2. CASE D = {}
  <2>1. trial[i].candidate # trial[j].candidate
    BY DEF OptimizerInv, TriedOnce, Optimizer!Completed
  <2>2. trial[i].candidate \in Nat /\ trial[j].candidate \in Nat
    BY CandidatesAreNumbers
  <2>3. \A k \in DOMAIN objectives : Value(i, k) = Value(j, k) BY <1>2
  <2>4. CASE trial[i].candidate < trial[j].candidate BY <2>3, <2>4, BeforeMeans
  <2>5. CASE trial[j].candidate < trial[i].candidate BY <2>3, <2>5, BeforeMeans
  <2>6. QED BY <2>1, <2>2, <2>4, <2>5
<1>3. CASE D # {}
  <2>1. PICK k \in D : \A l \in D : k <= l
    <3>1. D \in SUBSET Nat BY <1>1
    <3> HIDE DEF D
    <3>2. QED BY <1>3, <3>1, LeastNatural
  <2>2. /\ k \in DOMAIN objectives /\ Value(i, k) # Value(j, k)
        /\ \A l \in DOMAIN objectives : l < k => Value(i, l) = Value(j, l)
    BY <1>1, <2>1
  <2>3. CASE Value(i, k) > Value(j, k) BY <2>2, <2>3, BeforeMeans
  <2>4. CASE Value(j, k) > Value(i, k) BY <2>2, <2>4, BeforeMeans
  <2>5. QED BY <1>1, <2>2, <2>3, <2>4
<1>4. QED BY <1>2, <1>3

LEMMA BeforeIsTransitive ==
  ASSUME Optimizer!OptimizerAssumption, OptimizerInv,
         NEW i \in Optimizer!Completed, NEW j \in Optimizer!Completed,
         NEW h \in Optimizer!Completed, Optimizer!Before(i, j), Optimizer!Before(j, h)
  PROVE  Optimizer!Before(i, h)
<1> DEFINE Same(a, b) == \A k \in DOMAIN objectives : Value(a, k) = Value(b, k)
           At(a, b, k) == /\ \A l \in DOMAIN objectives : l < k => Value(a, l) = Value(b, l)
                          /\ Value(a, k) > Value(b, k)
<1>1. /\ DOMAIN objectives \subseteq Nat
      /\ \A k \in DOMAIN objectives :
           Value(i, k) \in Int /\ Value(j, k) \in Int /\ Value(h, k) \in Int
  BY ObjectivesAreKnown
<1>2. \/ Same(i, j) /\ trial[i].candidate < trial[j].candidate
      \/ \E k \in DOMAIN objectives : At(i, j, k)
  BY BeforeMeans
<1>3. \/ Same(j, h) /\ trial[j].candidate < trial[h].candidate
      \/ \E k \in DOMAIN objectives : At(j, h, k)
  BY BeforeMeans
<1>4. CASE Same(i, j) /\ Same(j, h) /\ trial[i].candidate < trial[j].candidate
           /\ trial[j].candidate < trial[h].candidate
  <2>1. \A c \in {i, j, h} : trial[c].candidate \in Nat
    BY CandidatesAreNumbers
  <2>2. Same(i, h) /\ trial[i].candidate < trial[h].candidate BY <1>4, <2>1
  <2>3. QED BY <2>2, BeforeMeans
<1>5. ASSUME NEW k \in DOMAIN objectives, At(i, j, k), Same(j, h)
      PROVE  Optimizer!Before(i, h)
  <2>1. At(i, h, k) BY <1>5
  <2>2. QED BY <2>1, BeforeMeans
<1>6. ASSUME NEW k \in DOMAIN objectives, At(j, h, k), Same(i, j)
      PROVE  Optimizer!Before(i, h)
  <2>1. At(i, h, k) BY <1>6
  <2>2. QED BY <2>1, BeforeMeans
<1>7. ASSUME NEW k \in DOMAIN objectives, NEW l \in DOMAIN objectives,
             At(i, j, k), At(j, h, l)
      PROVE  Optimizer!Before(i, h)
  <2>1. CASE k <= l
    <3>1. Value(i, k) > Value(h, k) BY <1>1, <1>7, <2>1
    <3>2. \A n \in DOMAIN objectives : n < k => Value(i, n) = Value(h, n)
      BY <1>1, <1>7, <2>1
    <3>3. QED BY <3>1, <3>2, BeforeMeans
  <2>2. CASE l < k
    <3>1. Value(i, l) > Value(h, l) BY <1>1, <1>7, <2>2
    <3>2. \A n \in DOMAIN objectives : n < l => Value(i, n) = Value(h, n)
      BY <1>1, <1>7, <2>2
    <3>3. QED BY <3>1, <3>2, BeforeMeans
  <2>3. QED BY <1>1, <2>1, <2>2
<1>8. QED BY <1>2, <1>3, <1>4, <1>5, <1>6, <1>7

\* Completed trials, if there are any, have one that is before all others.
LEMMA BestExists ==
  ASSUME Optimizer!OptimizerAssumption, OptimizerInv, Optimizer!Completed # {}
  PROVE  /\ Optimizer!Best \in Optimizer!Completed
         /\ \A j \in Optimizer!Completed \ {Optimizer!Best} :
              Optimizer!Before(Optimizer!Best, j)
<1> DEFINE Done(n) == {i \in Optimizer!Completed : i <= n}
           HasBest(n) ==
             \/ Done(n) = {}
             \/ \E i \in Done(n) : \A j \in Done(n) \ {i} : Optimizer!Before(i, j)
           len == Len(trial)
           T == {n \in 0 .. len : HasBest(n)}
<1>1. len \in Nat /\ \A i \in Optimizer!Completed : i \in Nat /\ 1 <= i /\ i <= len
  <2>1. trial \in Seq(Trials) BY DEF OptimizerInv, OptimizerTypes
  <2>2. QED BY <2>1 DEF Optimizer!Completed
<1>2. 0 \in T
  <2>1. Done(0) = {} BY <1>1
  <2>2. QED BY <1>1, <2>1
<1>3. ASSUME NEW n \in 1 .. len, n - 1 \in T PROVE n \in T
  <2>1. HasBest(n - 1) BY <1>3
  <2>2. CASE n \notin Optimizer!Completed
    <3>1. Done(n) = Done(n - 1) BY <1>1, <2>2
    <3>2. QED BY <2>1, <3>1
  <2>3. CASE n \in Optimizer!Completed
    <3>1. Done(n) = Done(n - 1) \cup {n} /\ n \notin Done(n - 1)
      <4>1. \A i \in Optimizer!Completed : i <= n <=> i <= n - 1 \/ i = n BY <1>1
      <4>2. ~ n <= n - 1 /\ n <= n OBVIOUS
      <4>3. QED BY <2>3, <4>1, <4>2, Zenon
    <3>2. CASE Done(n - 1) = {} BY <3>1, <3>2
    <3>3. ASSUME NEW i \in Done(n - 1),
                 \A j \in Done(n - 1) \ {i} : Optimizer!Before(i, j)
          PROVE  HasBest(n)
      <4>1. i \in Optimizer!Completed /\ i # n BY <3>1
      <4>2. CASE Optimizer!Before(i, n)
        <5>1. i \in Done(n) /\ \A j \in Done(n) \ {i} : Optimizer!Before(i, j)
          BY <3>1, <3>3, <4>2
        <5>2. QED BY <5>1
      <4>3. CASE Optimizer!Before(n, i)
        <5>1. ASSUME NEW j \in Done(n) \ {n} PROVE Optimizer!Before(n, j)
          <6>1. j \in Done(n - 1) /\ j \in Optimizer!Completed BY <3>1
          <6>2. CASE j = i BY <4>3, <6>2
          <6>3. CASE j # i
            <7>1. Optimizer!Before(i, j) BY <3>3, <6>1, <6>3
            <7>2. QED BY <2>3, <4>1, <4>3, <6>1, <7>1, BeforeIsTransitive
          <6>4. QED BY <6>2, <6>3
        <5>2. n \in Done(n) BY <3>1
        <5>3. QED BY <5>1, <5>2
      <4>4. QED BY <2>3, <4>1, <4>2, <4>3, BeforeIsTotal
    <3>4. QED BY <2>1, <3>2, <3>3
  <2>4. QED BY <2>2, <2>3
<1>4. HasBest(len)
  <2> HIDE DEF HasBest
  <2>1. T \in SUBSET (0 .. len) OBVIOUS
  <2> HIDE DEF T
  <2>2. \A n \in 0 .. len : n \in T BY <1>1, <1>2, <1>3, <2>1, UpToAll
  <2> USE DEF T
  <2>3. QED BY <1>1, <2>2
<1>5. Done(len) = Optimizer!Completed BY <1>1
<1>6. \E i \in Optimizer!Completed : \A j \in Optimizer!Completed \ {i} : Optimizer!Before(i, j)
  BY <1>4, <1>5
<1>7. QED BY <1>6 DEF Optimizer!Best

\* Nothing dominates the best trial, or is better by the first objective.
LEMMA BestStands ==
  ASSUME Optimizer!OptimizerAssumption, OptimizerInv, Optimizer!Completed # {}
  PROVE  /\ Optimizer!Best \in Optimizer!Pareto
         /\ \A i \in Optimizer!Completed : Value(i, 1) <= Value(Optimizer!Best, 1)
<1> DEFINE b == Optimizer!Best
<1>1. b \in Optimizer!Completed
      /\ \A j \in Optimizer!Completed \ {b} : Optimizer!Before(b, j)
  BY BestExists
<1> HIDE DEF b
<1>2. /\ DOMAIN objectives = 1 .. Len(objectives) /\ Len(objectives) \in Nat \ {0}
      /\ \A i \in Optimizer!Completed, k \in DOMAIN objectives : Value(i, k) \in Int
  BY ObjectivesAreKnown
<1>3. ASSUME NEW j \in Optimizer!Completed, j # b
      PROVE  /\ Value(j, 1) <= Value(b, 1)
             /\ \/ \A k \in DOMAIN objectives : Value(b, k) = Value(j, k)
                \/ \E k \in DOMAIN objectives : Value(b, k) > Value(j, k)
  <2>1. \/ \A k \in DOMAIN objectives : Value(b, k) = Value(j, k)
        \/ \E k \in DOMAIN objectives :
             /\ \A l \in DOMAIN objectives : l < k => Value(b, l) = Value(j, l)
             /\ Value(b, k) > Value(j, k)
    BY <1>1, <1>3, BeforeMeans
  <2>2. 1 \in DOMAIN objectives BY <1>2
  <2>3. CASE \A k \in DOMAIN objectives : Value(b, k) = Value(j, k) BY <1>1, <1>2, <2>2, <2>3
  <2>4. ASSUME NEW k \in DOMAIN objectives, Value(b, k) > Value(j, k),
               \A l \in DOMAIN objectives : l < k => Value(b, l) = Value(j, l)
        PROVE  Value(j, 1) <= Value(b, 1)
    <3>1. CASE k = 1 BY <1>1, <1>2, <2>2, <2>4, <3>1
    <3>2. CASE k # 1
      <4>1. 1 < k BY <1>2, <3>2
      <4>2. Value(b, 1) = Value(j, 1) BY <2>2, <2>4, <4>1
      <4>3. QED BY <1>1, <1>2, <2>2, <4>2
    <3>3. QED BY <3>1, <3>2
  <2>5. QED BY <2>1, <2>3, <2>4
<1>4. ASSUME NEW j \in Optimizer!Completed
      PROVE  ~ Optimizer!Dominates(trial[j].metrics, trial[b].metrics)
  <2>1. Optimizer!Dominates(trial[j].metrics, trial[b].metrics) <=>
          /\ \A k \in DOMAIN objectives : Value(j, k) >= Value(b, k)
          /\ \E k \in DOMAIN objectives : Value(j, k) > Value(b, k)
    BY DEF Optimizer!Dominates, Value
  <2>2. CASE j = b BY <1>1, <1>2, <2>1, <2>2
  <2>3. CASE j # b BY <1>1, <1>2, <1>3, <2>1, <2>3
  <2>4. QED BY <2>2, <2>3
<1>5. ASSUME NEW j \in Optimizer!Completed PROVE Value(j, 1) <= Value(b, 1)
  <2>1. Value(b, 1) \in Int BY <1>1, <1>2
  <2>2. CASE j = b BY <2>1, <2>2
  <2>3. QED BY <1>3, <2>2
<1>6. QED BY <1>1, <1>4, <1>5 DEF b, Optimizer!Pareto

LEMMA OptimizerBegins ==
  ASSUME Optimizer!OptimizerAssumption, Optimizer!Init
  PROVE  OptimizerInv
<1>1. trial = <<>> /\ DOMAIN trial = {} /\ Len(trial) = 0 BY DEF Optimizer!Init
<1>2. todo \in Seq(Candidates) /\ \A i, j \in DOMAIN todo : i # j => todo[i] # todo[j]
  <2>1. todo \in [1 .. Cardinality(Candidates) -> Candidates]
    <3>1. todo \in Optimizer!Orders BY DEF Optimizer!Init
    <3> DEFINE all == [1 .. Cardinality(Candidates) -> Candidates]
               Sorted(order) == \A i, j \in DOMAIN order :
                 i < j => order[i] # order[j] /\ (i # 1 => order[i] < order[j])
    <3>2. Optimizer!Orders = {order \in all : Sorted(order)}
      BY DEF Optimizer!Orders, Optimizer!Cardinality, Cardinality
    <3> HIDE DEF all, Sorted
    <3>3. todo \in all BY <3>1, <3>2
    <3>4. QED BY <3>3 DEF all
  <2>2. \A i, j \in DOMAIN todo : i < j => todo[i] # todo[j]
    BY DEF Optimizer!Init, Optimizer!Orders
  <2>3. CASE Cardinality(Candidates) \in Nat
    <3>1. todo \in Seq(Candidates) /\ DOMAIN todo \subseteq Nat BY <2>1, <2>3
    <3>2. \A i, j \in DOMAIN todo : i # j => i < j \/ j < i BY <3>1
    <3>3. QED BY <2>2, <3>1, <3>2
  <2>4. Cardinality(Candidates) \in Nat
    <3>1. IsFiniteSet(Candidates)
      BY DEF Optimizer!OptimizerAssumption, Optimizer!IsFiniteSet, IsFiniteSet
    <3>2. QED BY <3>1, FS_CardinalityType
  <2>5. QED BY <2>3, <2>4
<1>3. OptimizerTypes
  <2>1. cache \in [Candidates -> Metrics \cup {Nil}] BY DEF Optimizer!Init
  <2>2. trial \in Seq(Trials) BY <1>1
  <2>3. spent \in [attempts : Nat, cost : Nat] BY DEF Optimizer!Init
  <2>4. QED BY <1>2, <2>1, <2>2, <2>3 DEF OptimizerTypes, Optimizer!Init
<1>4. TriedOnce BY <1>1, <1>2 DEF TriedOnce
<1>5. Measures BY <1>1 DEF Measures, Optimizer!Completed
<1>6. WithinBudget /\ EndsForAReason
  <2>1. Paid = {} BY <1>1 DEF Paid
  <2>2. stage = "next" BY DEF Optimizer!Init
  <2>3. QED BY <1>1, <2>1, <2>2
        DEF WithinBudget, EndsForAReason, Optimizer!OptimizerAssumption
<1>7. QED BY <1>3, <1>4, <1>5, <1>6 DEF OptimizerInv

\* What Record does: the head of what is to be tried becomes the last trial.
LEMMA RecordKeeps ==
  ASSUME Optimizer!OptimizerAssumption, OptimizerInv, todo # <<>>,
         NEW s \in {"COMPLETED", "CACHED", "FAILED", "CANCELLED"},
         NEW m \in Metrics \cup {Nil}, Optimizer!Record(s, m),
         s \in {"COMPLETED", "CACHED"} => m \in Metrics
  PROVE  /\ Head(todo) \in Candidates
         /\ todo' \in Seq(Candidates) /\ trial' \in Seq(Trials) /\ objectives' \in Objectives
         /\ TriedOnce' /\ Measures'
         /\ Len(trial') = Len(trial) + 1
         /\ \A i \in DOMAIN trial : trial'[i] = trial[i]
         /\ Len(trial) + 1 \in DOMAIN trial'
         /\ trial'[Len(trial) + 1].status = s /\ trial'[Len(trial) + 1].metrics = m
         /\ DOMAIN trial' = 1 .. Len(trial) + 1 /\ DOMAIN trial = 1 .. Len(trial)
         /\ Len(trial) \in Nat
<1> DEFINE new == [candidate |-> Head(todo), status |-> s, metrics |-> m]
           n == Len(trial) + 1
<1>1. todo \in Seq(Candidates) /\ trial \in Seq(Trials)
  BY DEF OptimizerInv, OptimizerTypes
<1>2. trial' = Append(trial, new) /\ todo' = Tail(todo) /\ objectives' = objectives
  BY DEF Optimizer!Record
<1>3. Head(todo) \in Candidates /\ todo' \in Seq(Candidates)
  /\ DOMAIN todo = 1 .. Len(todo) /\ DOMAIN todo' = 1 .. Len(todo) - 1
  /\ Len(todo) \in Nat \ {0} /\ Head(todo) = todo[1]
  /\ \A i \in DOMAIN todo' : todo'[i] = todo[i + 1]
  BY <1>1, <1>2
<1>4. new \in Trials BY <1>3 DEF Trials
<1> HIDE DEF new
<1>5. /\ trial' \in Seq(Trials) /\ Len(trial) \in Nat /\ Len(trial') = n
      /\ DOMAIN trial = 1 .. Len(trial) /\ DOMAIN trial' = 1 .. n
      /\ \A i \in DOMAIN trial : trial'[i] = trial[i]
      /\ trial'[n] = new
  BY <1>1, <1>2, <1>4
<1>6. n \in DOMAIN trial' /\ \A i \in DOMAIN trial' : i # n => i \in DOMAIN trial BY <1>5
<1>7. TriedOnce'
  <2>1. \A i \in DOMAIN todo' : i + 1 \in DOMAIN todo /\ i + 1 # 1 BY <1>3
  <2>2. \A i, j \in DOMAIN todo' : i # j => i + 1 # j + 1 BY <1>3
  <2>3. \A i, j \in DOMAIN todo' : i # j => todo'[i] # todo'[j]
    BY <1>3, <2>1, <2>2 DEF OptimizerInv, TriedOnce
  <2>4. new.candidate = todo[1] /\ 1 \in DOMAIN todo BY <1>3 DEF new
  <2>5. \A i \in DOMAIN trial : trial'[i].candidate # new.candidate
    BY <1>5, <2>4 DEF OptimizerInv, TriedOnce
  <2>6. \A i, j \in DOMAIN trial' : i # j => trial'[i].candidate # trial'[j].candidate
    BY <1>5, <1>6, <2>5 DEF OptimizerInv, TriedOnce
  <2>7. \A i \in DOMAIN trial', j \in DOMAIN todo' : trial'[i].candidate # todo'[j]
    BY <1>3, <1>5, <1>6, <2>1, <2>4 DEF OptimizerInv, TriedOnce
  <2>8. QED BY <2>3, <2>6, <2>7 DEF TriedOnce
<1>8. Measures'
  <2> SUFFICES ASSUME NEW i \in Optimizer!Completed' PROVE trial'[i].metrics \in Metrics
    BY DEF Measures
  <2>1. i \in DOMAIN trial' /\ trial'[i].status \in {"COMPLETED", "CACHED"}
    BY DEF Optimizer!Completed
  <2>2. CASE i = n BY <1>5, <2>1, <2>2 DEF new
  <2>3. CASE i # n
    <3>1. i \in DOMAIN trial /\ trial'[i] = trial[i] BY <1>5, <1>6, <2>1, <2>3
    <3>2. QED BY <2>1, <3>1 DEF OptimizerInv, Measures, Optimizer!Completed
  <2>4. QED BY <2>2, <2>3
<1>9. objectives' \in Objectives BY <1>2 DEF OptimizerInv, OptimizerTypes
<1>10. trial'[n].status = s /\ trial'[n].metrics = m BY <1>5 DEF new
<1>11. QED BY <1>3, <1>5, <1>6, <1>7, <1>8, <1>9, <1>10

LEMMA OptimizerStep ==
  ASSUME Optimizer!OptimizerAssumption, OptimizerInv, [Optimizer!Next]_Optimizer!vars
  PROVE  OptimizerInv'
<1> USE DEF OptimizerInv
<1>1. CASE UNCHANGED Optimizer!vars
  BY <1>1 DEF Optimizer!vars, OptimizerTypes, TriedOnce, Measures, WithinBudget,
              EndsForAReason, Paid, Optimizer!Completed, Optimizer!BudgetReached
<1>2. CASE Optimizer!Abort
  BY <1>2 DEF Optimizer!Abort, OptimizerTypes, TriedOnce, Measures, WithinBudget,
              EndsForAReason, Paid, Optimizer!Completed, Optimizer!BudgetReached
<1>3. ASSUME NEW late \in BOOLEAN, Optimizer!NextCandidate(late) PROVE OptimizerInv'
  <2>1. OptimizerTypes' BY <1>3 DEF Optimizer!NextCandidate, OptimizerTypes
  <2>2. TriedOnce' /\ Measures'
    BY <1>3 DEF Optimizer!NextCandidate, TriedOnce, Measures, Optimizer!Completed
  <2>3. WithinBudget'
    BY <1>3 DEF Optimizer!NextCandidate, WithinBudget, Paid, Optimizer!BudgetReached
  <2>4. EndsForAReason' BY <1>3 DEF Optimizer!NextCandidate, EndsForAReason
  <2>5. QED BY <2>1, <2>2, <2>3, <2>4
<1>4. stage = "try" => todo # <<>> /\ ~ Optimizer!BudgetReached /\ Len(trial) < MaxTrials
  <2>1. Len(trial) \in Nat BY DEF OptimizerTypes
  <2>2. QED BY <2>1 DEF WithinBudget, Optimizer!BudgetReached, Optimizer!OptimizerAssumption
\* A trial that is not paid for changes nothing about what was spent.
<1>5. ASSUME stage = "try", NEW s \in {"CACHED", "FAILED", "CANCELLED"},
             NEW m \in Metrics \cup {Nil}, Optimizer!Record(s, m), s = "CACHED" => m \in Metrics,
             stage' \in {"next", "done"}, stage' = "done" => aborted, UNCHANGED <<cache, spent>>
      PROVE  OptimizerInv'
  <2>1. /\ todo' \in Seq(Candidates) /\ trial' \in Seq(Trials) /\ objectives' \in Objectives
        /\ TriedOnce' /\ Measures'
        /\ Len(trial') = Len(trial) + 1 /\ Len(trial) \in Nat
        /\ \A i \in DOMAIN trial : trial'[i] = trial[i]
        /\ Len(trial) + 1 \in DOMAIN trial' /\ trial'[Len(trial) + 1].status = s
        /\ DOMAIN trial' = 1 .. Len(trial) + 1 /\ DOMAIN trial = 1 .. Len(trial)
    BY <1>4, <1>5, RecordKeeps
  <2>2. OptimizerTypes' BY <1>5, <2>1 DEF OptimizerTypes, Optimizer!Record
  <2>3. \A i \in DOMAIN trial' : i \in DOMAIN trial \/ i = Len(trial) + 1 BY <2>1
  <2>4. Paid' = Paid /\ Paid \subseteq DOMAIN trial BY <1>5, <2>1, <2>3 DEF Paid
  <2>5. WithinBudget'
    <3>1. Len(trial') <= MaxTrials
      BY <1>4, <1>5, <2>1 DEF Optimizer!OptimizerAssumption
    <3>2. \A i \in Paid : trial'[i] = trial[i] BY <2>1, <2>4
    <3>3. QED BY <1>5, <2>4, <3>1, <3>2 DEF WithinBudget
  <2>6. EndsForAReason' BY <1>5 DEF EndsForAReason, Optimizer!Record
  <2>7. QED BY <2>1, <2>2, <2>5, <2>6
<1>6. CASE Optimizer!Cached
  <2>1. Head(todo) \in Candidates
    BY <1>4, <1>6 DEF Optimizer!Cached, OptimizerTypes
  <2>2. cache[Head(todo)] \in Metrics
    BY <1>6, <2>1 DEF Optimizer!Cached, OptimizerTypes
  <2>3. QED BY <1>5, <1>6, <2>2 DEF Optimizer!Cached
<1>7. CASE Optimizer!Fail BY <1>5, <1>7 DEF Optimizer!Fail
<1>8. ASSUME NEW m \in Metrics, Optimizer!Complete(m) PROVE OptimizerInv'
  <2> DEFINE n == Len(trial) + 1
  <2>1. /\ Head(todo) \in Candidates
        /\ todo' \in Seq(Candidates) /\ trial' \in Seq(Trials) /\ objectives' \in Objectives
        /\ TriedOnce' /\ Measures'
        /\ Len(trial') = n /\ Len(trial) \in Nat
        /\ n \in DOMAIN trial' /\ trial'[n].status = "COMPLETED" /\ trial'[n].metrics = m
        /\ DOMAIN trial' = 1 .. n
    BY <1>4, <1>8, RecordKeeps DEF Optimizer!Complete
  <2>2. stage = "try" /\ stage' = "next" /\ aborted' = aborted /\ exhausted' = exhausted
        /\ cache' = [cache EXCEPT ![Head(todo)] = m]
        /\ spent' = [attempts |-> spent.attempts + m.attempts,
                     cost |-> spent.cost + (IF m.cost = Nil THEN 0 ELSE m.cost)]
    BY <1>8 DEF Optimizer!Complete, Optimizer!Record
  <2>3. m.attempts \in Nat /\ m.cost \in Nat \cup {Nil}
    BY DEF Optimizer!OptimizerAssumption, Optimizer!Metric
  <2>4. spent.attempts \in Nat /\ spent.cost \in Nat BY DEF OptimizerTypes
  <2>5. OptimizerTypes'
    <3>1. cache' \in [Candidates -> Metrics \cup {Nil}]
      BY <2>1, <2>2 DEF OptimizerTypes
    <3>2. spent' \in [attempts : Nat, cost : Nat] BY <2>2, <2>3, <2>4
    <3>3. /\ stage' \in {"next", "try", "done"}
          /\ aborted' \in BOOLEAN /\ exhausted' \in BOOLEAN
      BY <2>2 DEF OptimizerTypes
    <3>4. QED BY <2>1, <3>1, <3>2, <3>3 DEF OptimizerTypes
  <2>6. WithinBudget'
    <3>1. Len(trial') <= MaxTrials BY <1>4, <2>1, <2>2 DEF Optimizer!OptimizerAssumption
    <3>2. n \in Paid' BY <2>1 DEF Paid
    <3>3. \A i \in Paid' : (\A j \in Paid' : i >= j) => i = n
      BY <2>1, <3>2 DEF Paid
    <3>4. MaxAttempts # Nil => spent'.attempts - m.attempts < MaxAttempts
      BY <1>4, <2>2, <2>3, <2>4
      DEF Optimizer!BudgetReached, Optimizer!Reached, Optimizer!OptimizerAssumption
    <3>5. MaxCost # Nil /\ m.cost # Nil => spent'.cost - m.cost < MaxCost
      BY <1>4, <2>2, <2>3, <2>4
      DEF Optimizer!BudgetReached, Optimizer!Reached, Optimizer!OptimizerAssumption
    <3>6. QED BY <2>1, <2>2, <3>1, <3>3, <3>4, <3>5 DEF WithinBudget
  <2>7. EndsForAReason' BY <2>2 DEF EndsForAReason
  <2>8. QED BY <2>1, <2>5, <2>6, <2>7
<1>9. QED BY <1>1, <1>2, <1>3, <1>6, <1>7, <1>8 DEF Optimizer!Next

\* However the loop ends: what is recommended is dominated by no trial, and
\* none is better by the first objective; a budget is overshot by no more than
\* the last trial that was paid for; and only a run that has tried every
\* candidate is called complete (optimize, choose and dominates).
THEOREM RecommendationsStand ==
  ASSUME Optimizer!OptimizerAssumption
  PROVE  Optimizer!Spec => []RecommendationStands
<1>1. Optimizer!Init => OptimizerInv BY OptimizerBegins
<1>2. OptimizerInv /\ [Optimizer!Next]_Optimizer!vars => OptimizerInv' BY OptimizerStep
<1>3. OptimizerInv => RecommendationStands
  <2> SUFFICES ASSUME OptimizerInv PROVE RecommendationStands OBVIOUS
  <2> DEFINE last == Optimizer!Last(Paid)
  <2>1. Optimizer!Recommended # Nil =>
          /\ Optimizer!Recommended \in Optimizer!Pareto
          /\ \A i \in Optimizer!Completed :
               Value(i, 1) <= Value(Optimizer!Recommended, 1)
    BY BestStands DEF Optimizer!Recommended
  <2>2. Paid # {} => last \in Paid /\ \A j \in Paid : last >= j
    <3>1. \E n \in Nat : \A i \in Paid : i \in Nat /\ i <= n
      <4>1. Len(trial) \in Nat /\ DOMAIN trial = 1 .. Len(trial)
        BY DEF OptimizerInv, OptimizerTypes
      <4>2. QED BY <4>1 DEF Paid
    <3>2. PICK n \in Nat : \A i \in Paid : i \in Nat /\ i <= n BY <3>1
    <3>3. Paid # {} => \E i \in Paid : \A j \in Paid : i >= j
      <4> SUFFICES ASSUME Paid # {} PROVE \E i \in Paid : \A j \in Paid : i >= j OBVIOUS
      <4> DEFINE R == {n - i : i \in Paid}
      <4>1. R \in SUBSET Nat /\ R # {} BY <3>2
      <4>2. PICK k \in R : \A l \in R : k <= l
        <5> HIDE DEF R
        <5>1. QED BY <4>1, LeastNatural
      <4>3. PICK i \in Paid : k = n - i BY <4>2
      <4>4. \A j \in Paid : n - i <= n - j BY <4>2, <4>3
      <4>5. QED BY <3>2, <4>4
    <3>4. QED BY <3>3 DEF Optimizer!Last
  <2> HIDE DEF last
  <2>3. Len(trial) <= MaxTrials BY DEF OptimizerInv, WithinBudget
  <2>4. Paid # {} =>
          /\ MaxAttempts # Nil => spent.attempts - trial[last].metrics.attempts < MaxAttempts
          /\ MaxCost # Nil /\ trial[last].metrics.cost # Nil =>
               spent.cost - trial[last].metrics.cost < MaxCost
    BY <2>2 DEF OptimizerInv, WithinBudget
  <2>5. stage = "done" /\ Optimizer!Status = "COMPLETED" => todo = <<>>
    BY DEF OptimizerInv, EndsForAReason, Optimizer!Status
  <2>6. QED BY <2>1, <2>3, <2>4, <2>5
        DEF last, RecommendationStands, Optimizer!RecommendationStands, Paid, Value
<1>4. QED BY <1>1, <1>2, <1>3, PTL DEF Optimizer!Spec
=============================================================================
