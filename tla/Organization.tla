---------------------------- MODULE Organization ----------------------------
(***************************************************************************)
(* One organization of CloudService (packages/cloud-core): its members and *)
(* their roles, its API keys and runners, and the limits of its plan.      *)
(* Requests authorize the caller, read the entitlements and act in a       *)
(* transaction, each in a statement of its own, so that every check may be *)
(* stale when its consequence is committed.                                *)
(*                                                                         *)
(* A transaction runs at READ COMMITTED: SELECT ... FOR UPDATE sees the    *)
(* rows that were there when the statement began, and locks and returns    *)
(* their latest versions; rows inserted meanwhile are missing.  So the     *)
(* statement is two steps here.  What runners and keys do is in JobQueue,  *)
(* what becomes of hosted machines in HostedCompute: here they are rows of *)
(* runners that come and go.  A member of Plans stands for the             *)
(* entitlements of a plan with its overrides, which are read with it; no   *)
(* code writes overrides, so that one is a change of the plan here, which  *)
(* an operator makes.  Slugs, names, digests and the audit are left out.   *)
(***************************************************************************)
EXTENDS Integers, FiniteSets

CONSTANTS
  Users,      \* users that have signed in
  Keys,       \* API keys
  KeyScopes,  \* the permissions of every key
  Requests,   \* requests that run at the same time
  Assigned,   \* the role and state that requests give to members
  Plans,      \* the plans, with overrides, that the organization may have
  MaxMembers, \* max_members of each
  MaxRunners, \* max_runners of each
  MaxHosted,  \* bound on the hosted runners that are active at a time
  ApiAccess,  \* the plans with api_access
  None

Permissions == {"ORG_READ", "ORG_MANAGE", "MEMBER_MANAGE", "REPOSITORY_READ",
                "REPOSITORY_MANAGE", "BENCHMARK_RUN", "RUNNER_MANAGE",
                "API_KEY_MANAGE", "BILLING_MANAGE"}

Rows == [role : {"OWNER", "ADMIN", "MEMBER", "VIEWER"},
         state : {"ACTIVE", "REVOKED"}]

ASSUME OrganizationAssumption ==
  /\ IsFiniteSet(Users) /\ IsFiniteSet(Requests) /\ Requests # {}
  /\ Users \cap Keys = {} /\ KeyScopes \subseteq Permissions
  /\ Assigned \subseteq Rows
  /\ "COMMUNITY" \in Plans /\ ApiAccess \subseteq Plans
  /\ MaxMembers \in [Plans -> Nat \ {0}] /\ MaxRunners \in [Plans -> Nat]
  /\ MaxHosted \in Nat
  /\ None \notin Plans \cup Users \cup Nat /\ None \notin Rows

VARIABLES
  plan,    \* organizations.plan_id, None before the organization exists
  member,  \* memberships: role and state of each user that has a row
  key,     \* api_keys
  runners, \* how many runners are ACTIVE, registered by requests and hosted
  request, \* what each request is about, where it is and what it has read
  history  \* auxiliary: the plans that the organization has had

vars == <<plan, member, key, runners, request, history>>

Idle == [at |-> "idle"]

\* What a request knows at each of its steps; seen are the rows that its
\* SELECT finds, limit is that of the plan it has read.
RequestStates ==
  {Idle}
  \cup [at : {"authorized"}, kind : {"runner", "key"}]
  \cup [at : {"authorized"}, kind : {"member"}, user : Users, row : Assigned]
  \cup [at : {"entitled"}, kind : {"key"}]
  \cup [at : {"entitled"}, kind : {"runner"}, limit : Nat]
  \cup [at : {"entitled"}, kind : {"member"}, user : Users, row : Assigned, limit : Nat]
  \cup [at : {"selected"}, kind : {"member"}, user : Users, row : Assigned, limit : Nat,
        seen : SUBSET Users]
  \cup [at : {"counted"}, kind : {"runner"}]

TypeOK ==
  /\ plan \in Plans \cup {None}
  /\ member \in [Users -> Rows \cup {None}]
  /\ key \in [Keys -> {"absent", "active", "revoked"}]
  /\ runners \in [registered : Nat, hosted : Nat]
  /\ request \in [Requests -> RequestStates]
  /\ history \in SUBSET Plans

Init ==
  /\ plan = None
  /\ member = [u \in Users |-> None]
  /\ key = [k \in Keys |-> "absent"]
  /\ runners = [registered |-> 0, hosted |-> 0]
  /\ request = [r \in Requests |-> Idle]
  /\ history = {}

Active(u) == member[u] # None /\ member[u].state = "ACTIVE"
Owner(u) == Active(u) /\ member[u].role = "OWNER"
Members == {u \in Users : Active(u)}
Owners == {u \in Users : Owner(u)}
-----------------------------------------------------------------------------
(***************************************************************************)
(* Who may do what.                                                        *)
(***************************************************************************)
RolePermissions ==
  [OWNER  |-> Permissions,
   ADMIN  |-> Permissions \ {"BILLING_MANAGE"},
   MEMBER |-> {"ORG_READ", "REPOSITORY_READ", "BENCHMARK_RUN"},
   VIEWER |-> {"ORG_READ", "REPOSITORY_READ"}]

\* A key is accepted until it is revoked; what it may do was settled when it
\* was made, whatever became of the user who made it.
KeyAuthorized(k, permission) ==
  key[k] = "active" /\ permission \in KeyScopes

UserAuthorized(u, permission) ==
  Active(u) /\ permission \in RolePermissions[member[u].role]

Authorized(permission) ==
  \/ \E u \in Users : UserAuthorized(u, permission)
  \/ \E k \in Keys : KeyAuthorized(k, permission)

\* The organization is created on COMMUNITY with its first owner.
CreateOrganization(u) ==
  /\ plan = None
  /\ plan' = "COMMUNITY" /\ history' = {"COMMUNITY"}
  /\ member' = [member EXCEPT ![u] = [role |-> "OWNER", state |-> "ACTIVE"]]
  /\ UNCHANGED <<key, runners, request>>

\* The plan changes, by setPlan or by a subscription (Billing).  Nothing
\* that exceeds the limits of the new plan is taken back.
SetPlan(p) ==
  /\ plan \notin {None, p}
  /\ plan' = p /\ history' = history \cup {p}
  /\ UNCHANGED <<member, key, runners, request>>

-----------------------------------------------------------------------------
(***************************************************************************)
(* Memberships.                                                            *)
(***************************************************************************)
Become(r, next) == request' = [request EXCEPT ![r] = next]

\* PUT .../memberships, up to the authorization.
PutMembership(r, u, row) ==
  /\ request[r].at = "idle" /\ Authorized("MEMBER_MANAGE")
  /\ Become(r, [at |-> "authorized", kind |-> "member", user |-> u, row |-> row])
  /\ UNCHANGED <<plan, member, key, runners, history>>

\* entitlements(): the limit a request goes by is the one it reads here; a
\* key needs api_access.
Entitlements(r) ==
  LET q == request[r]
  IN /\ q.at = "authorized"
     /\ CASE q.kind = "member" -> Become(r, [at |-> "entitled", kind |-> "member",
               user |-> q.user, row |-> q.row, limit |-> MaxMembers[plan]])
          [] q.kind = "runner" -> Become(r, [at |-> "entitled", kind |-> "runner",
               limit |-> MaxRunners[plan]])
          [] q.kind = "key" -> Become(r, IF plan \in ApiAccess
               THEN [at |-> "entitled", kind |-> "key"] ELSE Idle)
     /\ UNCHANGED <<plan, member, key, runners, history>>

\* The SELECT of setMembership begins: these rows are visible to it.
SelectMembers(r) ==
  LET q == request[r]
  IN /\ q.at = "entitled" /\ q.kind = "member"
     /\ Become(r, [at |-> "selected", kind |-> "member", user |-> q.user,
                   row |-> q.row, limit |-> q.limit,
                   seen |-> {u \in Users : member[u] # None}])
     /\ UNCHANGED <<plan, member, key, runners, history>>

\* A slip: owners that are revoked count.
RemovesLastOwner_AnyState(q) ==
  /\ q.user \in q.seen \cap Owners
  /\ q.row # [role |-> "OWNER", state |-> "ACTIVE"]
  /\ Cardinality({u \in q.seen : member[u].role = "OWNER"}) = 1

\* The last active owner, as far as the visible rows tell, may not go.
RemovesLastOwner(q) ==
  /\ q.user \in q.seen \cap Owners
  /\ q.row # [role |-> "OWNER", state |-> "ACTIVE"]
  /\ Cardinality(q.seen \cap Owners) = 1

\* A slip: a revoked member comes back unchecked.
ExceedsLimit_NewRowsOnly(q) ==
  /\ q.row.state = "ACTIVE"
  /\ q.user \notin q.seen
  /\ Cardinality(q.seen \cap Members) >= q.limit

\* A member too many, as far as the visible rows tell.
ExceedsLimit(q) ==
  /\ q.row.state = "ACTIVE"
  /\ q.user \notin q.seen \cap Members
  /\ Cardinality(q.seen \cap Members) >= q.limit

\* It has locked the rows, whose latest versions it gets, and commits, or is
\* refused.  The row is inserted, or updated if it has appeared meanwhile.
SetMembership(r) ==
  LET q == request[r]
  IN /\ q.at = "selected"
     /\ IF RemovesLastOwner(q) \/ ExceedsLimit(q) THEN UNCHANGED member
        ELSE member' = [member EXCEPT ![q.user] = q.row]
     /\ Become(r, Idle)
     /\ UNCHANGED <<plan, key, runners, history>>
-----------------------------------------------------------------------------
(***************************************************************************)
(* Runners: counted in one statement, inserted in the next.  Those of      *)
(* hosted compute are counted too, and inserted whatever the limit.        *)
(***************************************************************************)
PostRunner(r) ==
  /\ request[r].at = "idle" /\ Authorized("RUNNER_MANAGE")
  /\ Become(r, [at |-> "authorized", kind |-> "runner"])
  /\ UNCHANGED <<plan, member, key, runners, history>>

CountRunners(r) ==
  /\ request[r].at = "entitled" /\ request[r].kind = "runner"
  /\ Become(r, IF runners.registered + runners.hosted >= request[r].limit
               THEN Idle ELSE [at |-> "counted", kind |-> "runner"])
  /\ UNCHANGED <<plan, member, key, runners, history>>

RegisterRunner(r) ==
  /\ request[r].at = "counted"
  /\ runners' = [runners EXCEPT !.registered = @ + 1]
  /\ Become(r, Idle)
  /\ UNCHANGED <<plan, member, key, history>>

\* A runner of either kind may be revoked by a request.
RevokeRunner ==
  /\ Authorized("RUNNER_MANAGE")
  /\ \/ /\ runners.registered > 0
        /\ runners' = [runners EXCEPT !.registered = @ - 1]
     \/ /\ runners.hosted > 0
        /\ runners' = [runners EXCEPT !.hosted = @ - 1]
  /\ UNCHANGED <<plan, member, key, request, history>>

\* provisionNext has got a machine and inserts its runner.
ProvisionHosted ==
  /\ plan # None /\ runners.hosted < MaxHosted
  /\ runners' = [runners EXCEPT !.hosted = @ + 1]
  /\ UNCHANGED <<plan, member, key, request, history>>

\* A hosted execution is cancelled, terminated or has failed.
RetireHosted ==
  /\ runners.hosted > 0
  /\ runners' = [runners EXCEPT !.hosted = @ - 1]
  /\ UNCHANGED <<plan, member, key, request, history>>
-----------------------------------------------------------------------------
(***************************************************************************)
(* API keys.  Only a user may make one.                                    *)
(***************************************************************************)
PostKey(r) ==
  /\ request[r].at = "idle" /\ \E u \in Users : UserAuthorized(u, "API_KEY_MANAGE")
  /\ Become(r, [at |-> "authorized", kind |-> "key"])
  /\ UNCHANGED <<plan, member, key, runners, history>>

CreateApiKey(r, k) ==
  /\ request[r].at = "entitled" /\ request[r].kind = "key"
  /\ key[k] = "absent"
  /\ key' = [key EXCEPT ![k] = "active"]
  /\ Become(r, Idle)
  /\ UNCHANGED <<plan, member, runners, history>>

RevokeApiKey(k) ==
  /\ key[k] = "active" /\ Authorized("API_KEY_MANAGE")
  /\ key' = [key EXCEPT ![k] = "revoked"]
  /\ UNCHANGED <<plan, member, runners, request, history>>

Next ==
  \/ \E u \in Users : CreateOrganization(u)
  \/ \E p \in Plans : SetPlan(p)
  \/ RevokeRunner \/ ProvisionHosted \/ RetireHosted
  \/ \E k \in Keys : RevokeApiKey(k)
  \/ \E r \in Requests :
       \/ \E u \in Users, row \in Assigned : PutMembership(r, u, row)
       \/ Entitlements(r) \/ SelectMembers(r) \/ SetMembership(r)
       \/ PostRunner(r) \/ CountRunners(r) \/ RegisterRunner(r)
       \/ PostKey(r) \/ \E k \in Keys : CreateApiKey(r, k)

Spec == Init /\ [][Next]_vars
-----------------------------------------------------------------------------
(***************************************************************************)
(* Properties.                                                             *)
(***************************************************************************)
\* setMembership locks all members before it looks for another owner, so
\* whatever requests run at once, an organization loses its last owner in one
\* way only: the owner was added after the statement of the request that
\* demotes it had begun, and is invisible to its check.
OnlyAnUnseenOwnerIsLost ==
  [][Owners # {} /\ Owners' = {} =>
       \E r \in Requests : /\ request[r].at = "selected"
                           /\ request'[r].at = "idle"
                           /\ request[r].user \notin request[r].seen]_vars

Greatest(limit) ==
  CHOOSE n \in {limit[p] : p \in history} : \A p \in history : limit[p] <= n

\* The limits are compared with rows that were read before the insertion,
\* and with a plan that was read before that.  What requests that run at once
\* can exceed the limits by is one less than their number, not more, and only
\* of the greatest limits that a plan of the organization has had.  Runners of
\* hosted compute are not held to a limit, but leave fewer to be registered.
ExcessIsBounded ==
  plan # None =>
    LET others == Cardinality(Requests) - 1
    IN /\ Cardinality(Members) <= Greatest(MaxMembers) + others
       /\ runners.registered <= Greatest(MaxRunners) + others

\* "Organization must retain an active owner." (setMembership refuses to
\* remove the last one): it does, of the owners it has seen.
OwnerRemains == plan # None => Owners # {}

\* "RBAC and live entitlements are evaluated in the service layer on every
\* access": the limits of the present plan hold.
LimitsHold ==
  plan # None => /\ Cardinality(Members) <= MaxMembers[plan]
                 /\ runners.registered + runners.hosted <= MaxRunners[plan]
=============================================================================
