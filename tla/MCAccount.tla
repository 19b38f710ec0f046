----------------------------- MODULE MCAccount ------------------------------
(* The account of an organization on small instances: its members, keys    *)
(* and runners (Organization), its customer at the payment provider        *)
(* (Checkout), and how users and Actions get credentials (SignIn).  The    *)
(* three share no state, so a behaviour belongs to one of them, which      *)
(* "part" names; the others stay as they were.  Members and runners share  *)
(* the plan and the keys and nothing that changes the other's number, so   *)
(* that the requests of a behaviour are about one or the other.            *)
EXTENDS Organization, TLC

\* A plan with one member and no runner and no keys, and one with two members,
\* one runner and keys.
TwoPlans == {"COMMUNITY", "TEAM"}
Members2 == [COMMUNITY |-> 1, TEAM |-> 2]
Runners2 == [COMMUNITY |-> 0, TEAM |-> 1]

\* An owner, an administrator, and the removal of an owner.
Assignments == {[role |-> "OWNER", state |-> "ACTIVE"],
                [role |-> "ADMIN", state |-> "ACTIVE"],
                [role |-> "OWNER", state |-> "REVOKED"]}

CONSTANTS
  Checkouts, OrderKeys, Prices, MaxDays,
  States, Callbacks, Assertions, Exchanges, Refs, RefOf,
  StateLife, SessionLife, AssertionLife, CredentialLife, Window, Limit, MaxClock

VARIABLES
  part,
  customer, operation, lock, checkout, customers, sessions, memory, days,
  clock, oauthStates, issued, bucket, callback, session, trust, exchange,
  replays, credentials

checkoutVars == <<customer, operation, lock, checkout, customers, sessions, memory, days>>
signInVars == <<clock, oauthStates, issued, bucket, callback, session, trust,
                exchange, replays, credentials>>

\* Every assertion is about one and the same ref.
OneRef == [a \in Assertions |-> CHOOSE r \in Refs : TRUE]

C == INSTANCE Checkout
S == INSTANCE SignIn

ASSUME AccountAssumption == C!CheckoutAssumption /\ S!SignInAssumption

AccountInit == Init /\ C!Init /\ S!Init /\ part \in {"members", "runners", "checkout", "signIn"}

\* The requests that are under way are about these.
About(kinds) == \A r \in Requests : request[r] # Idle => request[r].kind \in kinds

AccountNext ==
  /\ UNCHANGED part
  /\ \/ /\ part = "members" /\ UNCHANGED runners
        /\ Next /\ About({"member", "key"})'
        /\ UNCHANGED <<checkoutVars, signInVars>>
     \/ /\ part = "runners" /\ Next /\ About({"runner", "key"})'
        /\ UNCHANGED <<checkoutVars, signInVars>>
     \/ part = "checkout" /\ C!Next /\ UNCHANGED <<vars, signInVars>>
     \/ part = "signIn" /\ S!Next /\ UNCHANGED <<vars, checkoutVars>>

AccountSpec == AccountInit /\ [][AccountNext]_<<part, vars, checkoutVars, signInVars>>

\* Users, requests, states, callbacks and exchanges are each alike.  A
\* behaviour belongs to one part, so one permutation may exchange values of
\* several parts at once.
SwapsOf(sets) ==
  LET swap(E) == CHOOSE p \in Permutations(E) : \A x \in E : p[x] # x
      all == UNION sets
  IN {[x \in all |-> x],
      [x \in all |-> LET E == CHOOSE T \in sets : x \in T IN swap(E)[x]]}

Pairs == {E \in SUBSET Users : Cardinality(E) = 2}
Symmetry == UNION {SwapsOf({E, States}) : E \in Pairs}
              \cup SwapsOf({Requests, Callbacks, Exchanges})

\* CheckoutsAgree of Checkout, about BillingService.checkout.
CheckoutsAgree == C!CheckoutsAgree

\* SingleUse of SignIn, about /auth and the exchange of OIDC assertions.
SingleUse == S!SingleUse
=============================================================================
