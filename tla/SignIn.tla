------------------------------- MODULE SignIn -------------------------------
(***************************************************************************)
(* How callers get credentials.  A browser signs in: the API limits the    *)
(* rate, keeps an OAuth state in the memory of its process, takes it back  *)
(* at the callback, asks the provider for the profile and makes a session  *)
(* (packages/cloud-api, packages/cloud-core).  A GitHub Action exchanges   *)
(* an OIDC assertion (packages/github-integration/src/oidc.ts): the trust  *)
(* is read, the assertion verified, and its id and the credential inserted *)
(* in a transaction.                                                       *)
(*                                                                         *)
(* Time is one clock; cookies, digests and signatures are left out, and so *)
(* are assertions and states that nobody issued: they are refused.         *)
(***************************************************************************)
EXTENDS Integers, FiniteSets

CONSTANTS
  States,      \* OAuth states, each a fresh random value
  Callbacks,   \* requests to /auth/callback
  Assertions,  \* OIDC assertions
  Exchanges,   \* requests to exchange one
  Refs,        \* refs that assertions are about
  RefOf,       \* the ref of each
  StateLife, SessionLife, AssertionLife, CredentialLife,
  Window,      \* of the rate limit
  Limit,       \* logins in a window
  MaxClock,    \* bound: when the clock stops
  None

SignInAssumption ==
  /\ None \notin Nat /\ RefOf \in [Assertions -> Refs]
  /\ {StateLife, SessionLife, AssertionLife, CredentialLife, MaxClock} \subseteq Nat
  /\ Window \in Nat \ {0} /\ Limit \in Nat \ {0}

VARIABLES
  clock,
  oauthStates, \* the expiry of every state in the memory of the process, or None
  issued,      \* auxiliary: when each state was issued, or None
  bucket,      \* rate_limit_buckets: start and count, or None
  callback,    \* the callbacks: where they are and the state they brought
  session,     \* the session each callback has made, or None
  trust,       \* allowed_refs of the repository's trust, None if there is none
  exchange,    \* the exchanges: where they are, their assertion, what they read
  replays,     \* github_oidc_replays: the assertions that have been used
  credentials  \* github_action_credentials

vars == <<clock, oauthStates, issued, bucket, callback, session, trust,
          exchange, replays, credentials>>
browser == <<oauthStates, issued, bucket, callback, session>>
action == <<trust, exchange, replays, credentials>>

Init ==
  /\ clock = 0 /\ bucket = None /\ trust = None
  /\ oauthStates = [s \in States |-> None] /\ issued = oauthStates
  /\ callback = [c \in Callbacks |-> [at |-> "idle"]]
  /\ session = [c \in Callbacks |-> None]
  /\ exchange = [x \in Exchanges |-> [at |-> "idle"]]
  /\ replays = {} /\ credentials = {}

Tick == clock < MaxClock /\ clock' = clock + 1 /\ UNCHANGED browser /\ UNCHANGED action
-----------------------------------------------------------------------------
(***************************************************************************)
(* Signing in.                                                             *)
(***************************************************************************)
\* consumeRateLimit: the bucket that a request leaves, its window begun anew
\* if the old one has passed.  Counts beyond the limit are one.
ConsumeRateLimit ==
  IF bucket = None \/ (bucket # None /\ bucket.start <= clock - Window)
  THEN [start |-> clock, count |-> 1]
  ELSE [bucket EXCEPT !.count = IF @ > Limit THEN @ ELSE @ + 1]

\* GET /auth/login: within the limit, a state is issued.
Login(s) ==
  /\ issued[s] = None
  /\ bucket' = ConsumeRateLimit
  /\ IF bucket'.count > Limit THEN UNCHANGED <<oauthStates, issued>>
     ELSE /\ oauthStates' = [oauthStates EXCEPT ![s] = clock + StateLife]
          /\ issued' = [issued EXCEPT ![s] = clock]
  /\ UNCHANGED <<clock, callback, session>> /\ UNCHANGED action

\* A slip: the state stays in the memory.
Callback_KeepsState(c, s) ==
  /\ callback[c].at = "idle" /\ issued[s] # None
  /\ callback' = [callback EXCEPT ![c] =
       [at |-> IF oauthStates[s] # None /\ oauthStates[s] >= clock
               THEN "exchanging" ELSE "refused",
        state |-> s, since |-> clock]]
  /\ UNCHANGED <<clock, oauthStates, issued, bucket, session>> /\ UNCHANGED action

\* GET /auth/callback until the provider is asked: the state is taken out of
\* the memory before anything is awaited.
Callback(c, s) ==
  /\ callback[c].at = "idle" /\ issued[s] # None
  /\ callback' = [callback EXCEPT ![c] =
       [at |-> IF oauthStates[s] # None /\ oauthStates[s] >= clock
               THEN "exchanging" ELSE "refused",
        state |-> s, since |-> clock]]
  /\ oauthStates' = [oauthStates EXCEPT ![s] = None]
  /\ UNCHANGED <<clock, issued, bucket, session>> /\ UNCHANGED action

\* The provider knows the code, or refuses it; the user is inserted or updated.
Profile(c) ==
  /\ callback[c].at = "exchanging"
  /\ \E at \in {"user", "refused"} : callback' = [callback EXCEPT ![c].at = at]
  /\ UNCHANGED <<clock, oauthStates, issued, bucket, session>> /\ UNCHANGED action

CreateSession(c) ==
  /\ callback[c].at = "user"
  /\ session' = [session EXCEPT ![c] = clock + SessionLife]
  /\ callback' = [callback EXCEPT ![c].at = "signedIn"]
  /\ UNCHANGED <<clock, oauthStates, issued, bucket>> /\ UNCHANGED action

SignedIn(c) == session[c] # None /\ session[c] > clock

\* POST /api/v1/logout, with a session that is valid.
Logout(c) ==
  /\ SignedIn(c)
  /\ session' = [session EXCEPT ![c] = None]
  /\ UNCHANGED <<clock, oauthStates, issued, bucket, callback>> /\ UNCHANGED action

\* The process dies: its memory is gone, and so are its requests.
Restart ==
  /\ \E s \in States : oauthStates[s] # None
  /\ oauthStates' = [s \in States |-> None]
  /\ callback' = [c \in Callbacks |->
       IF callback[c].at \in {"exchanging", "user"}
       THEN [callback[c] EXCEPT !.at = "refused"] ELSE callback[c]]
  /\ exchange' = [x \in Exchanges |->
       IF exchange[x].at \in {"trusted", "verified"}
       THEN [exchange[x] EXCEPT !.at = "refused"] ELSE exchange[x]]
  /\ UNCHANGED <<clock, issued, bucket, session, trust, replays, credentials>>
-----------------------------------------------------------------------------
(***************************************************************************)
(* The GitHub Action.  Every assertion is issued when the clock starts.    *)
(***************************************************************************)
\* createTrust by a user who manages the organization; the request has a
\* session.  A later trust replaces the refs of the earlier one.
CreateTrust(c, refs) ==
  /\ SignedIn(c) /\ trust # refs
  /\ trust' = refs
  /\ UNCHANGED <<clock, exchange, replays, credentials>> /\ UNCHANGED browser

\* exchange reads the trust in a statement of its own.
ReadTrust(x, a) ==
  /\ exchange[x].at = "idle"
  /\ exchange' = [exchange EXCEPT ![x] =
       [at |-> IF trust = None THEN "refused" ELSE "trusted",
        assertion |-> a, refs |-> trust]]
  /\ UNCHANGED <<clock, trust, replays, credentials>> /\ UNCHANGED browser

\* It verifies the assertion and compares it with the refs it has read; no
\* refs stand for all.
Verify(x) ==
  /\ exchange[x].at = "trusted"
  /\ LET q == exchange[x]
         valid == /\ clock < AssertionLife
                  /\ q.refs = {} \/ RefOf[q.assertion] \in q.refs
     IN exchange' = [exchange EXCEPT ![x].at = IF valid THEN "verified" ELSE "refused"]
  /\ UNCHANGED <<clock, trust, replays, credentials>> /\ UNCHANGED browser

Least(m, n) == IF m < n THEN m ELSE n

\* The transaction: the id of the assertion is unique.
Issue(x) ==
  /\ exchange[x].at = "verified"
  /\ LET a == exchange[x].assertion
     IN IF a \in replays
        THEN /\ exchange' = [exchange EXCEPT ![x].at = "refused"]
             /\ UNCHANGED <<replays, credentials>>
        ELSE /\ replays' = replays \cup {a}
             /\ credentials' = credentials \cup
                  {[by |-> x, assertion |-> a, refs |-> exchange[x].refs,
                    expires |-> Least(AssertionLife, clock + CredentialLife)]}
             /\ exchange' = [exchange EXCEPT ![x].at = "issued"]
  /\ UNCHANGED <<clock, trust>> /\ UNCHANGED browser

Next ==
  \/ Tick \/ Restart
  \/ \E s \in States : Login(s)
  \/ \E c \in Callbacks :
       \/ \E s \in States : Callback(c, s)
       \/ Profile(c) \/ CreateSession(c) \/ Logout(c)
       \/ \E refs \in SUBSET Refs : CreateTrust(c, refs)
  \/ \E x \in Exchanges :
       \/ \E a \in Assertions : ReadTrust(x, a)
       \/ Verify(x) \/ Issue(x)

Spec == Init /\ [][Next]_vars
-----------------------------------------------------------------------------
(***************************************************************************)
(* Properties.                                                             *)
(***************************************************************************)
\* A state admits one callback, and only within its life; an assertion buys
\* one credential, for a ref that its exchange found trusted, which does not
\* outlive it.  Callbacks and exchanges run at once and processes restart.
SingleUse ==
  LET admitted == {c \in Callbacks : callback[c].at \in {"exchanging", "user", "signedIn"}}
  IN /\ \A c, d \in admitted : callback[c].state = callback[d].state => c = d
     /\ \A c \in admitted : callback[c].since <= issued[callback[c].state] + StateLife
     /\ \A k, l \in credentials : k.assertion = l.assertion => k = l
     /\ \A k \in credentials : /\ k.refs = {} \/ RefOf[k.assertion] \in k.refs
                               /\ k.expires <= AssertionLife
=============================================================================
