---------------------------- MODULE GitHubTokens ----------------------------
(***************************************************************************)
(* GitHubProvider's requests for one installation (packages/               *)
(* github-provider) and the token they share: it is kept until shortly     *)
(* before it expires, or until a request is refused with it; callers that  *)
(* need one while one is asked for wait for the same answer.               *)
(*                                                                         *)
(* GitHub may revoke all tokens, as it does when an installation is        *)
(* suspended, and will issue new ones.  The continuations that run when a  *)
(* token arrives are one step: no other code of the process comes between  *)
(* them.                                                                   *)
(***************************************************************************)
EXTENDS Integers, FiniteSets

CONSTANTS
  Callers,        \* requests, each of which is made once and repeated once
  MaxRevocations, \* bound on the revocations
  MaxTokens,      \* bound on the tokens that are issued
  None

TokensAssumption == None \notin Nat /\ {MaxRevocations, MaxTokens} \subseteq Nat

VARIABLES
  tokens,  \* the token that is kept, and whether it is still far from expiry
  pending, \* whether a token is asked for, or has been issued and is underway
  caller,  \* where each request is
  issued,  \* at GitHub: how many tokens have been issued
  valid,   \* at GitHub: the tokens that are accepted
  revocations

vars == <<tokens, pending, caller, issued, valid, revocations>>

Nothing == [token |-> None, fresh |-> FALSE]
Idle == [at |-> "idle", token |-> None]

Init ==
  /\ tokens = Nothing /\ pending = Idle
  /\ caller = [c \in Callers |->
       [at |-> "idle", token |-> None, retry |-> TRUE, sure |-> FALSE]]
  /\ issued = 0 /\ valid = {} /\ revocations = 0

\* The token that is underway was revoked after GitHub issued it.
Doomed == pending.at = "underway" /\ pending.token \notin valid

\* A request begins.  It is sure of a valid token unless a revoked one is
\* underway, or GitHub revokes them before it is done.
Begin(c) ==
  /\ caller[c].at = "idle"
  /\ caller' = [caller EXCEPT ![c].at = "needs", ![c].sure = ~ Doomed]
  /\ UNCHANGED <<tokens, pending, issued, valid, revocations>>

\* installationToken: the token that is kept, the one that is asked for, or a
\* request for a new one.
InstallationToken(c) ==
  /\ caller[c].at = "needs"
  /\ \/ /\ tokens.fresh
        /\ caller' = [caller EXCEPT ![c].at = "has", ![c].token = tokens.token]
        /\ UNCHANGED pending
     \/ /\ ~ tokens.fresh /\ pending # Idle
        /\ caller' = [caller EXCEPT ![c].at = "waits"]
        /\ UNCHANGED pending
     \/ /\ ~ tokens.fresh /\ pending = Idle
        /\ pending' = [at |-> "asked", token |-> None]
        /\ caller' = [caller EXCEPT ![c].at = "asking"]
  /\ UNCHANGED <<tokens, issued, valid, revocations>>

Issue ==
  /\ pending.at = "asked" /\ issued < MaxTokens
  /\ issued' = issued + 1 /\ valid' = valid \cup {issued + 1}
  /\ pending' = [at |-> "underway", token |-> issued + 1]
  /\ UNCHANGED <<tokens, caller, revocations>>

Concerned(c) == caller[c].at \in {"asking", "waits"}

\* The token arrives, is kept, and everybody who waits for it has it ...
Arrive ==
  /\ pending.at = "underway"
  /\ tokens' = [token |-> pending.token, fresh |-> TRUE]
  /\ pending' = Idle
  /\ caller' = [c \in Callers |-> IF Concerned(c)
       THEN [caller[c] EXCEPT !.at = "has", !.token = pending.token] ELSE caller[c]]
  /\ UNCHANGED <<issued, valid, revocations>>

\* ... or the request for it fails, and everybody with it.
Fail ==
  /\ pending # Idle /\ pending' = Idle
  /\ caller' = [c \in Callers |-> IF Concerned(c)
       THEN [caller[c] EXCEPT !.at = "failed"] ELSE caller[c]]
  /\ UNCHANGED <<tokens, issued, valid, revocations>>

\* A slip: the token that was refused is kept.
Send_KeepsToken(c) ==
  /\ caller[c].at = "has"
  /\ caller' = [caller EXCEPT
       ![c].at = IF caller[c].token \in valid THEN "done"
                 ELSE IF caller[c].retry THEN "needs" ELSE "refused",
       ![c].retry = FALSE]
  /\ UNCHANGED <<tokens, pending, issued, valid, revocations>>

\* request: a refusal drops the token that is kept, whichever it is, and the
\* request is repeated, once.
Send(c) ==
  /\ caller[c].at = "has"
  /\ LET q == caller[c]
         again == q.token \notin valid /\ q.retry
     IN /\ caller' = [caller EXCEPT
             ![c].at = IF q.token \in valid THEN "done"
                       ELSE IF again THEN "needs" ELSE "refused",
             ![c].retry = @ /\ ~ again]
        /\ tokens' = IF again THEN Nothing ELSE tokens
  /\ UNCHANGED <<pending, issued, valid, revocations>>

\* Less than a minute is left.
Age ==
  /\ tokens.fresh /\ tokens' = [tokens EXCEPT !.fresh = FALSE]
  /\ UNCHANGED <<pending, caller, issued, valid, revocations>>

\* invalidateInstallationToken, when an installation is suspended or removed.
Invalidate ==
  /\ tokens # Nothing /\ tokens' = Nothing
  /\ UNCHANGED <<pending, caller, issued, valid, revocations>>

Revoke ==
  /\ valid # {} /\ revocations < MaxRevocations
  /\ valid' = {} /\ revocations' = revocations + 1
  /\ caller' = [c \in Callers |-> [caller[c] EXCEPT !.sure = FALSE]]
  /\ UNCHANGED <<tokens, pending, issued>>

Next ==
  \/ Issue \/ Arrive \/ Fail \/ Age \/ Invalidate \/ Revoke
  \/ \E c \in Callers : Begin(c) \/ InstallationToken(c) \/ Send(c)

Spec == Init /\ [][Next]_vars
-----------------------------------------------------------------------------
(***************************************************************************)
(* Properties.                                                             *)
(***************************************************************************)
\* "refreshed without request stampedes" (documentation): at most one token
\* is asked for at a time, by somebody who waits for it; and after the tokens
\* have been revoked, no request that begins is refused, whatever token was
\* kept, unless a revoked one was underway.
TokensRecover ==
  /\ Cardinality({c \in Callers : caller[c].at = "asking"}) = (IF pending = Idle THEN 0 ELSE 1)
  /\ \A c \in Callers : Concerned(c) => pending # Idle
  /\ \A c \in Callers : caller[c].at = "refused" => ~ caller[c].sure
=============================================================================
