---------------------------- MODULE GitHubChecks ----------------------------
(***************************************************************************)
(* GitHubIntegration.markRunStarted and publishRun for one run, its check  *)
(* and its pull request, with the requests they make through               *)
(* GitHubProvider (packages/github-provider).  Nothing in the repository   *)
(* calls the two yet, so they run whenever their caller likes, at once and *)
(* again after a failure; every request may fail, or succeed and lose its  *)
(* answer.  The check was made by GitHubDelivery; tokens are in            *)
(* GitHubTokens.                                                           *)
(***************************************************************************)
EXTENDS Integers, FiniteSets, Sequences

CONSTANTS
  Publishers, \* calls of publishRun
  Starters,   \* calls of markRunStarted
  PageSize,   \* comments that one listing returns, per_page
  MaxOthers   \* bound on the comments that people write

ChecksAssumption ==
  /\ PageSize \in Nat \ {0} /\ MaxOthers \in Nat
  /\ Publishers \cap Starters = {}

VARIABLES
  run,       \* benchmark_runs.state
  active,    \* whether the installation is ACTIVE, here and at GitHub
  row,       \* github_check_runs.status
  managed,   \* github_managed_comments: the comment that is named, 0 without one
  check,     \* at GitHub: the status of the check
  comments,  \* at GitHub: the comments of the pull request, oldest first
  publisher, \* where each publishRun is, and the comments it has seen
  starter    \* where each markRunStarted is

vars == <<run, active, row, managed, check, comments, publisher, starter>>

Init ==
  /\ run = "RUNNING" /\ active = TRUE
  /\ row = "queued" /\ check = "queued"
  /\ managed = 0 /\ comments = <<>>
  /\ publisher = [p \in Publishers |-> [at |-> "idle"]]
  /\ starter = [s \in Starters |-> "idle"]

Marked == {i \in DOMAIN comments : comments[i].marked}
Others == DOMAIN comments \ Marked
-----------------------------------------------------------------------------
(***************************************************************************)
(* What happens around them.                                               *)
(***************************************************************************)
CompleteRun ==
  /\ run = "RUNNING" /\ run' = "COMPLETED"
  /\ UNCHANGED <<active, row, managed, check, comments, publisher, starter>>

Suspend ==
  /\ active' = ~ active
  /\ UNCHANGED <<run, row, managed, check, comments, publisher, starter>>

SomeoneComments ==
  /\ Cardinality(Others) < MaxOthers
  /\ comments' = Append(comments, [marked |-> FALSE, seen |-> 0])
  /\ UNCHANGED <<run, active, row, managed, check, publisher, starter>>
-----------------------------------------------------------------------------
(***************************************************************************)
(* markRunStarted                                                          *)
(***************************************************************************)
ReadQueued(s) ==
  /\ starter[s] = "idle" /\ row = "queued" /\ active
  /\ starter' = [starter EXCEPT ![s] = "read"]
  /\ UNCHANGED <<run, active, row, managed, check, comments, publisher>>

\* The check at GitHub starts, whatever has become of it; the answer may be
\* lost.
StartCheck(s) ==
  /\ starter[s] = "read" /\ active
  /\ check' = "in_progress"
  /\ \E at \in {"started", "failed"} : starter' = [starter EXCEPT ![s] = at]
  /\ UNCHANGED <<run, active, row, managed, comments, publisher>>

WriteStarted(s) ==
  /\ starter[s] = "started"
  /\ row' = IF row = "queued" THEN "in_progress" ELSE row
  /\ starter' = [starter EXCEPT ![s] = "done"]
  /\ UNCHANGED <<run, active, managed, check, comments, publisher>>

AbandonStart(s) ==
  /\ starter[s] \in {"read", "started"}
  /\ starter' = [starter EXCEPT ![s] = "failed"]
  /\ UNCHANGED <<run, active, row, managed, check, comments, publisher>>
-----------------------------------------------------------------------------
(***************************************************************************)
(* publishRun                                                              *)
(***************************************************************************)
Moves(p, at) == publisher' = [publisher EXCEPT ![p].at = at]

ReadCompleted(p) ==
  /\ publisher[p].at = "idle" /\ run = "COMPLETED" /\ active
  /\ Moves(p, "read")
  /\ UNCHANGED <<run, active, row, managed, check, comments, starter>>

CompleteCheck(p) ==
  /\ publisher[p].at = "read" /\ active
  /\ check' = "completed"
  /\ Moves(p, "checked") \/ Moves(p, "failed")
  /\ UNCHANGED <<run, active, row, managed, comments, starter>>

WriteCompleted(p) ==
  /\ publisher[p].at = "checked"
  /\ row' = "completed"
  /\ Moves(p, "written")
  /\ UNCHANGED <<run, active, managed, check, comments, starter>>

\* upsertPullRequestComment: one page of comments, the oldest ones, is read.
\* The first marked one is edited, which changes no number here.
ListComments(p) ==
  /\ publisher[p].at = "written" /\ active
  /\ LET page == {i \in Marked : i <= PageSize}
     IN publisher' = [publisher EXCEPT ![p] =
          [at |-> "listed", seen |-> Len(comments),
           comment |-> IF page = {} THEN 0
                       ELSE CHOOSE i \in page : \A j \in page : i <= j]]
  /\ UNCHANGED <<run, active, row, managed, check, comments, starter>>

\* A slip: a comment is made each time.
UpsertComment_Insert(p) ==
  /\ publisher[p].at = "listed" /\ active
  /\ comments' = Append(comments, [marked |-> TRUE, seen |-> publisher[p].seen])
  /\ \E at \in {"commented", "failed"} :
       publisher' = [publisher EXCEPT ![p].at = at, ![p].comment = Len(comments')]
  /\ UNCHANGED <<run, active, row, managed, check, starter>>

\* Without one a comment is made.  The answer may be lost.
UpsertComment(p) ==
  /\ publisher[p].at = "listed" /\ active
  /\ LET known == publisher[p].comment
     IN /\ comments' = IF known # 0 THEN comments
                       ELSE Append(comments, [marked |-> TRUE, seen |-> publisher[p].seen])
        /\ \E at \in {"commented", "failed"} :
             publisher' = [publisher EXCEPT ![p].at = at,
               ![p].comment = IF known # 0 THEN known ELSE Len(comments')]
  /\ UNCHANGED <<run, active, row, managed, check, starter>>

RecordComment(p) ==
  /\ publisher[p].at = "commented"
  /\ managed' = publisher[p].comment
  /\ Moves(p, "done")
  /\ UNCHANGED <<run, active, row, check, comments, starter>>

\* A request or a statement fails without effect, or the process dies.
AbandonPublish(p) ==
  /\ publisher[p].at \notin {"idle", "done", "failed"}
  /\ Moves(p, "failed")
  /\ UNCHANGED <<run, active, row, managed, check, comments, starter>>

Next ==
  \/ CompleteRun \/ Suspend \/ SomeoneComments
  \/ \E s \in Starters : \/ ReadQueued(s) \/ StartCheck(s)
                         \/ WriteStarted(s) \/ AbandonStart(s)
  \/ \E p \in Publishers :
       \/ ReadCompleted(p) \/ CompleteCheck(p) \/ WriteCompleted(p)
       \/ ListComments(p) \/ UpsertComment(p) \/ RecordComment(p)
       \/ AbandonPublish(p)

Spec == Init /\ [][Next]_vars
-----------------------------------------------------------------------------
(***************************************************************************)
(* Properties.                                                             *)
(***************************************************************************)
\* However often a run is published, at once or again after an answer was
\* lost, a pull request gets a second marked comment in two ways only: the
\* first one was made after the comments had been listed for the second, or
\* it is not on the page that is listed.
DuplicatesHaveACause ==
  \A i, j \in Marked : i < j => i > comments[j].seen \/ i > PageSize

\* "Checks follow queued -> in_progress -> completed" (documentation): a
\* completed check stays so.  It does not, if a run is marked as started by a
\* call that has read its row before the run was published.
ChecksMoveForward == [][check = "completed" => check' = "completed"]_vars

\* "RepoArena updates one mapped Check Run and one marked PR comment"
\* (documentation).
OneMarkedComment == Cardinality(Marked) <= 1
=============================================================================
