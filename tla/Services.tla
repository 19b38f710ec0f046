------------------------------ MODULE Services ------------------------------
(* The services around a run that ServiceProofs is about.  An organization *)
(* has a catalogue of tasks (Catalogue), orders a run of them (Submission) *)
(* and walks through its runs (RunPages); what becomes public is a page    *)
(* (Publishing), and a check and a comment on GitHub (GitHubChecks), by    *)
(* requests with tokens (GitHubTokens); and the local program optimizes    *)
(* (Optimizer) and keeps reports (LocalReports).  They share no state.     *)
CONSTANTS
  Nil,
  Calls, RunKeys, Bodies, Limits, MaxVersion, MaxQueued, MaxActive, Budget, MaxMonths, Minutes,
  Tenants, Repositories, TaskKeys, Contents, Reports, Writers, MaxRows, MaxBenchmarks,
  Runs, Visits, TaskSetOf, MaxIds,
  Publishers, Starters, PageSize, MaxOthers,
  Callers, MaxRevocations, MaxTokens,
  Clients, Ids, PerMilli,
  Scanners, Readers, RepositoryStates, MaxTime,
  Candidates, Metrics, Objectives, MaxTrials, MaxAttempts, MaxCost

VARIABLES
  keyRow, job, lease, call, offered, month,
  owner, task, version, benchmark, report, writer,
  completed, visibility, repository, publication, visit, ids, published, withdrawn,
  run, active, checkRow, managed, check, comments, publisher, starter,
  tokens, pending, caller, tokensIssued, validTokens, revocations,
  created, now, walk,
  state, time, file, latest, scanner, reader,
  todo, trial, cache, spent, aborted, stage, exhausted, objectives

orderVars == <<keyRow, job, lease, call, offered, month>>
catalogueVars == <<owner, task, version, benchmark, report, writer>>
pageVars ==
  <<completed, visibility, repository, publication, visit, ids, published, withdrawn>>
checkVars == <<run, active, checkRow, managed, check, comments, publisher, starter>>
tokenVars == <<tokens, pending, caller, tokensIssued, validTokens, revocations>>
walkVars == <<created, now, walk>>
reportVars == <<state, time, file, latest, scanner, reader>>
optimizerVars == <<todo, trial, cache, spent, aborted, stage, exhausted, objectives>>

Order == INSTANCE Submission WITH None <- Nil
Catalogue == INSTANCE Catalogue WITH None <- Nil, repository <- owner
Page == INSTANCE Publishing WITH None <- Nil, Requests <- Visits, request <- visit,
                                 clock <- published
Check == INSTANCE GitHubChecks WITH row <- checkRow
Token == INSTANCE GitHubTokens WITH None <- Nil, issued <- tokensIssued,
                                    valid <- validTokens
Walk == INSTANCE RunPages WITH None <- Nil
Local == INSTANCE LocalReports WITH None <- Nil, States <- RepositoryStates
Optimizer == INSTANCE Optimizer WITH None <- Nil, at <- stage

\* OneOrderPerKey and BudgetHolds of Submission, about createRun and request;
\* and what may be expected of the queue.
OneOrderPerKey == Order!OneOrderPerKey
BudgetHolds == Order!BudgetHolds
QueueIsCapped == Order!QueueIsCapped

\* CatalogueAgrees of Catalogue, about createTaskVersion, createBenchmark and
\* the reports.
CatalogueAgrees == Catalogue!CatalogueAgrees

\* AnswersServe of Publishing, about publish, unpublish, latestRepository and
\* the leaderboard; and what may be expected of the latter.
AnswersServe == Page!AnswersServe
RankIsTheRuns == Page!RankIsTheRuns

\* DuplicatesHaveACause of GitHubChecks, about publishRun; and what the
\* documentation says of checks and comments.
DuplicatesHaveACause == Check!DuplicatesHaveACause
ChecksMoveForward == Check!ChecksMoveForward
OneMarkedComment == Check!OneMarkedComment

\* TokensRecover of GitHubTokens, about installationToken and request.
TokensRecover == Token!TokensRecover

\* OnlyTheSameMillisecondIsMissed of RunPages, about listRuns; and what a
\* caller expects of pages.
OnlyTheSameMillisecondIsMissed == Walk!OnlyTheSameMillisecondIsMissed
EveryRunIsShown == Walk!EveryRunIsShown

\* HistoryIsKept of LocalReports, about the readiness and optimization
\* reports; and what the name of the latest one says.
HistoryIsKept == Local!HistoryIsKept
LatestIsNewest == Local!LatestIsNewest

\* RecommendationStands of Optimizer, about optimize.
RecommendationStands == Optimizer!RecommendationStands
=============================================================================
