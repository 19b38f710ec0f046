----------------------------- MODULE Publishing -----------------------------
(***************************************************************************)
(* PublishingService (packages/public-publishing) for one repository: the  *)
(* runs that are published under public ids, withdrawn and published       *)
(* again, and what the public pages read.  A publication is a transaction  *)
(* that locks the run it reads, not the repository, and what it shows is a *)
(* copy; the page of the repository reads twice.                           *)
(*                                                                         *)
(* The run is completed by JobQueue, the visibility of the repository is   *)
(* set by the synchronization in GitHubDelivery.  Of what a publication    *)
(* shows only the visibility is kept, with the tasks it was run on.        *)
(***************************************************************************)
EXTENDS Integers, FiniteSets

CONSTANTS
  Runs,       \* benchmark runs of the repository
  Requests,   \* requests to publish and reads of the repository's page
  TaskSetOf,  \* task_set_hash of each run
  MaxIds,     \* bound on the public ids that are drawn
  None

PublishingAssumption ==
  /\ MaxIds \in Nat /\ DOMAIN TaskSetOf = Runs /\ IsFiniteSet(Runs)
  /\ None \notin Nat \cup Runs
  /\ None \notin [id : Nat, state : {"PUBLISHED", "UNPUBLISHED"},
                  shows : {"PUBLIC", "PRIVATE"}, time : Nat]

VARIABLES
  completed,   \* the runs that have ended with a result
  visibility,  \* repositories.visibility
  repository,  \* repositories.public_id, None before the first publication
  publication, \* public_run_publications of each run, or None
  request,     \* the requests: where they are and what they have read
  ids,         \* how many public ids have been drawn
  clock,       \* published_at of the last transaction
  withdrawn    \* auxiliary: how often something was unpublished

vars == <<completed, visibility, repository, publication, request, ids, clock, withdrawn>>

Init ==
  /\ completed = {} /\ visibility = "PRIVATE" /\ repository = None
  /\ publication = [r \in Runs |-> None]
  /\ request = [q \in Requests |-> [at |-> "idle"]]
  /\ ids = 0 /\ clock = 0 /\ withdrawn = 0

Published(r) == publication[r] # None /\ publication[r].state = "PUBLISHED"

Complete(r) ==
  /\ r \notin completed
  /\ completed' = completed \cup {r}
  /\ UNCHANGED <<visibility, repository, publication, request, ids, clock, withdrawn>>

Synchronize(v) ==
  /\ visibility # v
  /\ visibility' = v
  /\ UNCHANGED <<completed, repository, publication, request, ids, clock, withdrawn>>
-----------------------------------------------------------------------------
(***************************************************************************)
(* publish                                                                 *)
(***************************************************************************)
Locked(r) == \E q \in Requests : request[q].at = "selected" /\ request[q].run = r

\* A slip: the run is read without FOR UPDATE.
PublishSelect_Unlocked(q, r, confirmed, now) ==
  /\ request[q].at = "idle" /\ r \in completed
  /\ visibility = "PUBLIC" \/ confirmed
  /\ ids + 2 <= MaxIds
  /\ request' = [request EXCEPT ![q] =
       [at |-> "selected", run |-> r, shows |-> visibility, time |-> now,
        id |-> IF publication[r] # None THEN publication[r].id ELSE ids + 1,
        repository |-> ids + 2]]
  /\ ids' = ids + 2 /\ clock' = now
  /\ UNCHANGED <<completed, visibility, repository, publication, withdrawn>>

\* The run, its repository and its publication are read, in this order, the
\* run under a lock; a repository that is not public has to be confirmed.
\* Ids are drawn for the run and for the repository; the id that the run has
\* already is kept.
PublishSelect(q, r, confirmed, now) ==
  /\ request[q].at = "idle" /\ r \in completed /\ ~ Locked(r)
  /\ visibility = "PUBLIC" \/ confirmed
  /\ ids + 2 <= MaxIds
  /\ request' = [request EXCEPT ![q] =
       [at |-> "selected", run |-> r, shows |-> visibility, time |-> now,
        id |-> IF publication[r] # None THEN publication[r].id ELSE ids + 1,
        repository |-> ids + 2]]
  /\ ids' = ids + 2 /\ clock' = now
  /\ UNCHANGED <<completed, visibility, repository, publication, withdrawn>>

\* The repository keeps the id it has; the publication is inserted, or shows
\* the new copy under the id it has.  The answer names both ids.
PublishCommit(q) ==
  /\ request[q].at = "selected"
  /\ LET p == request[q]
         identity == IF repository = None THEN p.repository ELSE repository
         old == publication[p.run]
     IN /\ repository' = identity
        /\ publication' = [publication EXCEPT ![p.run] =
             [id |-> IF old = None THEN p.id ELSE old.id,
              state |-> "PUBLISHED", shows |-> p.shows, time |-> p.time]]
        /\ request' = [request EXCEPT ![q] =
             [at |-> "published", run |-> p.run, id |-> p.id, repository |-> identity]]
  /\ UNCHANGED <<completed, visibility, ids, clock, withdrawn>>

\* The transaction fails or its process dies.
PublishAbort(q) ==
  /\ request[q].at = "selected"
  /\ request' = [request EXCEPT ![q] = [at |-> "idle"]]
  /\ UNCHANGED <<completed, visibility, repository, publication, ids, clock, withdrawn>>

Unpublish(r) ==
  /\ Published(r)
  /\ publication' = [publication EXCEPT ![r].state = "UNPUBLISHED"]
  /\ withdrawn' = withdrawn + 1
  /\ UNCHANGED <<completed, visibility, repository, request, ids, clock>>
-----------------------------------------------------------------------------
(***************************************************************************)
(* The public pages.                                                       *)
(***************************************************************************)
\* ORDER BY published_at DESC, public_id DESC
Newer(r, s) ==
  LET p == publication[r]
      o == publication[s]
  IN p.time > o.time \/ (p.time = o.time /\ p.id >= o.id)

Latest ==
  LET candidates == {r \in Runs : Published(r)}
  IN {r \in candidates : \A s \in candidates : Newer(r, s)}

\* latestRepository finds the publication ...
ReadLatest(q) ==
  /\ request[q].at = "idle" /\ repository # None
  /\ request' = [request EXCEPT ![q] =
       IF Latest = {} THEN [at |-> "empty"]
       ELSE [at |-> "latest", run |-> CHOOSE r \in Latest : TRUE, since |-> withdrawn]]
  /\ UNCHANGED <<completed, visibility, repository, publication, ids, clock, withdrawn>>

\* ... and reads it by its id.
GetPublic(q) ==
  /\ request[q].at = "latest"
  /\ request' = [request EXCEPT ![q].at =
       IF Published(request[q].run) THEN "found" ELSE "notFound"]
  /\ UNCHANGED <<completed, visibility, repository, publication, ids, clock, withdrawn>>

\* The statistics, agents and methodology of a copy are taken to be in order.
Eligibility(r) ==
  IF publication[r].shows = "PUBLIC" THEN "ELIGIBLE" ELSE "PRIVATE_RESULT"

\* ORDER BY published_at DESC, public_id
Precedes(r, s) ==
  LET p == publication[r]
      o == publication[s]
  IN p.time > o.time \/ (p.time = o.time /\ p.id < o.id)

\* leaderboard reads the first publications of all; of several task sets
\* among the eligible ones, none is comparable.  How they are sorted by
\* success is left out.
Leaderboard(limit) ==
  LET all == {r \in Runs : Published(r)}
      page == {r \in all : Cardinality({s \in all : Precedes(s, r)}) < limit}
      eligible == {r \in page : Eligibility(r) = "ELIGIBLE"}
      comparable == Cardinality({TaskSetOf[r] : r \in eligible}) <= 1
  IN [r \in page |-> IF r \in eligible /\ ~ comparable
                     THEN "INCOMPARABLE_TASK_SET" ELSE Eligibility(r)]

Next ==
  \/ \E r \in Runs : Complete(r) \/ Unpublish(r)
  \/ \E v \in {"PUBLIC", "PRIVATE"} : Synchronize(v)
  \/ \E q \in Requests :
       \/ \E r \in Runs, confirmed \in BOOLEAN, now \in {clock, clock + 1} :
            PublishSelect(q, r, confirmed, now)
       \/ PublishCommit(q) \/ PublishAbort(q) \/ ReadLatest(q) \/ GetPublic(q)

Spec == Init /\ [][Next]_vars
-----------------------------------------------------------------------------
(***************************************************************************)
(* Properties.                                                             *)
(***************************************************************************)
\* The ids that a publication was answered with are the ones that serve its
\* page and the page of its repository, for ever: concurrent publications,
\* repeated ones and ones after a withdrawal agree on them, and no two runs
\* share one.
AnswersAgree ==
  /\ \A q \in Requests : request[q].at = "published" =>
       /\ publication[request[q].run].id = request[q].id
       /\ repository = request[q].repository
  /\ \A r, s \in Runs : publication[r] # None /\ publication[s] # None
       /\ publication[r].id = publication[s].id => r = s

\* The page of a repository is found if something is published when it is
\* asked for, unless a publication is withdrawn before it has been read.
NotFoundIsJustified ==
  \A q \in Requests : request[q].at = "notFound" => request[q].since < withdrawn

\* However many it shows, a leaderboard ranks runs of the same tasks, which
\* their pages show as public.
RankedAreComparable ==
  \A limit \in 1 .. Cardinality(Runs) :
    LET board == Leaderboard(limit)
        ranked == {r \in DOMAIN board : board[r] = "ELIGIBLE"}
    IN \A r, s \in ranked : TaskSetOf[r] = TaskSetOf[s] /\ publication[r].shows = "PUBLIC"

\* Whatever publications, withdrawals and visits overlap, a visitor who was
\* given an address, or looks for a repository or the leaderboard, finds what
\* is published.
AnswersServe == AnswersAgree /\ NotFoundIsJustified /\ RankedAreComparable

\* What does not hold: a run is ranked, or not, whatever the page's limit is.
RankIsTheRuns ==
  \A m, n \in 1 .. Cardinality(Runs) : LET few == Leaderboard(m) many == Leaderboard(n) IN
    \A r \in DOMAIN few \cap DOMAIN many : few[r] = many[r]
=============================================================================
