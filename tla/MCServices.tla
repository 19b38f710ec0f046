----------------------------- MODULE MCServices -----------------------------
(* The services of Services on small instances.  As they are modelled they *)
(* share no state, so a behaviour belongs to one of them, which "service"  *)
(* names; the others stay as they were.  In a behaviour of the orders keys *)
(* expire or months pass, but not both: the one concerns createRun alone,  *)
(* the other request.                                                      *)
EXTENDS Services, TLC

VARIABLE service

\* A result that is worse than others, one of unknown cost, two that nothing
\* dominates, and one that is not valid.
Result(success, attempts, cost, duration) ==
  [success |-> success, attempts |-> attempts, cost |-> cost, duration |-> duration]
Measured == {Result(50, 1, 1, 1), Result(50, 1, Nil, 2), Result(100, 2, 2, Nil),
             Result(100, 1, 2, 1), Result(101, 1, 1, 1)}
Aims == {<<"correctness", "cost">>, <<"cost", "duration", "correctness">>}

\* Every run is of other tasks.
OwnTasks == [r \in Runs |-> r]

ASSUME ServicesAssumption ==
  /\ Order!SubmissionAssumption
  /\ Catalogue!CatalogueAssumption /\ Page!PublishingAssumption
  /\ Check!ChecksAssumption /\ Token!TokensAssumption
  /\ Optimizer!OptimizerAssumption /\ Walk!RunPagesAssumption
  /\ Local!LocalReportsAssumption

\* One initial state of the parts that a behaviour does not belong to.
OthersWait ==
  /\ service # "optimizer" =>
       /\ todo = CHOOSE order \in Optimizer!Orders : TRUE
       /\ cache = [c \in Candidates |-> Nil] /\ ~ aborted
       /\ objectives = CHOOSE o \in Objectives : TRUE
  /\ service # "local" => state = CHOOSE s \in RepositoryStates : TRUE

ServicesInit ==
  /\ service \in {"order", "catalogue", "page", "check", "token", "optimizer", "walk", "local"}
  /\ Order!Init /\ Catalogue!Init /\ Page!Init /\ Check!Init /\ Token!Init
  /\ Optimizer!Init /\ Walk!Init /\ Local!Init /\ OthersWait

\* Every part but the one that is named stays as it is.
Others ==
  /\ UNCHANGED service
  /\ service # "order" => UNCHANGED orderVars
  /\ service # "catalogue" => UNCHANGED catalogueVars
  /\ service # "page" => UNCHANGED pageVars
  /\ service # "check" => UNCHANGED checkVars
  /\ service # "token" => UNCHANGED tokenVars
  /\ service # "optimizer" => UNCHANGED optimizerVars
  /\ service # "walk" => UNCHANGED walkVars
  /\ service # "local" => UNCHANGED reportVars

KeysAreFresh == \A k \in RunKeys : keyRow[k] # Nil => ~ keyRow[k].expired

ServicesNext ==
  \/ /\ service = "order" /\ Order!Next /\ Others
     /\ (month = 0 \/ KeysAreFresh)'
  \/ service = "catalogue" /\ Catalogue!Next /\ Others
  \/ service = "page" /\ Page!Next /\ Others
  \/ service = "check" /\ Check!Next /\ Others
  \/ service = "token" /\ Token!Next /\ Others
  \/ service = "optimizer" /\ Optimizer!Next /\ Others
  \/ service = "walk" /\ Walk!Next /\ Others
  \/ service = "local" /\ Local!Next /\ Others

serviceVars ==
  <<service, orderVars, catalogueVars, pageVars, checkVars, tokenVars, optimizerVars, walkVars,
    reportVars>>

ServicesSpec == ServicesInit /\ [][ServicesNext]_serviceVars

\* The values of a set are alike.  A behaviour belongs to one service, so one
\* permutation may exchange values of several services at once.
SwapsOf(sets) ==
  LET swap(S) == CHOOSE p \in Permutations(S) : \A x \in S : p[x] # x
      all == UNION sets
  IN {[x \in all |-> x],
      [x \in all |-> LET S == CHOOSE T \in sets : x \in T IN swap(S)[x]]}

ServiceSymmetry ==
  SwapsOf({Calls, Tenants}) \cup SwapsOf({RunKeys, Contents})
    \cup SwapsOf({Bodies, Repositories})
=============================================================================
