--------------------------- MODULE MCHostedCompute ---------------------------
(* Instances of HostedCompute for TLC: the jobs by number, one self-hosted  *)
(* runner beside the hosted ones.                                           *)
EXTENDS HostedCompute

OneJob == {1}
TwoJobs == {1, 2}
SecondJob == {2}
=============================================================================
