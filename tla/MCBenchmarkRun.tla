--------------------------- MODULE MCBenchmarkRun ---------------------------
(* Instances of BenchmarkRun for TLC.                                       *)
EXTENDS BenchmarkRun, TLC

OneProviderRetry == [c \in RetryClasses |-> IF c = "provider" THEN 1 ELSE 0]
WorkerSymmetry == Permutations(Workers)
=============================================================================
