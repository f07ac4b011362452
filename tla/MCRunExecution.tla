-------------------------- MODULE MCRunExecution --------------------------
(* Two runs that share a process and an output root: a throughput run, whose  *)
(* exit codes are kept, and a workflow, which can stop in the middle and      *)
(* whose failures collapse to 1.  One longer run of every kind for what a run *)
(* leaves behind, in the desktop and in the CLI.                              *)
EXTENDS RunExecution, TLC

CONSTANTS r1, r2

TwoRuns   == {r1, r2}
OneRun    == {r1}
EveryKind == Requested

MixedPair == {[capability |-> (r1 :> "throughput") @@ (r2 :> "workflow"), desktop |-> TRUE]}
============================================================================
