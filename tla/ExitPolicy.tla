---------------------------- MODULE ExitPolicy ----------------------------
(***************************************************************************)
(* The process-status table of crates/contracts (module exit) and the run  *)
(* states that crates/runtime derives from it.  Shared by the modules that *)
(* model a run's end; it has no state of its own.                          *)
(***************************************************************************)
EXTENDS Naturals

SUCCESS         == 0
FAILURE         == 1
PARTIAL_FAILURE == 14
TOTAL_FAILURE   == 15
INTERNAL        == 16
CANCELLED       == 130
TERMINATED      == 143

(* ErrorCategory of crates/contracts. *)
Category == {"Validation", "Prerequisite", "Connectivity", "PartialFailure",
             "TotalFailure", "Internal", "Permission", "Cancelled", "Busy"}

Codes == {SUCCESS, FAILURE, 11, 12, 13, PARTIAL_FAILURE, TOTAL_FAILURE,
          INTERNAL, CANCELLED, TERMINATED}

(* exit::throughput: the throughput status of a failure category. *)
throughput(category) ==
  CASE category = "Validation"                     -> 11
    [] category \in {"Prerequisite", "Permission"} -> 12
    [] category = "Connectivity"                   -> 13
    [] category = "PartialFailure"                 -> PARTIAL_FAILURE
    [] category = "TotalFailure"                   -> TOTAL_FAILURE
    [] category \in {"Internal", "Busy"}           -> INTERNAL
    [] category = "Cancelled"                      -> CANCELLED

is_interrupted(code) == code \in {CANCELLED, TERMINATED}

(* exit::for_capability: every capability but throughput reports failures as 1. *)
for_capability(is_throughput, code) ==
  IF is_throughput \/ code = SUCCESS \/ is_interrupted(code) THEN code ELSE FAILURE

for_error(is_throughput, category) ==
  for_capability(is_throughput, throughput(category))

(* RunState and RunState::is_active. *)
ActiveState   == {"Running", "Cancelling"}
TerminalState == {"Succeeded", "PartialFailure", "Failed", "Cancelled"}
RunState      == ActiveState \cup TerminalState

is_active(state) == state \in ActiveState

(* RunState::from_exit_code: the end state of a run that ended with a status. *)
from_exit_code(code, partial) ==
  CASE code = SUCCESS             -> "Succeeded"
    [] code = PARTIAL_FAILURE     -> "PartialFailure"
    [] is_interrupted(code)       -> "Cancelled"
    [] OTHER                      -> IF partial THEN "PartialFailure" ELSE "Failed"
============================================================================
