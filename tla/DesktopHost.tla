---------------------------- MODULE DesktopHost ----------------------------
(***************************************************************************)
(* The Tauri host of desktop/src-tauri/src/main.rs: the commands that      *)
(* start measurements and change the helper registration, and the shutdown *)
(* that a close or exit request begins while one of them is in flight.     *)
(*                                                                         *)
(* The main thread handles one event or synchronous command at a time;     *)
(* helper changes, measurement tasks and the shutdown task run on the      *)
(* asynchronous runtime, so they interleave with every step of it.  A      *)
(* measurement's task is any sequence of its handle's operations (module   *)
(* RunExecution has the real one); a helper change may take any time.      *)
(***************************************************************************)
EXTENDS RunManager

CONSTANTS
  Changes,    \* invocations of helper_register and helper_remove
  NoChange    \* operation_gate is not held

ASSUME ChangesAssumption == NoChange \notin Changes

VARIABLES
  gate,             \* the helper change that holds operation_gate
  change,           \* where each helper change stands
  helper_changing,  \* AppState.helper_changing
  shutting_down,    \* AppState.shutting_down
  main,             \* what the main thread is doing
  event,            \* the window or application event it handles
  target,           \* the run cancel_active found in its snapshot
  task,             \* the shutdown task
  exitRequested,    \* an ExitRequested event is queued
  window,           \* the window is open
  exited            \* the process has exited

flagVars    == <<gate, change, helper_changing>>
mainVars    == <<main, event, target>>
loopVars    == <<mainVars, exitRequested, window, exited>>
desktopVars == <<flagVars, shutting_down, task, loopVars>>
hostVars    == <<managerVars, desktopVars>>

----------------------------------------------------------------------------
ChangeStep == {"idle", "invoked", "gated", "flagged", "checked", "operating", "clearing"}
InFlight   == {"flagged", "checked", "operating"}   \* while helper_changing is set
MainStep   == {"idle", "sawNoRun", "begin", "snapshot", "cancel", "allow"}
TaskStep   == {"none", "awaitRun", "awaitFlag", "exit", "giveUp"}

measurement_active == is_active(active.state)

HostInit ==
  /\ Init
  /\ gate = NoChange
  /\ change = [c \in Changes |-> "idle"]
  /\ helper_changing = FALSE
  /\ shutting_down = FALSE
  /\ main = "idle" /\ event = "none" /\ target = NoRun
  /\ task = "none"
  /\ exitRequested = FALSE
  /\ window = TRUE
  /\ exited = FALSE

(* Nothing of the process moves once it has exited. *)
alive == ~exited

----------------------------------------------------------------------------
(* Commands. *)

(* start_run is synchronous: the gate is tried and held for this one step. *)
start_run(r) ==
  /\ alive /\ main = "idle" /\ window
  /\ gate = NoChange
  /\ ~shutting_down
  /\ begin(r)
  /\ UNCHANGED desktopVars

cancel_run(r) ==
  /\ alive /\ main = "idle" /\ window
  /\ cancel(r)
  /\ UNCHANGED desktopVars

(* The task spawned for a run, and the report of its error. *)
RunTask(r) ==
  /\ alive
  /\ \/ \E done \in {active.completed, active.completed + 1} : progress(r, done)
     \/ \E code \in {SUCCESS, PARTIAL_FAILURE, CANCELLED} : finish_outcome(r, code, TRUE, FALSE)
     \/ drop(r)
     \/ failure(r, FALSE, "Connectivity")
  /\ UNCHANGED desktopVars

(* helper_register and helper_remove are asynchronous: a call made while the *)
(* window is open runs when the runtime gets to it.                          *)
Invoke(c) ==
  /\ alive /\ window
  /\ change[c] = "idle"
  /\ change' = [change EXCEPT ![c] = "invoked"]
  /\ UNCHANGED <<managerVars, gate, helper_changing, shutting_down, task, loopVars>>

TryGate(c) ==
  /\ alive
  /\ change[c] = "invoked"
  /\ IF gate = NoChange
     THEN gate' = c /\ change' = [change EXCEPT ![c] = "gated"]
     ELSE UNCHANGED gate /\ change' = [change EXCEPT ![c] = "idle"]
  /\ UNCHANGED <<managerVars, helper_changing, shutting_down, task, loopVars>>

SetFlag(c) ==
  /\ alive
  /\ change[c] = "gated"
  /\ helper_changing' = TRUE
  /\ change' = [change EXCEPT ![c] = "flagged"]
  /\ UNCHANGED <<managerVars, gate, shutting_down, task, loopVars>>

(* Mutant: the shutdown flag is not read once the own flag is set. *)
CheckShutdown_Skipped(c) ==
  /\ alive
  /\ change[c] = "flagged"
  /\ change' = [change EXCEPT ![c] = "checked"]
  /\ UNCHANGED <<managerVars, gate, helper_changing, shutting_down, task, loopVars>>

(* The shutdown flag is read after the own flag is set. *)
CheckShutdown(c) ==
  /\ alive
  /\ change[c] = "flagged"
  /\ change' = [change EXCEPT ![c] = IF shutting_down THEN "clearing" ELSE "checked"]
  /\ helper_changing' = IF shutting_down THEN FALSE ELSE helper_changing
  /\ UNCHANGED <<managerVars, gate, shutting_down, task, loopVars>>

CheckRun(c) ==
  /\ alive
  /\ change[c] = "checked"
  /\ change' = [change EXCEPT ![c] = IF measurement_active THEN "clearing" ELSE "operating"]
  /\ helper_changing' = IF measurement_active THEN FALSE ELSE helper_changing
  /\ UNCHANGED <<managerVars, gate, shutting_down, task, loopVars>>

(* runtime::helper_operation returns; the flag guard is dropped before the gate. *)
EndOperation(c) ==
  /\ alive
  /\ change[c] = "operating"
  /\ helper_changing' = FALSE
  /\ change' = [change EXCEPT ![c] = "clearing"]
  /\ UNCHANGED <<managerVars, gate, shutting_down, task, loopVars>>

ReleaseGate(c) ==
  /\ alive
  /\ change[c] = "clearing"
  /\ gate' = NoChange
  /\ change' = [change EXCEPT ![c] = "idle"]
  /\ UNCHANGED <<managerVars, helper_changing, shutting_down, task, loopVars>>

HelperChange(c) ==
  \/ TryGate(c) \/ SetFlag(c) \/ CheckShutdown(c) \/ CheckRun(c)
  \/ EndOperation(c) \/ ReleaseGate(c)

----------------------------------------------------------------------------
(* The event loop. *)

(* CloseRequested comes from the user, ExitRequested from the runtime; the  *)
(* manager is looked at first.                                              *)
Receive(e) ==
  /\ alive
  /\ main = "idle"
  /\ \/ e = "close" /\ window /\ UNCHANGED exitRequested
     \/ e = "exit" /\ exitRequested /\ exitRequested' = FALSE
  /\ event' = e
  /\ main' = IF measurement_active THEN "begin" ELSE "sawNoRun"
  /\ UNCHANGED <<managerVars, flagVars, shutting_down, task, target, window, exited>>

(* Then the helper flag: the event is prevented, or it goes its way. *)
LookAtFlag ==
  /\ alive
  /\ main = "sawNoRun"
  /\ main' = IF helper_changing THEN "begin" ELSE "allow"
  /\ UNCHANGED <<managerVars, flagVars, shutting_down, task, event, target,
                 exitRequested, window, exited>>

(* Tauri destroys the window, which was the last one and so asks to exit; or *)
(* it exits.                                                                 *)
Allow ==
  /\ alive
  /\ main = "allow"
  /\ \/ event = "close" /\ window' = FALSE /\ exitRequested' = TRUE /\ UNCHANGED exited
     \/ event = "exit" /\ exited' = TRUE /\ UNCHANGED <<window, exitRequested>>
  /\ main' = "idle" /\ event' = "none"
  /\ UNCHANGED <<managerVars, flagVars, shutting_down, task, target>>

(* begin_shutdown: only the first request does anything. *)
BeginShutdown ==
  /\ alive
  /\ main = "begin"
  /\ main' = IF shutting_down THEN "idle" ELSE "snapshot"
  /\ event' = "none"
  /\ shutting_down' = TRUE
  /\ UNCHANGED <<managerVars, flagVars, task, target, exitRequested, window, exited>>

(* cancel_active takes the manager's lock twice. *)
Snapshot ==
  /\ alive
  /\ main = "snapshot"
  /\ target' = active.run_id
  /\ main' = "cancel"
  /\ UNCHANGED <<managerVars, flagVars, shutting_down, task, event,
                 exitRequested, window, exited>>

CancelActive ==
  /\ alive
  /\ main = "cancel"
  /\ IF active.run_id = target /\ measurement_active THEN cancel(target)
                                                    ELSE UNCHANGED managerVars
  /\ task' = "awaitRun"
  /\ main' = "idle"
  /\ target' = NoRun
  /\ UNCHANGED <<flagVars, shutting_down, event, exitRequested, window, exited>>

MainThread ==
  LookAtFlag \/ Allow \/ BeginShutdown \/ Snapshot \/ CancelActive \/ Receive("exit")

----------------------------------------------------------------------------
(* The shutdown task; either wait may run into the common deadline. *)

AwaitRun ==
  /\ alive
  /\ task = "awaitRun"
  /\ \/ ~is_active(updates.state) /\ task' = "awaitFlag"
     \/ task' = "giveUp"
  /\ UNCHANGED <<managerVars, flagVars, shutting_down, loopVars>>

AwaitFlag ==
  /\ alive
  /\ task = "awaitFlag"
  /\ \/ ~helper_changing /\ task' = "exit"
     \/ task' = "giveUp"
  /\ UNCHANGED <<managerVars, flagVars, shutting_down, loopVars>>

(* handle.exit(0) raises ExitRequested. *)
RequestExit ==
  /\ alive
  /\ task = "exit"
  /\ exitRequested' = TRUE
  /\ task' = "none"
  /\ UNCHANGED <<managerVars, flagVars, shutting_down, mainVars, window, exited>>

(* Mutant: the flag is left set when the deadline passes. *)
GiveUp_KeepsFlag ==
  /\ alive
  /\ task = "giveUp"
  /\ task' = "none"
  /\ UNCHANGED <<managerVars, flagVars, shutting_down, loopVars>>

GiveUp ==
  /\ alive
  /\ task = "giveUp"
  /\ shutting_down' = FALSE
  /\ task' = "none"
  /\ UNCHANGED <<managerVars, flagVars, loopVars>>

ShutdownTask == AwaitRun \/ AwaitFlag \/ RequestExit \/ GiveUp

----------------------------------------------------------------------------
HostNext ==
  \/ \E r \in Runs : start_run(r) \/ cancel_run(r) \/ RunTask(r)
  \/ \E c \in Changes : Invoke(c) \/ HelperChange(c)
  \/ Receive("close") \/ MainThread \/ ShutdownTask

(* The event loop and the runtime's tasks go on; users and runs need not. *)
HostSpec ==
  /\ HostInit /\ [][HostNext]_hostVars
  /\ WF_hostVars(MainThread) /\ WF_hostVars(ShutdownTask)
  /\ \A c \in Changes : WF_hostVars(HelperChange(c))

----------------------------------------------------------------------------
HostTypeOK ==
  /\ TypeOK
  /\ gate \in Changes \cup {NoChange}
  /\ change \in [Changes -> ChangeStep]
  /\ {helper_changing, shutting_down, exitRequested, window, exited} \subseteq BOOLEAN
  /\ main \in MainStep /\ event \in {"none", "close", "exit"}
  /\ target \in Runs \cup {NoRun}
  /\ task \in TaskStep

(* While the helper is being registered or removed no measurement runs, and   *)
(* none starts until it is done (main.rs:41-45, 137-148).                     *)
ChangeExcludesMeasurement ==
  (\E c \in Changes : change[c] = "operating") => ~measurement_active

(* helper_changing tells the event loop the truth about every registration    *)
(* change, although each call sets and clears it for itself (main.rs:138-141).*)
FlagIsTrue == helper_changing <=> \E c \in Changes : change[c] \in InFlight

(* The process never exits under a measurement: one that is active when the   *)
(* exit is asked for is cancelled and waited for first (main.rs:192-211).     *)
ExitSparesMeasurement == exited => ~measurement_active

(* Once a shutdown is under way the process never exits in the middle of a    *)
(* helper change, whenever that change was begun (main.rs:138-144, 258-265).  *)
(* Of an exit without a shutdown it says nothing: ChangeIsNeverCutShort does. *)
ShutdownSparesChange ==
  (exited /\ shutting_down) => \A c \in Changes : change[c] \notin {"checked", "operating"}

(* The stronger claim of the comments at main.rs:138-139 and 258, which the   *)
(* code does not keep: whatever the process exits for, no helper change is    *)
(* cut short.  The event loop may read the flag, let the event go and exit,   *)
(* while a change sets its flag, finds no shutdown and operates.              *)
ChangeIsNeverCutShort ==
  exited => \A c \in Changes : change[c] # "operating"

(* A shutdown exits or gives the window back, whatever the run does, unless a *)
(* helper change comes in between (main.rs:252-272).                          *)
ShutdownResolves ==
  (shutting_down /\ task # "none")
    ~> (exited \/ ~shutting_down \/ \E c \in Changes : change[c] \in InFlight)

(* What the flags do: no change operates beside a measurement, the loop sees  *)
(* every change in flight, the process does not exit under a measurement and, *)
(* once shutting_down is set, not under a change either.  Not covered is the  *)
(* exit with shutting_down unset, which the loop lets through because it read *)
(* helper_changing before a change set it (main.rs:41-45, 137-148, 192-211,   *)
(* 258-265): ChangeIsNeverCutShort is that claim, and it is refuted.          *)
FlagsProtect ==
  /\ HostTypeOK
  /\ ChangeExcludesMeasurement /\ FlagIsTrue /\ ExitSparesMeasurement /\ ShutdownSparesChange
============================================================================
