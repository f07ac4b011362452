---------------------------- MODULE RunManager ----------------------------
(***************************************************************************)
(* RunManager of crates/runtime/src/manager.rs: one record of the latest   *)
(* run behind a mutex, the cancellation token of every run, and the watch  *)
(* channel on which adapters (desktop window, CLI, shutdown task) see it.  *)
(*                                                                         *)
(* Every operation of the code takes the mutex once, so each is one        *)
(* action.  A RunHandle is owned by the task that executes the run: it is  *)
(* consumed by finish/finish_outcome or dropped, and only afterwards may   *)
(* the desktop report an error with failure().  The log ring, timestamps   *)
(* and messages are abstracted away.                                       *)
(***************************************************************************)
EXTENDS ExitPolicy

CONSTANTS
  Runs,      \* run ids; new_run_id never repeats one, so an id is used once
  NoRun,     \* stands for `active: None`
  Total      \* measurements planned for a run

ASSUME RunsAssumption  == NoRun \notin Runs
ASSUME TotalAssumption == Total \in Nat

VARIABLES
  active,    \* Inner.active: the progress record of the latest run
  updates,   \* the value in the watch channel
  token,     \* the run ids whose cancellation token is cancelled
  handle     \* what became of the RunHandle of each run

managerVars == <<active, updates, token, handle>>

----------------------------------------------------------------------------
NoCode == 255   \* exit_code: None

Progress ==
  [run_id: Runs \cup {NoRun}, state: RunState \cup {"None"}, completed: 0..Total,
   exit_code: Codes \cup {NoCode}, report_path: BOOLEAN]

NewProgress(r, state) == [run_id |-> r, state |-> state, completed |-> 0,
                          exit_code |-> NoCode, report_path |-> FALSE]

(* The manager before its first run. *)
NoProgress == NewProgress(NoRun, "None")

(* "live" handles are held by an executing task.  An "ended" one was consumed *)
(* or dropped; "settled" once the caller has also reported the run's error.   *)
HandleState == {"unborn", "live", "ended", "settled"}

AtMost(a, b) == IF a <= b THEN a ELSE b

(* updates.send_replace(active.progress.clone()) *)
publish == updates' = active'

(* RunHandle::complete: the record takes the end state if it is still this run's. *)
complete(r, code, path, partial) ==
  IF active.run_id = r
  THEN /\ active' = [active EXCEPT !.state       = from_exit_code(code, partial),
                                   !.exit_code   = code,
                                   !.report_path = path]
       /\ publish
  ELSE UNCHANGED <<active, updates>>

----------------------------------------------------------------------------
Init ==
  /\ active  = NoProgress
  /\ updates = NoProgress
  /\ token   = {}
  /\ handle  = [r \in Runs |-> "unborn"]

(* Mutant: the busy check is dropped. *)
begin_Unchecked(r) ==
  /\ handle[r] = "unborn"
  /\ active' = NewProgress(r, "Running")
  /\ publish
  /\ handle' = [handle EXCEPT ![r] = "live"]
  /\ UNCHANGED token

(* RunManager::begin.  While the record is active the code returns Busy and  *)
(* changes nothing.                                                           *)
begin(r) ==
  /\ handle[r] = "unborn"
  /\ ~is_active(active.state)
  /\ active' = NewProgress(r, "Running")
  /\ publish
  /\ handle' = [handle EXCEPT ![r] = "live"]
  /\ UNCHANGED token

(* Mutants: the state is not published; the token is forgotten; a finished   *)
(* run is marked too.                                                         *)
cancel_Unpublished(r) ==
  /\ active.run_id = r
  /\ is_active(active.state)
  /\ active' = [active EXCEPT !.state = "Cancelling"]
  /\ token'  = token \cup {r}
  /\ UNCHANGED <<updates, handle>>

cancel_NoToken(r) ==
  /\ active.run_id = r
  /\ is_active(active.state)
  /\ active' = [active EXCEPT !.state = "Cancelling"]
  /\ publish
  /\ UNCHANGED <<token, handle>>

(* RunManager::cancel.  Another run's id is refused, a finished run is left as it is. *)
cancel(r) ==
  /\ active.run_id = r
  /\ is_active(active.state)
  /\ active' = [active EXCEPT !.state = "Cancelling"]
  /\ token'  = token \cup {r}
  /\ publish
  /\ UNCHANGED handle

(* RunHandle::progress.  The channel is updated at most every 100 ms, so    *)
(* whether this call publishes is left open.                                *)
progress(r, done) ==
  /\ handle[r] = "live"
  /\ IF active.run_id = r
     THEN /\ active' = [active EXCEPT !.completed = AtMost(done, Total)]
          /\ publish \/ UNCHANGED updates
     ELSE UNCHANGED <<active, updates>>
  /\ UNCHANGED <<token, handle>>

(* The handle's token is cancelled directly, past the manager: the record is  *)
(* not touched (execution.rs:143-152).                                        *)
trip(r) ==
  /\ handle[r] = "live"
  /\ token' = token \cup {r}
  /\ UNCHANGED <<active, updates, handle>>

(* RunHandle::finish and finish_outcome. *)
finish_outcome(r, code, path, partial) ==
  /\ handle[r] = "live"
  /\ complete(r, code, path, partial)
  /\ handle' = [handle EXCEPT ![r] = "ended"]
  /\ UNCHANGED token

(* Drop of a RunHandle that was never finished: an error return before the   *)
(* summary, or a cancelled or panicking task.                                *)
drop(r) ==
  /\ handle[r] = "live"
  /\ complete(r, IF r \in token THEN CANCELLED ELSE INTERNAL, FALSE, FALSE)
  /\ token'  = token \cup {r}
  /\ handle' = [handle EXCEPT ![r] = "ended"]

(* RunManager::failure, called by the desktop with the error that ended the  *)
(* execution (desktop/src-tauri/src/main.rs:51-53).  A newer run's record is *)
(* left alone.                                                               *)
failure(r, is_throughput, category) ==
  /\ handle[r] = "ended"
  /\ IF active.run_id = r
     THEN /\ active' = [active EXCEPT !.state     = "Failed",
                                      !.exit_code = for_error(is_throughput, category)]
          /\ publish
     ELSE UNCHANGED <<active, updates>>
  /\ handle' = [handle EXCEPT ![r] = "settled"]
  /\ UNCHANGED token

(* The process ends; RunManager::default() of the next one starts empty. *)
restart ==
  /\ active'  = NoProgress
  /\ updates' = NoProgress
  /\ handle'  = [r \in Runs |-> IF handle[r] = "unborn" THEN "unborn" ELSE "settled"]
  /\ UNCHANGED token

----------------------------------------------------------------------------
(* A run's task and its callers, with every outcome they can report. *)
RunStep(r) ==
    \/ begin(r)
    \/ cancel(r)
    \/ trip(r)
    \/ \E done \in {active.completed, active.completed + 1} : progress(r, done)
    \/ \E code \in Codes, partial \in BOOLEAN : finish_outcome(r, code, TRUE, partial)
    \/ finish_outcome(r, INTERNAL, FALSE, FALSE)
    \/ drop(r)
    \/ \E is_throughput \in BOOLEAN, category \in Category :
         failure(r, is_throughput, category)

Next == restart \/ \E r \in Runs : RunStep(r)

Spec == Init /\ [][Next]_managerVars

----------------------------------------------------------------------------
TypeOK ==
  /\ active  \in Progress
  /\ updates \in Progress
  /\ token   \subseteq Runs
  /\ handle  \in [Runs -> HandleState]

(* The manager is busy exactly while some task holds the handle of the run   *)
(* it shows (manager.rs:76-85, 200-227): a live run is never shown as ended, *)
(* so no second run is admitted beside it, and a busy manager always has an  *)
(* owner that will release it.                                               *)
BusyIffOwned ==
  \A r \in Runs : (handle[r] = "live") <=> (active.run_id = r /\ is_active(active.state))

(* A window or the shutdown task that reads the channel sees the state, exit  *)
(* code and report of the record itself; only the count of an active run may  *)
(* lag behind, because progress() throttles what it publishes (manager.rs:184).*)
ChannelCurrent ==
  \/ updates = active
  \/ /\ is_active(active.state)
     /\ [updates EXCEPT !.completed = active.completed] = active

(* A run shown as Cancelling has its token cancelled, so its engine will stop *)
(* (manager.rs:132-136).                                                      *)
CancellingIsSignalled ==
  active.state = "Cancelling" => active.run_id \in token

(* The manager implements a slot for one run, held while its record is active *)
(* (docs/architecture.md, "Only one run can be active per RunManager").       *)
Admitted   == {r \in Runs : handle[r] # "unborn"}
SlotHolder == IF is_active(active.state) THEN active.run_id ELSE NoRun

Slot == INSTANCE OneSlot WITH
  Users <- Runs, Free <- NoRun, holder <- SlotHolder, served <- Admitted

ImplementsOneSlot == Slot!Spec

(* A step that ends the shown run is a step of that run's own handle; nothing *)
(* a canceller, another run or a late error report does ends a running one    *)
(* (manager.rs:122-156, 200-214).                                             *)
EndedOnlyByOwner ==
  [][ (is_active(active.state) /\ ~is_active(active'.state))
        => handle'[active.run_id] \in {"ended", "settled"} ]_managerVars

(* A run that has ended never becomes active again and its outcome is only    *)
(* ever replaced by the error report of the same run (manager.rs:141-155).    *)
OutcomeOnlyBecomesFailed ==
  [][ (active.state \in TerminalState /\ active'.run_id = active.run_id)
        => active'.state \in {active.state, "Failed"} ]_managerVars
============================================================================
