--------------------------- MODULE RunExecution ---------------------------
(***************************************************************************)
(* execute_prepared of crates/runtime/src/execution.rs: the task that owns *)
(* a RunHandle, the lock on the output root, the measurement loop, the     *)
(* files it leaves on disk and the outcome it reports to the RunManager.   *)
(*                                                                         *)
(* One process runs the tasks of Runs.  Another process (a CLI beside the  *)
(* desktop) may hold the same output root; it is Foreign.  The process may *)
(* crash: memory and the lock are gone, the files stay.  What is measured  *)
(* is a grade; hosts, plans, warnings and times are abstracted away.       *)
(***************************************************************************)
EXTENDS RunManager

CONSTANTS
  Foreign,   \* another process that uses the same output root
  Settings   \* what may be requested, and of which program

Requested == [capability: [Runs -> {"throughput", "path", "tuning", "workflow"}],
              desktop: BOOLEAN]

ASSUME ForeignAssumption == Foreign \notin Runs \cup {NoRun}
ASSUME SettingsAssumption == Settings \subseteq Requested

VARIABLES
  setting,   \* the capability of each run; the desktop, or the CLI whose signals cancel
  pc,        \* where the task of each run stands
  tally,     \* Execution's counters, and the plan items passed
  result,    \* what execution.run, or the step before it, returned
  verdict,   \* the outcome computed from them, and whether the summary was saved
  records,   \* measurement-N.json files of each run
  summary,   \* status in each run's summary.json
  lock,      \* the holder of <out>/.measurement.lock
  run_log,   \* the run whose run.log the process-wide slot RUN_LOG mirrors to
  signal     \* the code of the signal the CLI received

diskVars == <<records, summary>>
execVars == <<pc, tally, result, verdict, diskVars, lock, run_log, signal>>
vars     == <<managerVars, execVars>>

----------------------------------------------------------------------------
Capability == setting.capability
Desktop    == setting.desktop
Is_throughput(r) == Capability[r] = "throughput"

NoSignal == 0
Status   == {"Success", "PartialFailure", "TotalFailure", "Cancelled"}
Grade    == {"good", "notable", "failed"}  \* notable: a breach or a degraded result

Tally   == [item: 0..Total, completed: 0..Total, failed: 0..Total, notable: BOOLEAN]
Verdict == [code: Codes, status: Status, saved: BOOLEAN]

NoTally   == [item |-> 0, completed |-> 0, failed |-> 0, notable |-> FALSE]
NoVerdict == [code |-> SUCCESS, status |-> "Success", saved |-> FALSE]

Measuring == {"between", "inside"}
Mirroring == Measuring \cup {"ended", "judged", "written"}
Holding   == Mirroring \cup {"locked", "failing", "unmirrored", "finished"}
PC        == Holding \cup {"idle", "spawned", "dropping", "erred",
                           "done", "crashed"}

goto(r, label) == pc' = [pc EXCEPT ![r] = label]

(* Mutant: an error after the first measurement is not looked at. *)
exit_code_ErrorIgnored(r) ==
  LET t == tally[r]
      own ==
        IF t.completed = 0 /\ result[r] # "ok" THEN throughput(result[r])
        ELSE IF t.failed > 0
             THEN IF t.completed > t.failed THEN PARTIAL_FAILURE ELSE TOTAL_FAILURE
        ELSE IF t.notable THEN PARTIAL_FAILURE ELSE SUCCESS
  IN for_capability(Is_throughput(r), IF r \in token THEN CANCELLED ELSE own)

(* The process status of an execution that returned (execution.rs:169-187). *)
exit_code(r) ==
  LET t == tally[r]
      own ==
        IF t.completed = 0 /\ result[r] # "ok" THEN throughput(result[r])
        ELSE IF result[r] # "ok" \/ t.failed > 0
             THEN IF t.completed > t.failed THEN PARTIAL_FAILURE ELSE TOTAL_FAILURE
        ELSE IF t.notable THEN PARTIAL_FAILURE ELSE SUCCESS
      cancel_code == IF signal = NoSignal THEN CANCELLED ELSE signal
  IN for_capability(Is_throughput(r), IF r \in token THEN cancel_code ELSE own)

(* The status written to summary.json (execution.rs:197-205). *)
summary_status(r) ==
  CASE r \in token                            -> "Cancelled"
    [] r \notin token /\ exit_code(r) = SUCCESS -> "Success"
    [] OTHER -> IF tally[r].completed > tally[r].failed THEN "PartialFailure"
                                                       ELSE "TotalFailure"

----------------------------------------------------------------------------
ExecInit ==
  /\ Init
  /\ setting \in Settings
  /\ pc      = [r \in Runs |-> "idle"]
  /\ tally   = [r \in Runs |-> NoTally]
  /\ result  = [r \in Runs |-> "ok"]
  /\ verdict = [r \in Runs |-> NoVerdict]
  /\ records = [r \in Runs |-> 0]
  /\ summary = [r \in Runs |-> "none"]
  /\ lock    = NoRun
  /\ run_log = NoRun
  /\ signal  = NoSignal

(* reserve_request admits the run; its task is spawned with the handle. *)
Start(r) ==
  /\ pc[r] = "idle"
  /\ begin(r)
  /\ goto(r, "spawned")
  /\ UNCHANGED <<tally, result, verdict, diskVars, lock, run_log, signal>>

(* SidecarLock::acquire with a zero timeout: the output root, or an error. *)
Acquire(r) ==
  /\ pc[r] = "spawned"
  /\ lock = NoRun
  /\ lock' = r
  /\ goto(r, "locked")
  /\ UNCHANGED <<managerVars, tally, result, verdict, diskVars, run_log, signal>>

(* Mutant: the run waits for the lock instead. *)
Refused_Waits(r) == FALSE

Refused(r) ==
  /\ pc[r] = "spawned"
  /\ lock # NoRun
  /\ result' = [result EXCEPT ![r] = "Busy"]
  /\ goto(r, "dropping")
  /\ UNCHANGED <<managerVars, tally, verdict, diskVars, lock, run_log, signal>>

(* create_dir_all or check_path fails: an early return before the run log. *)
SetupFails(r) ==
  /\ pc[r] = "locked"
  /\ result' = [result EXCEPT ![r] = "Prerequisite"]
  /\ goto(r, "failing")
  /\ UNCHANGED <<managerVars, tally, verdict, diskVars, lock, run_log, signal>>

(* The run log is opened, a signal that already came is passed on, the relay *)
(* is spawned and the helper is probed.                                      *)
Open(r) ==
  /\ pc[r] = "locked"
  /\ run_log' = r
  /\ IF signal = NoSignal THEN UNCHANGED managerVars ELSE trip(r)
  /\ goto(r, "between")
  /\ UNCHANGED <<tally, result, verdict, diskVars, lock, signal>>

(* The relay task passes a later signal on until it is aborted. *)
Relay(r) ==
  /\ pc[r] \in Measuring \cup {"ended"}
  /\ signal # NoSignal
  /\ r \notin token
  /\ trip(r)
  /\ UNCHANGED execVars

(* execution.run returns. *)
return(r, value) ==
  /\ result' = [result EXCEPT ![r] = value]
  /\ goto(r, "ended")

(* The next plan item, unless the token is cancelled. *)
StartItem(r) ==
  /\ pc[r] = "between"
  /\ tally[r].item < Total
  /\ r \notin token
  /\ goto(r, "inside")
  /\ UNCHANGED <<managerVars, tally, result, verdict, diskVars, lock, run_log, signal>>

(* A saturation test whose class is already saturated is passed over. *)
SkipItem(r) ==
  /\ pc[r] = "between"
  /\ Capability[r] \in {"throughput", "workflow"}
  /\ tally[r].item \in 1..(Total - 1)
  /\ tally[r].completed > tally[r].failed
  /\ r \notin token
  /\ tally' = [tally EXCEPT ![r].item = @ + 1]
  /\ UNCHANGED <<managerVars, pc, result, verdict, diskVars, lock, run_log, signal>>

(* The loop ends: no item is left, or the token was seen.  run() itself, and *)
(* the preflight, turn a cancelled token into an error.                      *)
EndLoop(r) ==
  /\ pc[r] = "between"
  /\ \/ tally[r].item = Total /\ return(r, "ok")
     \/ r \in token /\ return(r, "ok")
     \/ /\ r \in token
        /\ tally[r].item = 0 \/ Capability[r] = "workflow"
        /\ return(r, "Cancelled")
  /\ UNCHANGED <<managerVars, tally, verdict, diskVars, lock, run_log, signal>>

(* The throughput preflight, or a later step of a workflow, fails. *)
StepFails(r) ==
  /\ pc[r] = "between"
  /\ tally[r].item < Total
  /\ \/ Capability[r] = "throughput" /\ tally[r].item = 0
     \/ Capability[r] = "workflow"
  /\ return(r, "Connectivity")
  /\ UNCHANGED <<managerVars, tally, verdict, diskVars, lock, run_log, signal>>

(* A tuning error, and a cancelled throughput test, end the run unrecorded. *)
EngineStops(r) ==
  /\ pc[r] = "inside"
  /\ \/ Capability[r] \in {"tuning", "workflow"} /\ return(r, "Prerequisite")
     \/ Capability[r] # "path" /\ r \in token /\ return(r, "Cancelled")
  /\ UNCHANGED <<managerVars, tally, verdict, diskVars, lock, run_log, signal>>

counted(r, grade) ==
  [tally EXCEPT ![r].item      = @ + 1,
                ![r].completed = @ + 1,
                ![r].failed    = IF grade = "failed" THEN @ + 1 ELSE @,
                ![r].notable   = @ \/ grade = "notable"]

(* Execution::record: the counters first, then the file, then the progress. *)
Record(r, grade) ==
  /\ pc[r] = "inside"
  /\ tally' = counted(r, grade)
  /\ records' = [records EXCEPT ![r] = @ + 1]
  /\ progress(r, tally'[r].completed)
  /\ goto(r, "between")
  /\ UNCHANGED <<result, verdict, summary, lock, run_log, signal>>

(* atomic_json fails; after its rename (the directory sync) the file is there. *)
RecordFails(r, grade, landed) ==
  /\ pc[r] = "inside"
  /\ tally' = counted(r, grade)
  /\ records' = IF landed THEN [records EXCEPT ![r] = @ + 1] ELSE records
  /\ return(r, "Prerequisite")
  /\ UNCHANGED <<managerVars, verdict, summary, lock, run_log, signal>>

(* The relay is aborted, the token is sampled and the outcome is computed. *)
Judge(r) ==
  /\ pc[r] = "ended"
  /\ verdict' = [verdict EXCEPT ![r] = [code   |-> exit_code(r),
                                        status |-> summary_status(r),
                                        saved  |-> FALSE]]
  /\ IF result[r] = "ok" THEN UNCHANGED managerVars
                         ELSE progress(r, tally[r].completed)
  /\ goto(r, "judged")
  /\ UNCHANGED <<tally, result, diskVars, lock, run_log, signal>>

Summarise(r) ==
  /\ pc[r] = "judged"
  /\ summary' = [summary EXCEPT ![r] = verdict[r].status]
  /\ verdict' = [verdict EXCEPT ![r].saved = TRUE]
  /\ goto(r, "written")
  /\ UNCHANGED <<managerVars, tally, result, records, lock, run_log, signal>>

SummaryFails(r, landed) ==
  /\ pc[r] = "judged"
  /\ summary' = IF landed THEN [summary EXCEPT ![r] = verdict[r].status] ELSE summary
  /\ result' = [result EXCEPT ![r] = "Prerequisite"]
  /\ goto(r, "written")
  /\ UNCHANGED <<managerVars, tally, verdict, records, lock, run_log, signal>>

(* Mutant: the run log is left open until after the handle is finished. *)
CloseLog_Late(r) ==
  /\ pc[r] = "written"
  /\ goto(r, "unmirrored")
  /\ UNCHANGED <<managerVars, tally, result, verdict, diskVars, lock, run_log, signal>>

(* drop(run_log), in both branches before the handle is finished. *)
CloseLog(r) ==
  /\ pc[r] = "written"
  /\ run_log' = NoRun
  /\ goto(r, "unmirrored")
  /\ UNCHANGED <<managerVars, tally, result, verdict, diskVars, lock, signal>>

(* Mutants: finish() instead of finish_outcome(); the handle is not finished. *)
Finish_NotPartial(r) ==
  /\ pc[r] = "unmirrored"
  /\ IF verdict[r].saved THEN finish_outcome(r, verdict[r].code, TRUE, FALSE)
                         ELSE finish_outcome(r, INTERNAL, FALSE, FALSE)
  /\ goto(r, "finished")
  /\ UNCHANGED <<tally, result, verdict, diskVars, lock, run_log, signal>>

Finish(r) ==
  /\ pc[r] = "unmirrored"
  /\ LET v == verdict[r] IN
       IF v.saved THEN finish_outcome(r, v.code, TRUE, v.status = "PartialFailure")
                  ELSE finish_outcome(r, INTERNAL, FALSE, FALSE)
  /\ goto(r, "finished")
  /\ UNCHANGED <<tally, result, verdict, diskVars, lock, run_log, signal>>

(* The function returns and drops _lock, after the manager was told. *)
Unlock(r) ==
  /\ pc[r] = "finished"
  /\ lock' = NoRun
  /\ goto(r, IF verdict[r].saved THEN "done" ELSE "erred")
  /\ UNCHANGED <<managerVars, tally, result, verdict, diskVars, run_log, signal>>

(* An early return drops the locals first, the handle it was given last. *)
DropLocals(r) ==
  /\ pc[r] = "failing"
  /\ lock' = NoRun
  /\ goto(r, "dropping")
  /\ UNCHANGED <<managerVars, tally, result, verdict, diskVars, run_log, signal>>

DropHandle(r) ==
  /\ pc[r] = "dropping"
  /\ drop(r)
  /\ goto(r, "erred")
  /\ UNCHANGED <<tally, result, verdict, diskVars, lock, run_log, signal>>

(* The desktop's task reports the error; the CLI prints it and exits. *)
ReportError(r) ==
  /\ pc[r] = "erred"
  /\ IF Desktop THEN failure(r, Is_throughput(r), result[r]) ELSE UNCHANGED managerVars
  /\ goto(r, "done")
  /\ UNCHANGED <<tally, result, verdict, diskVars, lock, run_log, signal>>

----------------------------------------------------------------------------
(* cancel_run and cancel_active, from the window or the shutdown task. *)
Cancel(r) ==
  /\ Desktop
  /\ cancel(r)
  /\ UNCHANGED execVars

Signal ==
  /\ ~Desktop
  /\ signal = NoSignal
  /\ signal' \in {CANCELLED, TERMINATED}
  /\ UNCHANGED <<managerVars, pc, tally, result, verdict, diskVars, lock, run_log>>

ForeignLock ==
  /\ \/ lock = NoRun   /\ lock' = Foreign
     \/ lock = Foreign /\ lock' = NoRun
  /\ UNCHANGED <<managerVars, pc, tally, result, verdict, diskVars, run_log, signal>>

(* The process dies and a new one starts: the OS releases its lock. *)
Crash ==
  /\ \E r \in Runs : pc[r] \notin {"idle", "done", "crashed"}
  /\ restart
  /\ pc' = [r \in Runs |-> IF pc[r] \in {"idle", "done"} THEN pc[r] ELSE "crashed"]
  /\ lock' = IF lock \in Runs THEN NoRun ELSE lock
  /\ run_log' = NoRun
  /\ signal' = NoSignal
  /\ UNCHANGED <<tally, result, verdict, diskVars>>

----------------------------------------------------------------------------
Measure(r) ==
  \/ StartItem(r) \/ SkipItem(r) \/ EndLoop(r) \/ StepFails(r) \/ EngineStops(r)
  \/ \E grade \in Grade : Record(r, grade)
  \/ \E grade \in Grade, landed \in BOOLEAN : RecordFails(r, grade, landed)

Conclude(r) ==
  \/ Judge(r) \/ Summarise(r) \/ CloseLog(r) \/ Finish(r) \/ Unlock(r)
  \/ \E landed \in BOOLEAN : SummaryFails(r, landed)
  \/ DropLocals(r) \/ DropHandle(r) \/ ReportError(r)

(* What the runtime's scheduler runs without anybody asking. *)
Task(r) ==
  \/ Acquire(r) \/ Refused(r) \/ SetupFails(r) \/ Open(r)
  \/ Measure(r) \/ Conclude(r)

ExecNext ==
  /\ UNCHANGED setting
  /\ \/ \E r \in Runs : Start(r) \/ Task(r) \/ Relay(r) \/ Cancel(r)
     \/ Signal \/ ForeignLock \/ Crash

Fairness == \A r \in Runs : WF_vars(Task(r)) /\ WF_vars(Relay(r))

ExecSafety == ExecInit /\ [][ExecNext]_<<vars, setting>>
ExecSpec   == ExecSafety /\ Fairness

----------------------------------------------------------------------------
Executing == PC \ {"idle", "erred", "done", "crashed", "finished"}

ExecTypeOK ==
  /\ TypeOK
  /\ setting \in Settings
  /\ pc      \in [Runs -> PC]
  /\ tally   \in [Runs -> Tally]
  /\ result  \in [Runs -> Category \cup {"ok"}]
  /\ verdict \in [Runs -> Verdict]
  /\ records \in [Runs -> 0..Total]
  /\ summary \in [Runs -> Status \cup {"none"}]
  /\ lock    \in Runs \cup {NoRun, Foreign}
  /\ run_log \in Runs \cup {NoRun}
  /\ signal  \in {NoSignal, CANCELLED, TERMINATED}

(* A run writes under the output root only while it holds the root's lock,   *)
(* and the lock is never left behind by a task that ended, failed early or    *)
(* crashed (execution.rs:133, 224-243).                                       *)
OutputRootExclusive == \A r \in Runs : pc[r] \in Holding <=> lock = r

(* The process-wide run-log slot mirrors to the run whose task opened it,     *)
(* until that task closes it: the log of the next run is never cut off or     *)
(* written into by the one before (execution.rs:136, 240-241; run_log.rs:4-27).*)
OneMirror == \A r \in Runs : pc[r] \in Mirroring <=> run_log = r

(* The handle is live exactly while the task executes, so the manager is busy *)
(* for as long as anything still measures or writes a summary.                *)
LiveWhileExecuting == \A r \in Runs : handle[r] = "live" <=> pc[r] \in Executing

(* What a summary's status is shown as in the window. *)
Shown(status) ==
  CASE status = "Success"        -> "Succeeded"
    [] status = "PartialFailure" -> "PartialFailure"
    [] status = "TotalFailure"   -> "Failed"
    [] status = "Cancelled"      -> "Cancelled"

(* When the manager shows a report, the summary is on disk and the state and  *)
(* exit code shown are the ones it holds, for every capability, although two  *)
(* functions derive them separately (execution.rs:170-205; manager.rs:24-32). *)
ReportAgrees ==
  active.report_path =>
    LET r == active.run_id IN
    /\ summary[r] # "none"
    /\ active.state = Shown(summary[r])
    /\ active.exit_code = verdict[r].code

(* Every measurement that is counted has its file, also after a crash and     *)
(* whatever the run's outcome; only the one whose write failed may not, and   *)
(* that failure ends the run (execution.rs:328-359; docs/architecture.md,     *)
(* "a cancelled run keeps what it completed").                                *)
CountedIsOnDisk ==
  \A r \in Runs :
    \/ tally[r].completed = records[r]
    \/ tally[r].completed = records[r] + 1 /\ result[r] = "Prerequisite"

(* A summary that says Success belongs to a run that went through its whole   *)
(* plan, failed nothing and has a record of each result (execution.rs:169-205).*)
SuccessIsComplete ==
  \A r \in Runs : summary[r] = "Success" =>
    /\ tally[r].item = Total
    /\ tally[r].failed = 0
    /\ records[r] = tally[r].completed

(* A cancelled CLI run reports the signal that stopped it: 143 for SIGTERM,   *)
(* 130 for SIGINT (execution.rs:170-171; cli/src/main.rs:373-382).            *)
SignalIsReported ==
  \A r \in Runs :
    (~Desktop /\ verdict[r].status = "Cancelled" /\ pc[r] # "crashed") => verdict[r].code = signal

(* A cancellation accepted while the run still measures ends it as Cancelled: *)
(* the loop stops at the next item and the summary says so.                   *)
CancelHonoured ==
  \A r \in Runs :
    (active.run_id = r /\ active.state = "Cancelling" /\ pc[r] \in Measuring)
      ~> (verdict[r].status = "Cancelled" \/ pc[r] = "crashed")

(* Every admitted run gives back the manager and the output root. *)
RunsEnd ==
  \A r \in Runs :
    (handle[r] = "live" \/ lock = r) ~> (handle[r] # "live" /\ lock # r)

(* Runs of one process keep apart, and keep other processes out, as long as   *)
(* they execute: the lock, the log and the manager's slot are each held for   *)
(* the same run (execution.rs:133-136, 224-243).                              *)
RunsAreApart == ExecTypeOK /\ OutputRootExclusive /\ OneMirror /\ LiveWhileExecuting

(* What a run says of itself is so: what is shown, what is counted and the    *)
(* code of a signal (execution.rs:170-205, 328-359; cli/src/main.rs:373-382). *)
ReportIsTrue == ReportAgrees /\ CountedIsOnDisk /\ SignalIsReported
============================================================================
