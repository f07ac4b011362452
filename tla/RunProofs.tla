---------------------------- MODULE RunProofs -------------------------------
(***************************************************************************)
(* Proofs about the run manager, about the runs it hands out, and about    *)
(* the desktop host that starts them.                                      *)
(***************************************************************************)
EXTENDS RunExecution, DesktopHost, TLAPS

----------------------------------------------------------------------------
(***************************************************************************)
(* The safety properties of RunManager for every set of runs, and that it  *)
(* implements OneSlot.  BusyIffOwned is what makes the rest inductive: the *)
(* steps of a live handle always find their own run in the record, and a   *)
(* late error report never finds an active one.                            *)
(***************************************************************************)

(* The shape of the record that TypeOK leaves open. *)
RecordShape ==
  /\ active.run_id = NoRun => active.state = "None"
  /\ active.run_id \in Runs => handle[active.run_id] # "unborn"

Inv == TypeOK /\ RecordShape /\ BusyIffOwned /\ ChannelCurrent /\ CancellingIsSignalled

(* The end state of every status is an end state (manager.rs:24-32). *)
LEMMA EndStates ==
  \A code, partial : from_exit_code(code, partial) \in TerminalState
BY DEF from_exit_code, TerminalState

(* Every error has a status (contracts/src/lib.rs:39-64). *)
LEMMA ErrorCodes ==
  ASSUME NEW is_throughput \in BOOLEAN, NEW category \in Category
  PROVE  for_error(is_throughput, category) \in Codes
BY DEF for_error, for_capability, throughput, Category, Codes, is_interrupted,
       SUCCESS, FAILURE, PARTIAL_FAILURE, TOTAL_FAILURE, INTERNAL, CANCELLED, TERMINATED

LEMMA StatesDiffer ==
  /\ \A s \in TerminalState : ~is_active(s)
  /\ is_active("Running") /\ is_active("Cancelling") /\ ~is_active("None")
BY DEF TerminalState, is_active, ActiveState

(* What a run's step needs of complete(): the record of its own run ends. *)
LEMMA Completed ==
  ASSUME Inv, NEW r \in Runs, handle[r] = "live",
         NEW code \in Codes, NEW path \in BOOLEAN, NEW partial \in BOOLEAN,
         complete(r, code, path, partial)
  PROVE  /\ active'  \in Progress
         /\ updates' = active'
         /\ active'.run_id = r
         /\ active'.state \in TerminalState
<1>1. active.run_id = r
  BY DEF Inv, BusyIffOwned
<1>2. from_exit_code(code, partial) \in TerminalState
  BY EndStates
<1>3. active' = [active EXCEPT !.state       = from_exit_code(code, partial),
                               !.exit_code   = code,
                               !.report_path = path]
  BY <1>1 DEF complete
<1>4. updates' = active'
  BY <1>1 DEF complete, publish
<1>5. active \in Progress
  BY DEF Inv, TypeOK
<1> QED
  BY <1>1, <1>2, <1>3, <1>4, <1>5 DEF Progress, RunState

LEMMA InitInv == Init => Inv
<1> SUFFICES ASSUME Init PROVE Inv
  OBVIOUS
<1>1. TypeOK
  BY TotalAssumption DEF Init, TypeOK, NoProgress, NewProgress, Progress, HandleState
<1>2. ~is_active(active.state) /\ RecordShape
  BY StatesDiffer, RunsAssumption DEF Init, NoProgress, NewProgress, RecordShape
<1>3. BusyIffOwned
  BY <1>2 DEF Init, BusyIffOwned
<1>4. ChannelCurrent /\ CancellingIsSignalled
  BY DEF Init, ChannelCurrent, CancellingIsSignalled, NoProgress, NewProgress
<1> QED
  BY <1>1, <1>2, <1>3, <1>4 DEF Inv

(* A step after which the channel holds the record itself. *)
LEMMA PublishedIsCurrent == updates' = active' => ChannelCurrent'
BY DEF ChannelCurrent

(* The step that admits a run: nobody holds a handle beforehand. *)
LEMMA BeginInv == ASSUME Inv, NEW r \in Runs, begin(r) PROVE Inv'
<1>1. NewProgress(r, "Running") \in Progress
  BY TotalAssumption DEF NewProgress, Progress, RunState, ActiveState
<1>2. active' = NewProgress(r, "Running") /\ updates' = active'
  BY DEF begin, publish
<1>3. TypeOK'
  BY <1>1, <1>2 DEF Inv, TypeOK, begin, HandleState
<1>4. BusyIffOwned'
  <2>1. \A q \in Runs : handle[q] # "live"
    BY DEF begin, Inv, BusyIffOwned
  <2>2. \A q \in Runs : handle'[q] = "live" <=> q = r
    BY <2>1 DEF begin, Inv, TypeOK
  <2>3. active'.run_id = r /\ is_active(active'.state)
    BY <1>2, StatesDiffer DEF NewProgress
  <2> QED
    BY <2>2, <2>3 DEF BusyIffOwned
<1>5. RecordShape' /\ CancellingIsSignalled'
  BY <1>2, RunsAssumption DEF NewProgress, begin, Inv, TypeOK, RecordShape, CancellingIsSignalled
<1> QED
  BY <1>2, <1>3, <1>4, <1>5, PublishedIsCurrent DEF Inv

LEMMA CancelInv == ASSUME Inv, NEW r \in Runs, cancel(r) PROVE Inv'
<1>1. active \in Progress /\ active.run_id = r
  BY DEF Inv, TypeOK, cancel
<1>2. /\ active' = [active EXCEPT !.state = "Cancelling"]
      /\ updates' = active' /\ handle' = handle /\ token' = token \cup {r}
  BY DEF cancel, publish
<1>3. active' \in Progress /\ active'.run_id = r /\ active'.state = "Cancelling"
  BY <1>1, <1>2 DEF Progress, RunState, ActiveState
<1>4. TypeOK'
  BY <1>2, <1>3 DEF Inv, TypeOK
<1>5. BusyIffOwned'
  BY <1>1, <1>2, <1>3, StatesDiffer DEF Inv, BusyIffOwned, cancel
<1>6. RecordShape' /\ CancellingIsSignalled'
  BY <1>1, <1>2, <1>3, RunsAssumption DEF Inv, RecordShape, CancellingIsSignalled
<1> QED
  BY <1>2, <1>4, <1>5, <1>6, PublishedIsCurrent DEF Inv

LEMMA TripInv == ASSUME Inv, NEW r \in Runs, trip(r) PROVE Inv'
BY DEF Inv, TypeOK, RecordShape, BusyIffOwned, ChannelCurrent, CancellingIsSignalled, trip

(* The count changes and the channel may keep the old one. *)
LEMMA ProgressInv == ASSUME Inv, NEW r \in Runs, NEW done \in Nat, progress(r, done) PROVE Inv'
<1>1. active \in Progress /\ updates \in Progress /\ active.run_id = r
  BY DEF Inv, TypeOK, progress, BusyIffOwned
<1>2. is_active(active.state)
  BY DEF Inv, progress, BusyIffOwned
<1>3. /\ active' = [active EXCEPT !.completed = AtMost(done, Total)]
      /\ updates' = active' \/ updates' = updates
      /\ token' = token /\ handle' = handle
  BY <1>1 DEF progress, publish
<1>4. AtMost(done, Total) \in 0..Total
  BY TotalAssumption DEF AtMost
<1>5. /\ active' \in Progress /\ active'.run_id = active.run_id
      /\ active'.state = active.state /\ active'.exit_code = active.exit_code
      /\ active'.report_path = active.report_path
  BY <1>1, <1>3, <1>4 DEF Progress
<1>6. TypeOK' /\ BusyIffOwned' /\ RecordShape' /\ CancellingIsSignalled'
  BY <1>1, <1>3, <1>5
  DEF Inv, TypeOK, BusyIffOwned, RecordShape, CancellingIsSignalled
<1>7. ChannelCurrent'
  <2>1. CASE updates' = active'
    BY <2>1, PublishedIsCurrent
  <2>2. CASE updates' = updates
    <3>1. /\ updates.run_id = active.run_id /\ updates.state = active.state
          /\ updates.exit_code = active.exit_code
          /\ updates.report_path = active.report_path
      BY <1>1 DEF Inv, ChannelCurrent, Progress
    <3>2. [updates EXCEPT !.completed = active'.completed] = active'
      BY <3>1, <1>1, <1>5 DEF Progress
    <3> QED
      BY <3>2, <2>2, <1>2, <1>5 DEF ChannelCurrent
  <2> QED
    BY <2>1, <2>2, <1>3
<1> QED
  BY <1>6, <1>7 DEF Inv

(* A handle that ends, finished or dropped. *)
LEMMA EndInv ==
  ASSUME Inv, NEW r \in Runs, handle[r] = "live",
         NEW code \in Codes, NEW path \in BOOLEAN, NEW partial \in BOOLEAN,
         complete(r, code, path, partial),
         handle' = [handle EXCEPT ![r] = "ended"],
         token' = token \/ token' = token \cup {r}
  PROVE  Inv'
<1>1. /\ active' \in Progress /\ updates' = active'
      /\ active'.run_id = r /\ active'.state \in TerminalState
  BY Completed
<1>2. ~is_active(active'.state)
  BY <1>1, StatesDiffer
<1>3. \A q \in Runs : handle'[q] # "live"
  BY DEF Inv, TypeOK, BusyIffOwned
<1>4. TypeOK'
  BY <1>1 DEF Inv, TypeOK, HandleState
<1>5. RecordShape' /\ BusyIffOwned' /\ CancellingIsSignalled'
  BY <1>1, <1>2, <1>3, StatesDiffer, RunsAssumption
  DEF RecordShape, BusyIffOwned, CancellingIsSignalled, Inv, TypeOK
<1> QED
  BY <1>1, <1>4, <1>5, PublishedIsCurrent DEF Inv

LEMMA FailureInv ==
  ASSUME Inv, NEW r \in Runs, NEW is_throughput \in BOOLEAN, NEW category \in Category,
         failure(r, is_throughput, category)
  PROVE  Inv'
<1>1. /\ handle[r] = "ended" /\ token' = token
      /\ handle' = [handle EXCEPT ![r] = "settled"]
  BY DEF failure
<1>2. \A q \in Runs : handle'[q] = "live" <=> handle[q] = "live"
  BY <1>1 DEF Inv, TypeOK
<1>3. CASE active.run_id = r
  <2>1. /\ active' = [active EXCEPT !.state     = "Failed",
                                    !.exit_code = for_error(is_throughput, category)]
        /\ updates' = active'
    BY <1>3 DEF failure, publish
  <2>2. active \in Progress /\ for_error(is_throughput, category) \in Codes
    BY ErrorCodes DEF Inv, TypeOK
  <2>3. active' \in Progress /\ active'.run_id = r /\ active'.state = "Failed"
    BY <2>1, <2>2, <1>3 DEF Progress, RunState, TerminalState
  <2>4. ~is_active(active'.state) /\ ~is_active(active.state)
    BY <2>3, <1>1, <1>3, StatesDiffer DEF TerminalState, Inv, BusyIffOwned
  <2>5. TypeOK'
    BY <2>1, <2>3, <1>1 DEF Inv, TypeOK, HandleState
  <2>6. BusyIffOwned'
    BY <2>3, <2>4, <1>2, <1>3 DEF Inv, BusyIffOwned
  <2>7. RecordShape' /\ CancellingIsSignalled'
    BY <2>3, <2>4, <1>1, RunsAssumption DEF RecordShape, CancellingIsSignalled, Inv, TypeOK
  <2> QED
    BY <2>1, <2>5, <2>6, <2>7, PublishedIsCurrent DEF Inv
<1>4. CASE active.run_id # r
  <2>1. active' = active /\ updates' = updates
    BY <1>4 DEF failure
  <2> QED
    BY <2>1, <1>1, <1>2
    DEF Inv, TypeOK, HandleState, RecordShape, BusyIffOwned, ChannelCurrent,
        CancellingIsSignalled
<1> QED
  BY <1>3, <1>4

LEMMA RestartInv == ASSUME Inv, restart PROVE Inv'
<1>1. active' = NoProgress /\ updates' = active' /\ token' = token
  BY DEF restart
<1>2. \A r \in Runs : handle'[r] # "live"
  BY DEF restart
<1>3. ~is_active(active'.state) /\ active'.state # "Cancelling"
  BY <1>1, StatesDiffer DEF NoProgress, NewProgress
<1>4. TypeOK'
  <2>1. NoProgress \in Progress
    BY TotalAssumption DEF NoProgress, NewProgress, Progress
  <2>2. handle' \in [Runs -> HandleState]
    BY DEF restart, HandleState
  <2> QED
    BY <2>1, <2>2, <1>1 DEF Inv, TypeOK
<1>5. RecordShape' /\ BusyIffOwned' /\ CancellingIsSignalled'
  BY <1>1, <1>2, <1>3, RunsAssumption
  DEF NoProgress, NewProgress, RecordShape, BusyIffOwned, CancellingIsSignalled
<1> QED
  BY <1>1, <1>4, <1>5, PublishedIsCurrent DEF Inv

LEMMA SomeCodes == INTERNAL \in Codes /\ CANCELLED \in Codes
BY DEF Codes

LEMMA StepInv == Inv /\ [Next]_managerVars => Inv'
<1> SUFFICES ASSUME Inv, [Next]_managerVars PROVE Inv'
  OBVIOUS
<1>1. CASE UNCHANGED managerVars
  BY <1>1 DEF managerVars, Inv, TypeOK, RecordShape, BusyIffOwned, ChannelCurrent,
              CancellingIsSignalled
<1>2. CASE restart
  BY <1>2, RestartInv
<1>3. ASSUME NEW r \in Runs, RunStep(r) PROVE Inv'
  <2>1. CASE begin(r)
    BY <2>1, BeginInv
  <2>2. CASE cancel(r)
    BY <2>2, CancelInv
  <2>2a. CASE trip(r)
    BY <2>2a, TripInv
  <2>3. CASE \E done \in {active.completed, active.completed + 1} : progress(r, done)
    <3>1. active.completed \in Nat
      BY TotalAssumption DEF Inv, TypeOK, Progress
    <3> QED
      BY <2>3, <3>1, ProgressInv
  <2>4. CASE \E code \in Codes, partial \in BOOLEAN : finish_outcome(r, code, TRUE, partial)
    BY <2>4, EndInv DEF finish_outcome
  <2>5. CASE finish_outcome(r, INTERNAL, FALSE, FALSE)
    BY <2>5, EndInv, SomeCodes DEF finish_outcome
  <2>6. CASE drop(r)
    BY <2>6, EndInv, SomeCodes DEF drop
  <2>7. CASE \E is_throughput \in BOOLEAN, category \in Category :
               failure(r, is_throughput, category)
    BY <2>7, FailureInv
  <2> QED
    BY <1>3, <2>1, <2>2, <2>3, <2>4, <2>5, <2>6, <2>7, <2>2a DEF RunStep
<1> QED
  BY <1>1, <1>2, <1>3 DEF Next

THEOREM Invariance == Spec => []Inv
BY InitInv, StepInv, PTL DEF Spec

(* The record, the channel and the handles keep their types. *)
THEOREM TypeCorrect == Spec => []TypeOK
BY Invariance, PTL DEF Inv

(* However many runs are requested, cancelled, dropped and reported late, the *)
(* manager is busy exactly while a task holds the handle of the run it shows. *)
THEOREM BusyIffOwnedHolds == Spec => []BusyIffOwned
BY Invariance, PTL DEF Inv

(* Nobody who reads the channel ever acts on a state the record has left. *)
THEOREM ChannelCurrentHolds == Spec => []ChannelCurrent
BY Invariance, PTL DEF Inv

(* A run shown as Cancelling always has its token cancelled. *)
THEOREM CancellingIsSignalledHolds == Spec => []CancellingIsSignalled
BY Invariance, PTL DEF Inv

----------------------------------------------------------------------------
(* What each operation does to the slot, and to an outcome already shown.     *)

LEMMA EndStep ==
  ASSUME Inv, NEW r \in Runs, handle[r] = "live",
         NEW code \in Codes, NEW path \in BOOLEAN, NEW partial \in BOOLEAN,
         complete(r, code, path, partial),
         handle' = [handle EXCEPT ![r] = "ended"]
  PROVE  /\ is_active(active.state) /\ active.run_id = r /\ active'.run_id = r
         /\ ~is_active(active'.state)
         /\ handle'[r] = "ended" /\ Admitted' = Admitted
<1>1. is_active(active.state) /\ active.run_id = r
  BY DEF Inv, BusyIffOwned
<1>2. active'.run_id = r /\ ~is_active(active'.state)
  BY Completed, StatesDiffer
<1>3. handle'[r] = "ended" /\ Admitted' = Admitted
  BY DEF Inv, TypeOK, Admitted
<1> QED
  BY <1>1, <1>2, <1>3

LEMMA FailureStep ==
  ASSUME Inv, NEW r \in Runs, NEW is_throughput \in BOOLEAN, NEW category \in Category,
         failure(r, is_throughput, category)
  PROVE  /\ Admitted' = Admitted
         /\ active' = active
            \/ /\ ~is_active(active.state) /\ ~is_active(active'.state)
               /\ active'.state = "Failed"
<1>1. Admitted' = Admitted
  BY DEF failure, Admitted, Inv, TypeOK
<1>2. CASE active.run_id = r
  <2>1. ~is_active(active.state)
    BY <1>2 DEF failure, Inv, BusyIffOwned
  <2>2. active'.state = "Failed"
    BY <1>2 DEF failure, Inv, TypeOK, Progress
  <2> QED
    BY <1>1, <2>1, <2>2, StatesDiffer DEF TerminalState
<1>3. CASE active.run_id # r
  BY <1>1, <1>3 DEF failure
<1> QED
  BY <1>2, <1>3

(* Every step is an operation that keeps the slot, takes it or gives it back. *)
LEMMA Steps ==
  ASSUME Inv, [Next]_managerVars
  PROVE  \/ /\ Admitted' = Admitted
            /\ active'.run_id = active.run_id
            /\ \/ active'.state = active.state
               \/ is_active(active.state) /\ is_active(active'.state)
               \/ /\ ~is_active(active.state) /\ ~is_active(active'.state)
                  /\ active'.state = "Failed"
         \/ /\ Admitted' = Admitted
            /\ active.run_id \in Runs
            /\ is_active(active.state) /\ ~is_active(active'.state)
            /\ handle'[active.run_id] \in {"ended", "settled"}
         \/ /\ Admitted' = Admitted
            /\ ~is_active(active.state) /\ active' = NoProgress
         \/ \E r \in Runs : begin(r)
<1>1. CASE UNCHANGED managerVars
  BY <1>1 DEF managerVars, Admitted
<1>2. CASE restart
  <2>1. Admitted' = Admitted
    BY <1>2 DEF restart, Admitted
  <2>2. active' = NoProgress /\ ~is_active(active'.state)
    BY <1>2, StatesDiffer DEF restart, NoProgress, NewProgress
  <2>3. CASE is_active(active.state)
    <3>1. active.run_id \in Runs
      BY <2>3, StatesDiffer DEF Inv, TypeOK, Progress, RecordShape
    <3>2. handle'[active.run_id] = "settled"
      BY <1>2, <2>3, <3>1 DEF restart, Inv, BusyIffOwned
    <3> QED
      BY <2>1, <2>2, <2>3, <3>1, <3>2
  <2> QED
    BY <2>1, <2>2, <2>3
<1>3. ASSUME NEW r \in Runs, cancel(r)
      PROVE  /\ Admitted' = Admitted /\ active'.run_id = active.run_id
             /\ is_active(active.state) /\ is_active(active'.state)
  BY <1>3, StatesDiffer DEF cancel, Admitted, Inv, TypeOK, Progress
<1>3a. ASSUME NEW r \in Runs, trip(r)
      PROVE  Admitted' = Admitted /\ active' = active
  BY <1>3a DEF trip, Admitted
<1>4. ASSUME NEW r \in Runs, NEW done, progress(r, done)
      PROVE  /\ Admitted' = Admitted /\ active'.run_id = active.run_id
             /\ active'.state = active.state
  BY <1>4 DEF progress, Admitted, Inv, TypeOK, Progress
<1>5. ASSUME NEW r \in Runs, NEW code \in Codes, NEW path \in BOOLEAN,
             NEW partial \in BOOLEAN, finish_outcome(r, code, path, partial)
      PROVE  /\ is_active(active.state) /\ active.run_id = r /\ ~is_active(active'.state)
             /\ handle'[r] = "ended" /\ Admitted' = Admitted
  BY <1>5, EndStep DEF finish_outcome
<1>6. ASSUME NEW r \in Runs, drop(r)
      PROVE  /\ is_active(active.state) /\ active.run_id = r /\ ~is_active(active'.state)
             /\ handle'[r] = "ended" /\ Admitted' = Admitted
  BY <1>6, EndStep, SomeCodes DEF drop
<1>7. ASSUME NEW r \in Runs, NEW is_throughput \in BOOLEAN, NEW category \in Category,
             failure(r, is_throughput, category)
      PROVE  /\ Admitted' = Admitted /\ active'.run_id = active.run_id
             /\ \/ active'.state = active.state
                \/ /\ ~is_active(active.state) /\ ~is_active(active'.state)
                   /\ active'.state = "Failed"
  <2>1. active'.run_id = active.run_id
    BY <1>7 DEF failure, Inv, TypeOK, Progress
  <2> QED
    BY <1>7, <2>1, FailureStep
<1> QED
  BY <1>1, <1>2, <1>3, <1>4, <1>5, <1>6, <1>7, <1>3a, SomeCodes DEF Next, RunStep

(* A run that is shown as active is only ended by its own handle, or together *)
(* with the process.                                                          *)
THEOREM EndedOnlyByOwnerHolds == Spec => EndedOnlyByOwner
<1>1. Inv /\ [Next]_managerVars =>
        [ (is_active(active.state) /\ ~is_active(active'.state))
            => handle'[active.run_id] \in {"ended", "settled"} ]_managerVars
  <2> SUFFICES ASSUME Inv, [Next]_managerVars,
                      is_active(active.state), ~is_active(active'.state)
               PROVE  handle'[active.run_id] \in {"ended", "settled"}
    OBVIOUS
  <2>1. \A r \in Runs : ~begin(r)
    BY DEF begin
  <2> QED
    BY <2>1, Steps
<1> QED
  BY <1>1, Invariance, PTL DEF Spec, EndedOnlyByOwner

(* A shown outcome stays, unless the same run's error turns it into Failed.   *)
THEOREM OutcomeOnlyBecomesFailedHolds == Spec => OutcomeOnlyBecomesFailed
<1>1. Inv /\ [Next]_managerVars =>
        [ (active.state \in TerminalState /\ active'.run_id = active.run_id)
            => active'.state \in {active.state, "Failed"} ]_managerVars
  <2> SUFFICES ASSUME Inv, [Next]_managerVars,
                      active.state \in TerminalState, active'.run_id = active.run_id
               PROVE  active'.state \in {active.state, "Failed"}
    OBVIOUS
  <2>1. ~is_active(active.state)
    BY StatesDiffer
  <2>2. ASSUME NEW r \in Runs, begin(r) PROVE FALSE
    BY <2>2 DEF begin, NewProgress, Inv, RecordShape
  <2>3. active' # NoProgress
    BY DEF NoProgress, NewProgress, Inv, RecordShape, TerminalState
  <2> QED
    BY <2>1, <2>2, <2>3, Steps
<1> QED
  BY <1>1, Invariance, PTL DEF Spec, OutcomeOnlyBecomesFailed

(* The manager is a slot for one run: it is taken only while free, by each    *)
(* run at most once, and given back before the next run gets it.              *)
THEOREM ManagerImplementsOneSlot == Spec => ImplementsOneSlot
<1>1. Init => Slot!Init
  BY StatesDiffer DEF Init, Slot!Init, SlotHolder, Admitted, NoProgress, NewProgress
<1>2. ASSUME Inv, [Next]_managerVars PROVE [Slot!Next]_<<SlotHolder, Admitted>>
  <2>1. CASE \E r \in Runs : begin(r)
    <3>1. PICK r \in Runs : begin(r)
      BY <2>1
    <3>2. SlotHolder = NoRun /\ SlotHolder' = r
      BY <3>1, StatesDiffer DEF begin, NewProgress, SlotHolder
    <3>3. r \notin Admitted /\ Admitted' = Admitted \cup {r}
      BY <3>1, <1>2 DEF begin, Admitted, Inv, TypeOK
    <3> QED
      BY <3>2, <3>3 DEF Slot!Next, Slot!Take
  <2>2. CASE /\ Admitted' = Admitted /\ active.run_id \in Runs
             /\ is_active(active.state) /\ ~is_active(active'.state)
    BY <2>2, RunsAssumption DEF SlotHolder, Slot!Next, Slot!Release
  <2>3. CASE /\ Admitted' = Admitted /\ active'.run_id = active.run_id
             /\ is_active(active.state) <=> is_active(active'.state)
    BY <2>3 DEF SlotHolder
  <2>4. CASE /\ Admitted' = Admitted
             /\ ~is_active(active.state) /\ active' = NoProgress
    BY <2>4, StatesDiffer DEF SlotHolder, NoProgress, NewProgress
  <2> QED
    BY <1>2, <2>1, <2>2, <2>3, <2>4, Steps
<1> QED
  BY <1>1, <1>2, Invariance, PTL DEF Spec, ImplementsOneSlot, Slot!Spec

----------------------------------------------------------------------------
(***************************************************************************)
(* Proof, for any runs, plans and settings, that the runs of one process   *)
(* keep apart and keep other processes out, that what a run counts is on   *)
(* disk, and that a summary says Success only of a whole run.              *)
(*                                                                         *)
(* The place of a run's task tells what it holds: the lock of the output   *)
(* root, the slot of the run log, its live handle.  Each step moves one    *)
(* task and takes or gives back at most what that place says.              *)
(***************************************************************************)

Results == Category \cup {"ok"}

(* What of an execution relates to its place: the counts grow in order, an   *)
(* item is one of the plan, and whatever ends without a summary has an error.*)
Accounted(r) ==
  /\ tally[r].failed <= tally[r].completed /\ tally[r].completed <= tally[r].item
  /\ records[r] <= tally[r].completed
  /\ pc[r] = "inside" => tally[r].item < Total
  /\ pc[r] \in Measuring => tally[r].completed = records[r]
  /\ pc[r] \in {"failing", "dropping", "erred"} => result[r] # "ok"
  /\ pc[r] \in {"written", "unmirrored", "finished"} /\ ~verdict[r].saved => result[r] # "ok"
  /\ tally[r].completed = records[r] \/ pc[r] \notin {"idle", "spawned", "locked"}

ExecInv ==
  /\ ExecTypeOK /\ Inv
  /\ OutputRootExclusive /\ OneMirror /\ LiveWhileExecuting
  /\ CountedIsOnDisk /\ \A r \in Runs : Accounted(r)

(* The handles but for that of r are as live as before. *)
HandleOf(r, live) ==
  \A q \in Runs : handle'[q] = "live" <=> IF q = r THEN live ELSE handle[q] = "live"

----------------------------------------------------------------------------
LEMMA Places ==
  /\ Mirroring = {"between", "inside", "ended", "judged", "written"}
  /\ Holding = {"between", "inside", "ended", "judged", "written", "locked", "failing",
                "unmirrored", "finished"}
  /\ Executing = {"between", "inside", "ended", "judged", "written", "locked", "failing",
                  "unmirrored", "spawned", "dropping"}
  /\ PC = {"between", "inside", "ended", "judged", "written", "locked", "failing", "unmirrored",
           "finished", "idle", "spawned", "dropping", "erred", "done", "crashed"}
BY DEF Mirroring, Holding, Executing, PC, Measuring

(* What the operations of the manager do to the handles (manager.rs:69-227). *)
LEMMA HandleMoves ==
  ASSUME Inv, NEW r \in Runs
  PROVE  /\ begin(r) => HandleOf(r, TRUE)
         /\ cancel(r) => handle' = handle
         /\ trip(r) => handle' = handle
         /\ \A done : progress(r, done) => handle' = handle
         /\ \A code, path, partial : finish_outcome(r, code, path, partial) => HandleOf(r, FALSE)
         /\ drop(r) => HandleOf(r, FALSE)
         /\ \A t, category : failure(r, t, category) => handle[r] = "ended" /\ HandleOf(r, FALSE)
<1>1. handle \in [Runs -> HandleState]
  BY DEF Inv, TypeOK
<1> QED
  BY <1>1 DEF begin, cancel, trip, progress, finish_outcome, drop, failure, HandleOf

(* The place of r changes, with what it holds. *)
LEMMA PlaceInv ==
  ASSUME ExecInv, NEW r \in Runs, NEW label \in PC, goto(r, label),
         HandleOf(r, label \in Executing),
         \/ lock' = lock /\ (label \in Holding <=> pc[r] \in Holding)
         \/ lock = NoRun /\ lock' = r /\ label \in Holding
         \/ pc[r] \in Holding /\ lock' = NoRun /\ label \notin Holding,
         \/ run_log' = run_log /\ (label \in Mirroring <=> pc[r] \in Mirroring)
         \/ pc[r] \in Holding /\ run_log' = r /\ label \in Mirroring
         \/ pc[r] \in Mirroring /\ run_log' = NoRun /\ label \notin Mirroring
  PROVE  /\ pc' \in [Runs -> PC] /\ (\A q \in Runs : pc'[q] = IF q = r THEN label ELSE pc[q])
         /\ lock' \in Runs \cup {NoRun, Foreign} /\ run_log' \in Runs \cup {NoRun}
         /\ OutputRootExclusive' /\ OneMirror' /\ LiveWhileExecuting'
<1>1. pc' \in [Runs -> PC] /\ (\A q \in Runs : pc'[q] = IF q = r THEN label ELSE pc[q])
  BY DEF ExecInv, ExecTypeOK, goto
<1>2. lock' \in Runs \cup {NoRun, Foreign} /\ run_log' \in Runs \cup {NoRun}
  BY DEF ExecInv, ExecTypeOK
<1>3. OutputRootExclusive'
  BY <1>1, RunsAssumption DEF ExecInv, OutputRootExclusive
<1>4. OneMirror'
  <2>1. \A q \in Runs : pc[q] \in Mirroring => pc[q] \in Holding
    BY DEF Holding
  <2>2. \A q \in Runs : pc[r] \in Holding /\ pc[q] \in Holding => q = r
    BY DEF ExecInv, OutputRootExclusive
  <2> QED
    BY <1>1, <2>1, <2>2, RunsAssumption DEF ExecInv, OneMirror
<1>5. LiveWhileExecuting'
  BY <1>1 DEF ExecInv, LiveWhileExecuting, HandleOf
<1> QED
  BY <1>1, <1>2, <1>3, <1>4, <1>5

(* The data of r changes with its place, to what fits there. *)
LEMMA DataInv ==
  ASSUME ExecInv, Inv', NEW r \in Runs, NEW label \in PC,
         \A q \in Runs : pc'[q] = IF q = r THEN label ELSE pc[q],
         setting' = setting, signal' = signal,
         pc' \in [Runs -> PC],
         lock' \in Runs \cup {NoRun, Foreign}, run_log' \in Runs \cup {NoRun},
         OutputRootExclusive', OneMirror', LiveWhileExecuting',
         tally' \in [Runs -> Tally], result' \in [Runs -> Results],
         verdict' \in [Runs -> Verdict], records' \in [Runs -> 0..Total],
         summary' \in [Runs -> Status \cup {"none"}],
         \A q \in Runs \ {r} : /\ tally'[q] = tally[q] /\ result'[q] = result[q]
                               /\ verdict'[q] = verdict[q] /\ records'[q] = records[q],
         Accounted(r)',
         \/ tally'[r].completed = records'[r]
         \/ tally'[r].completed = records'[r] + 1 /\ result'[r] = "Prerequisite"
  PROVE  ExecInv'
<1>1. ExecTypeOK'
  BY DEF ExecInv, ExecTypeOK, Inv, Results
<1>2. CountedIsOnDisk'
  BY DEF ExecInv, CountedIsOnDisk
<1>3. \A q \in Runs : Accounted(q)'
  BY DEF ExecInv, Accounted
<1> QED
  BY <1>1, <1>2, <1>3 DEF ExecInv

(* The same, when nothing but the result is touched. *)
LEMMA ResultInv ==
  ASSUME ExecInv, Inv', NEW r \in Runs, NEW label \in PC,
         \A q \in Runs : pc'[q] = IF q = r THEN label ELSE pc[q],
         UNCHANGED <<setting, signal, tally, verdict, records, summary>>,
         pc' \in [Runs -> PC],
         lock' \in Runs \cup {NoRun, Foreign}, run_log' \in Runs \cup {NoRun},
         OutputRootExclusive', OneMirror', LiveWhileExecuting',
         NEW value \in Results, result' = [result EXCEPT ![r] = value],
         value = result[r] \/ pc[r] \in {"spawned", "locked"} \cup Measuring,
         label = "inside" => tally[r].item < Total,
         label \in Measuring => pc[r] \in {"locked"} \cup Measuring,
         label \in {"failing", "dropping", "erred"} => value # "ok",
         label \in {"written", "unmirrored", "finished"} /\ ~verdict[r].saved => value # "ok",
         label \in {"idle", "spawned", "locked"} => pc[r] \in {"idle", "spawned", "locked"}
  PROVE  ExecInv'
<1>1. result' \in [Runs -> Results] /\ result'[r] = value
        /\ \A q \in Runs \ {r} : result'[q] = result[q]
  BY DEF ExecInv, ExecTypeOK, Results
<1>2. /\ tally \in [Runs -> Tally] /\ verdict \in [Runs -> Verdict]
      /\ records \in [Runs -> 0..Total] /\ summary \in [Runs -> Status \cup {"none"}]
  BY DEF ExecInv, ExecTypeOK
<1>3. pc'[r] = label /\ Accounted(r)
  BY DEF ExecInv
<1>4. pc[r] \in {"spawned", "locked"} \cup Measuring => tally[r].completed = records[r]
  BY <1>3 DEF Accounted
<1>5. Accounted(r)'
  BY <1>1, <1>3, <1>4 DEF Accounted
<1>6. \/ tally[r].completed = records[r]
      \/ tally[r].completed = records[r] + 1 /\ result'[r] = "Prerequisite"
  BY <1>1, <1>4 DEF ExecInv, CountedIsOnDisk
<1> QED
  BY <1>1, <1>2, <1>5, <1>6, DataInv

(* A run is admitted, takes the output root and opens its log                *)
(* (execution.rs:126-167).                                                   *)
LEMMA BeginningInv ==
  ASSUME ExecInv, NEW r \in Runs, setting' = setting,
         Start(r) \/ Acquire(r) \/ Refused(r) \/ SetupFails(r) \/ Open(r)
  PROVE  ExecInv'
<1>1. PICK label \in PC, value \in Results :
        /\ goto(r, label) /\ result' = [result EXCEPT ![r] = value]
        /\ UNCHANGED <<tally, verdict, records, summary, signal>>
        /\ \/ /\ pc[r] = "idle" /\ label = "spawned" /\ value = result[r] /\ begin(r)
              /\ UNCHANGED <<lock, run_log>>
           \/ /\ pc[r] = "spawned" /\ label = "locked" /\ value = result[r]
              /\ lock = NoRun /\ lock' = r /\ run_log' = run_log /\ UNCHANGED managerVars
           \/ /\ pc[r] = "spawned" /\ label = "dropping" /\ value = "Busy"
              /\ UNCHANGED <<lock, run_log>> /\ UNCHANGED managerVars
           \/ /\ pc[r] = "locked" /\ label = "failing" /\ value = "Prerequisite"
              /\ UNCHANGED <<lock, run_log>> /\ UNCHANGED managerVars
           \/ /\ pc[r] = "locked" /\ label = "between" /\ value = result[r]
              /\ lock' = lock /\ run_log' = r
              /\ UNCHANGED managerVars \/ trip(r)
  <2>1. /\ {"spawned", "locked", "dropping", "failing", "between"} \subseteq PC
        /\ {"Busy", "Prerequisite", result[r]} \subseteq Results
        /\ result = [result EXCEPT ![r] = result[r]]
    BY Places DEF ExecInv, ExecTypeOK, Results, Category
  <2>2. CASE Start(r)
    BY <2>1, <2>2 DEF Start, diskVars
  <2>3. CASE Acquire(r)
    BY <2>1, <2>3 DEF Acquire, diskVars
  <2>4. CASE Refused(r)
    BY <2>1, <2>4 DEF Refused, diskVars
  <2>5. CASE SetupFails(r)
    BY <2>1, <2>5 DEF SetupFails, diskVars
  <2>6. CASE Open(r)
    BY <2>1, <2>6 DEF Open, diskVars
  <2> QED
    BY <2>2, <2>3, <2>4, <2>5, <2>6
<1>2. Inv' /\ HandleOf(r, label \in Executing)
  <2>1. handle[r] = "live" <=> pc[r] \in Executing
    BY DEF ExecInv, LiveWhileExecuting
  <2>2. CASE begin(r)
    BY <1>1, <2>2, BeginInv, HandleMoves, Places DEF ExecInv, begin, HandleOf
  <2>3. CASE trip(r) /\ ~begin(r)
    BY <1>1, <2>1, <2>3, TripInv, HandleMoves, Places DEF ExecInv, HandleOf
  <2>4. CASE UNCHANGED managerVars /\ ~begin(r)
    <3>1. Inv' /\ handle' = handle
      BY <2>4, StepInv DEF ExecInv, managerVars
    <3>2. label \in Executing <=> pc[r] \in Executing
      BY <1>1, <2>4, Places
    <3> QED
      BY <2>1, <3>1, <3>2 DEF HandleOf
  <2> QED
    BY <1>1, <2>2, <2>3, <2>4
<1>3. /\ pc' \in [Runs -> PC] /\ (\A q \in Runs : pc'[q] = IF q = r THEN label ELSE pc[q])
      /\ lock' \in Runs \cup {NoRun, Foreign} /\ run_log' \in Runs \cup {NoRun}
      /\ OutputRootExclusive' /\ OneMirror' /\ LiveWhileExecuting'
  BY <1>1, <1>2, PlaceInv, Places
<1>4. /\ value = result[r] \/ pc[r] \in {"spawned", "locked"} \cup Measuring
      /\ label = "inside" => tally[r].item < Total
      /\ label \in Measuring => pc[r] \in {"locked"} \cup Measuring
      /\ label \in {"failing", "dropping", "erred"} => value # "ok"
      /\ label \in {"written", "unmirrored", "finished"} /\ ~verdict[r].saved => value # "ok"
      /\ label \in {"idle", "spawned", "locked"} => pc[r] \in {"idle", "spawned", "locked"}
  BY <1>1 DEF Measuring
<1> QED
  BY <1>1, <1>2, <1>3, <1>4, ResultInv

(* A step of the measurement leaves what the run holds. *)
LEMMA MeasuringPlace ==
  ASSUME ExecInv, NEW r \in Runs, NEW label \in {"between", "inside", "ended"}, goto(r, label),
         pc[r] \in Measuring, handle' = handle, UNCHANGED <<lock, run_log>>
  PROVE  /\ pc' \in [Runs -> PC] /\ (\A q \in Runs : pc'[q] = IF q = r THEN label ELSE pc[q])
         /\ lock' \in Runs \cup {NoRun, Foreign} /\ run_log' \in Runs \cup {NoRun}
         /\ OutputRootExclusive' /\ OneMirror' /\ LiveWhileExecuting'
<1>1. label \in PC /\ pc[r] \in Holding /\ pc[r] \in Mirroring /\ pc[r] \in Executing
        /\ label \in Holding /\ label \in Mirroring /\ label \in Executing
  BY Places DEF Measuring
<1>2. HandleOf(r, label \in Executing)
  BY <1>1 DEF HandleOf, ExecInv, LiveWhileExecuting
<1> QED
  BY <1>1, <1>2, PlaceInv

(* The loop, but for what it records (execution.rs:244-321). *)
LEMMA LoopStepsInv ==
  ASSUME ExecInv, NEW r \in Runs, setting' = setting,
         StartItem(r) \/ EndLoop(r) \/ StepFails(r) \/ EngineStops(r)
  PROVE  ExecInv'
<1>1. PICK label \in {"between", "inside", "ended"}, value \in Results :
        /\ goto(r, label) /\ result' = [result EXCEPT ![r] = value]
        /\ pc[r] \in Measuring /\ (label = "inside" => tally[r].item < Total) /\ label # "between"
        /\ UNCHANGED <<tally, verdict, records, summary, signal, lock, run_log>>
        /\ UNCHANGED managerVars
  <2>1. /\ {"ok", "Cancelled", "Connectivity", "Prerequisite", result[r]} \subseteq Results
        /\ result = [result EXCEPT ![r] = result[r]]
    BY DEF ExecInv, ExecTypeOK, Results, Category
  <2>2. CASE StartItem(r)
    BY <2>1, <2>2 DEF StartItem, diskVars, Measuring
  <2>3. CASE EndLoop(r)
    BY <2>1, <2>3 DEF EndLoop, return, diskVars, Measuring
  <2>4. CASE StepFails(r)
    BY <2>1, <2>4 DEF StepFails, return, diskVars, Measuring
  <2>5. CASE EngineStops(r)
    BY <2>1, <2>5 DEF EngineStops, return, diskVars, Measuring
  <2> QED
    BY <2>2, <2>3, <2>4, <2>5
<1>2. Inv'
  BY <1>1, StepInv DEF ExecInv
<1>3. handle' = handle /\ label \in PC
  BY <1>1, Places DEF managerVars
<1>4. /\ pc' \in [Runs -> PC] /\ (\A q \in Runs : pc'[q] = IF q = r THEN label ELSE pc[q])
      /\ lock' \in Runs \cup {NoRun, Foreign} /\ run_log' \in Runs \cup {NoRun}
      /\ OutputRootExclusive' /\ OneMirror' /\ LiveWhileExecuting'
  BY <1>1, <1>3, MeasuringPlace
<1> QED
  BY <1>1, <1>2, <1>3, <1>4, ResultInv

(* An item is passed over, or counted and then written (execution.rs:328-359). *)
LEMMA CountedInv ==
  ASSUME ExecInv, NEW r \in Runs, setting' = setting,
         \/ SkipItem(r)
         \/ \E grade \in Grade : Record(r, grade)
         \/ \E grade \in Grade, landed \in BOOLEAN : RecordFails(r, grade, landed)
  PROVE  ExecInv'
<1>0. Total \in Nat /\ pc[r] \in PC /\ Accounted(r) /\ tally[r] \in Tally /\ records[r] \in 0..Total
  BY TotalAssumption DEF ExecInv, ExecTypeOK
<1>1. PICK t \in Tally, n \in 0..Total, value \in Results, label \in {"between", "ended"} :
        /\ goto(r, label) /\ pc[r] \in Measuring
        /\ tally' = [tally EXCEPT ![r] = t] /\ records' = [records EXCEPT ![r] = n]
        /\ result' = [result EXCEPT ![r] = value]
        /\ t.failed <= t.completed /\ t.completed <= t.item /\ n <= t.completed
        /\ \/ t.completed = n
           \/ t.completed = n + 1 /\ value = "Prerequisite" /\ label = "ended"
        /\ UNCHANGED <<verdict, summary, signal, lock, run_log>>
        /\ \/ UNCHANGED managerVars
           \/ \E done \in Nat : progress(r, done)
  <2>1. /\ "Prerequisite" \in Results /\ result[r] \in Results
        /\ result = [result EXCEPT ![r] = result[r]]
        /\ records = [records EXCEPT ![r] = records[r]]
        /\ tally \in [Runs -> Tally] /\ records \in [Runs -> 0..Total]
    BY DEF ExecInv, ExecTypeOK, Results, Category
  <2>2. CASE SkipItem(r)
    <3> DEFINE t == [tally[r] EXCEPT !.item = @ + 1]
    <3>1. /\ pc[r] = "between" /\ tally[r].item < Total
          /\ tally' = [tally EXCEPT ![r] = t] /\ pc' = pc
          /\ UNCHANGED <<result, verdict, diskVars, lock, run_log, signal>>
          /\ UNCHANGED managerVars
      BY <1>0, <2>2 DEF SkipItem
    <3>2. t \in Tally /\ t.failed = tally[r].failed /\ t.completed = tally[r].completed
            /\ t.item = tally[r].item + 1
      BY <1>0, <3>1 DEF Tally
    <3>3. goto(r, "between")
      BY <3>1 DEF goto, ExecInv, ExecTypeOK
    <3>4. t.failed <= t.completed /\ t.completed <= t.item /\ records[r] = t.completed
      BY <1>0, <3>1, <3>2 DEF Accounted, Tally, Measuring
    <3> HIDE DEF t
    <3>5. /\ goto(r, "between") /\ pc[r] \in Measuring
          /\ tally' = [tally EXCEPT ![r] = t] /\ records' = [records EXCEPT ![r] = records[r]]
          /\ result' = [result EXCEPT ![r] = result[r]]
          /\ t.failed <= t.completed /\ t.completed <= t.item /\ records[r] <= t.completed
          /\ t.completed = records[r]
          /\ UNCHANGED <<verdict, summary, signal, lock, run_log>> /\ UNCHANGED managerVars
      BY <1>0, <2>1, <3>1, <3>3, <3>4 DEF diskVars, Measuring
    <3> QED
      BY <1>0, <2>1, <3>2, <3>5
  <2>3. ASSUME NEW grade \in Grade, NEW landed \in BOOLEAN,
               \/ Record(r, grade) /\ landed
               \/ RecordFails(r, grade, landed)
        PROVE  \E t \in Tally, n \in 0..Total :
                 /\ pc[r] = "inside"
                 /\ tally' = [tally EXCEPT ![r] = t] /\ records' = [records EXCEPT ![r] = n]
                 /\ t.failed <= t.completed /\ t.completed <= t.item /\ n <= t.completed
                 /\ t.completed = IF landed THEN n ELSE n + 1
    <3> DEFINE t == [item |-> tally[r].item + 1, completed |-> tally[r].completed + 1,
                     failed |-> IF grade = "failed" THEN tally[r].failed + 1 ELSE tally[r].failed,
                     notable |-> tally[r].notable \/ grade = "notable"]
               n == IF landed THEN records[r] + 1 ELSE records[r]
    <3>1. pc[r] = "inside" /\ tally' = counted(r, grade)
      BY <2>3 DEF Record, RecordFails
    <3>2. tally[r].item < Total /\ tally[r].completed = records[r]
            /\ tally[r].failed <= tally[r].completed /\ tally[r].completed <= tally[r].item
      BY <1>0, <3>1 DEF Accounted, Measuring
    <3>3. t \in Tally
      BY <1>0, <3>2 DEF Tally
    <3>4. tally' = [tally EXCEPT ![r] = t]
      BY <2>1, <3>1 DEF counted, Tally
    <3>5. n \in 0..Total /\ records' = [records EXCEPT ![r] = n]
      BY <1>0, <2>1, <2>3, <3>2 DEF Record, RecordFails, Tally
    <3>6. t.failed <= t.completed /\ t.completed <= t.item /\ n <= t.completed
            /\ t.completed = IF landed THEN n ELSE n + 1
      BY <1>0, <3>2 DEF Tally
    <3> HIDE DEF t, n
    <3> QED
      BY <3>1, <3>3, <3>4, <3>5, <3>6
  <2>4. ASSUME NEW grade \in Grade, Record(r, grade)
        PROVE  /\ goto(r, "between") /\ UNCHANGED <<result, verdict, summary, signal, lock, run_log>>
               /\ \E done \in Nat : progress(r, done)
    <3>1. tally'[r].completed = tally[r].completed + 1 /\ tally[r].completed + 1 \in Nat
      <4>1. tally' = counted(r, grade) /\ tally[r].completed \in Nat
        BY <1>0, <2>4 DEF Record, Tally
      <4>2. tally'[r] = [[tally[r] EXCEPT !.item = @ + 1] EXCEPT !.completed = @ + 1,
                           !.failed = IF grade = "failed" THEN @ + 1 ELSE @,
                           !.notable = @ \/ grade = "notable"]
        BY <2>1, <4>1 DEF counted, Tally
      <4> QED
        BY <1>0, <4>1, <4>2 DEF Tally
    <3> QED
      BY <2>4, <3>1 DEF Record
  <2>5. ASSUME NEW grade \in Grade, Record(r, grade)
        PROVE  \E t \in Tally, n \in 0..Total :
                 /\ pc[r] = "inside"
                 /\ tally' = [tally EXCEPT ![r] = t] /\ records' = [records EXCEPT ![r] = n]
                 /\ t.failed <= t.completed /\ t.completed <= t.item /\ n <= t.completed
                 /\ t.completed = n
    <3>1. Record(r, grade) /\ TRUE
      BY <2>5
    <3> QED
      BY <2>3, <3>1
  <2>6. CASE \E grade \in Grade : Record(r, grade)
    BY <2>1, <2>4, <2>5, <2>6 DEF Measuring
  <2>7. ASSUME NEW grade \in Grade, NEW landed \in BOOLEAN, RecordFails(r, grade, landed)
        PROVE  /\ goto(r, "ended") /\ result' = [result EXCEPT ![r] = "Prerequisite"]
               /\ UNCHANGED <<verdict, summary, signal, lock, run_log>> /\ UNCHANGED managerVars
    BY <2>7 DEF RecordFails, return
  <2>8. CASE \E grade \in Grade, landed \in BOOLEAN : RecordFails(r, grade, landed)
    <3>1. PICK grade \in Grade, landed \in BOOLEAN : RecordFails(r, grade, landed)
      BY <2>8
    <3>2. PICK t \in Tally, n \in 0..Total :
                 /\ pc[r] = "inside"
                 /\ tally' = [tally EXCEPT ![r] = t] /\ records' = [records EXCEPT ![r] = n]
                 /\ t.failed <= t.completed /\ t.completed <= t.item /\ n <= t.completed
                 /\ t.completed = IF landed THEN n ELSE n + 1
      BY <2>3, <3>1
    <3> QED
      BY <2>1, <2>7, <3>1, <3>2 DEF Measuring
  <2> QED
    BY <2>2, <2>6, <2>8
<1>2. Inv' /\ handle' = handle
  <2>1. CASE UNCHANGED managerVars
    BY <2>1, StepInv DEF ExecInv, managerVars
  <2>2. CASE \E done \in Nat : progress(r, done)
    BY <2>2, ProgressInv, HandleMoves DEF ExecInv
  <2> QED
    BY <1>1, <2>1, <2>2
<1>3. /\ pc' \in [Runs -> PC] /\ (\A q \in Runs : pc'[q] = IF q = r THEN label ELSE pc[q])
      /\ lock' \in Runs \cup {NoRun, Foreign} /\ run_log' \in Runs \cup {NoRun}
      /\ OutputRootExclusive' /\ OneMirror' /\ LiveWhileExecuting'
  BY <1>1, <1>2, MeasuringPlace
<1>4. /\ tally' \in [Runs -> Tally] /\ records' \in [Runs -> 0..Total]
      /\ result' \in [Runs -> Results]
      /\ tally'[r] = t /\ records'[r] = n /\ result'[r] = value /\ pc'[r] = label
      /\ \A q \in Runs \ {r} : /\ tally'[q] = tally[q] /\ records'[q] = records[q]
                               /\ result'[q] = result[q]
  BY <1>1, <1>3 DEF ExecInv, ExecTypeOK, Results
<1>5. Accounted(r)' /\ (\/ tally'[r].completed = records'[r]
                        \/ tally'[r].completed = records'[r] + 1 /\ result'[r] = "Prerequisite")
  BY <1>1, <1>4 DEF Accounted, Measuring
<1>6. verdict' \in [Runs -> Verdict] /\ summary' \in [Runs -> Status \cup {"none"}] /\ label \in PC
  BY <1>1, Places DEF ExecInv, ExecTypeOK
<1> QED
  BY <1>1, <1>2, <1>3, <1>4, <1>5, <1>6, DataInv

(* Every execution has a status and a word for its summary (execution.rs:169-205). *)
LEMMA Judged ==
  ASSUME ExecInv, NEW r \in Runs
  PROVE  exit_code(r) \in Codes /\ summary_status(r) \in Status
<1>1. \A category \in Category : throughput(category) \in Codes
  BY DEF throughput, Category, Codes, PARTIAL_FAILURE, TOTAL_FAILURE, INTERNAL, CANCELLED
<1>2. \A is_throughput, code : code \in Codes => for_capability(is_throughput, code) \in Codes
  BY DEF for_capability, Codes, FAILURE
<1>3. {SUCCESS, PARTIAL_FAILURE, TOTAL_FAILURE, CANCELLED, TERMINATED} \subseteq Codes
  BY DEF Codes
<1>4. result[r] # "ok" => throughput(result[r]) \in Codes
  BY <1>1 DEF ExecInv, ExecTypeOK
<1>5. signal = NoSignal \/ signal \in Codes
  BY <1>3 DEF ExecInv, ExecTypeOK
<1>6. exit_code(r) \in Codes
  BY <1>2, <1>3, <1>4, <1>5 DEF exit_code
<1>7. summary_status(r) \in Status
  BY DEF summary_status, Status
<1> QED
  BY <1>6, <1>7

(* The outcome is computed and the summary written (execution.rs:169-223). *)
LEMMA SummaryInv ==
  ASSUME ExecInv, NEW r \in Runs, setting' = setting,
         Judge(r) \/ Summarise(r) \/ \E landed \in BOOLEAN : SummaryFails(r, landed)
  PROVE  ExecInv'
<1>0. verdict \in [Runs -> Verdict] /\ verdict[r] \in Verdict /\ tally[r].completed \in Nat
        /\ summary \in [Runs -> Status \cup {"none"}] /\ Accounted(r)
  BY TotalAssumption DEF ExecInv, ExecTypeOK, Tally
<1>1. PICK label \in {"judged", "written"}, value \in Results, v \in Verdict :
        /\ goto(r, label) /\ pc[r] \in {"ended", "judged"}
        /\ result' = [result EXCEPT ![r] = value] /\ verdict' = [verdict EXCEPT ![r] = v]
        /\ value = result[r] \/ value = "Prerequisite"
        /\ label = "written" /\ ~v.saved => value # "ok"
        /\ summary' \in [Runs -> Status \cup {"none"}]
        /\ UNCHANGED <<tally, records, signal, lock, run_log>>
        /\ \/ UNCHANGED managerVars
           \/ \E done \in Nat : progress(r, done)
  <2>1. /\ "Prerequisite" \in Results /\ result[r] \in Results
        /\ result = [result EXCEPT ![r] = result[r]]
        /\ verdict = [verdict EXCEPT ![r] = verdict[r]]
    BY DEF ExecInv, ExecTypeOK, Results, Category
  <2>2. CASE Judge(r)
    <3>1. [code |-> exit_code(r), status |-> summary_status(r), saved |-> FALSE] \in Verdict
      BY Judged DEF Verdict
    <3> QED
      BY <1>0, <2>1, <2>2, <3>1 DEF Judge, diskVars
  <2>3. CASE Summarise(r)
    <3> DEFINE v == [verdict[r] EXCEPT !.saved = TRUE]
    <3>1. v \in Verdict /\ v.saved = TRUE /\ verdict[r].status \in Status
      BY <1>0 DEF Verdict
    <3>2. verdict' = [verdict EXCEPT ![r] = v] /\ summary' \in [Runs -> Status \cup {"none"}]
      BY <1>0, <2>3, <3>1 DEF Summarise
    <3> HIDE DEF v
    <3> QED
      BY <2>1, <2>3, <3>1, <3>2 DEF Summarise
  <2>4. CASE \E landed \in BOOLEAN : SummaryFails(r, landed)
    <3>1. verdict[r].status \in Status
      BY <1>0 DEF Verdict
    <3>2. summary' \in [Runs -> Status \cup {"none"}]
      BY <1>0, <2>4, <3>1 DEF SummaryFails
    <3> QED
      BY <1>0, <2>1, <2>4, <3>2 DEF SummaryFails
  <2> QED
    BY <2>2, <2>3, <2>4
<1>2. Inv' /\ handle' = handle
  <2>1. CASE UNCHANGED managerVars
    BY <2>1, StepInv DEF ExecInv, managerVars
  <2>2. CASE \E done \in Nat : progress(r, done)
    BY <2>2, ProgressInv, HandleMoves DEF ExecInv
  <2> QED
    BY <1>1, <2>1, <2>2
<1>3. /\ label \in PC /\ label \in Holding /\ label \in Mirroring /\ label \in Executing
      /\ pc[r] \in Holding /\ pc[r] \in Mirroring /\ pc[r] \in Executing
  BY <1>1, Places
<1>4. HandleOf(r, label \in Executing)
  BY <1>2, <1>3 DEF HandleOf, ExecInv, LiveWhileExecuting
<1>5. /\ pc' \in [Runs -> PC] /\ (\A q \in Runs : pc'[q] = IF q = r THEN label ELSE pc[q])
      /\ lock' \in Runs \cup {NoRun, Foreign} /\ run_log' \in Runs \cup {NoRun}
      /\ OutputRootExclusive' /\ OneMirror' /\ LiveWhileExecuting'
  BY <1>1, <1>3, <1>4, PlaceInv
<1>6. /\ tally' \in [Runs -> Tally] /\ records' \in [Runs -> 0..Total]
      /\ result' \in [Runs -> Results] /\ verdict' \in [Runs -> Verdict]
      /\ tally'[r] = tally[r] /\ records'[r] = records[r]
      /\ verdict'[r] = v /\ result'[r] = value /\ pc'[r] = label
      /\ \A q \in Runs \ {r} : /\ tally'[q] = tally[q] /\ records'[q] = records[q]
                               /\ result'[q] = result[q] /\ verdict'[q] = verdict[q]
  BY <1>1, <1>5 DEF ExecInv, ExecTypeOK, Results
<1>7. Accounted(r)'
  BY <1>0, <1>1, <1>6 DEF Accounted, Measuring
<1>8. \/ tally'[r].completed = records'[r]
      \/ tally'[r].completed = records'[r] + 1 /\ result'[r] = "Prerequisite"
  BY <1>1, <1>6 DEF ExecInv, CountedIsOnDisk
<1> QED
  BY <1>1, <1>2, <1>3, <1>5, <1>6, <1>7, <1>8, DataInv

(* The log, the handle and the lock are given back, in that order            *)
(* (execution.rs:224-243); an early return gives back the handle last.       *)
LEMMA EndingInv ==
  ASSUME ExecInv, NEW r \in Runs, setting' = setting,
         \/ CloseLog(r) \/ Finish(r) \/ Unlock(r)
         \/ DropLocals(r) \/ DropHandle(r) \/ ReportError(r)
  PROVE  ExecInv'
<1>0. /\ Accounted(r) /\ result[r] \in Results /\ result = [result EXCEPT ![r] = result[r]]
      /\ verdict[r] \in Verdict
  BY DEF ExecInv, ExecTypeOK, Results
<1>1. PICK label \in PC :
        /\ goto(r, label) /\ UNCHANGED <<tally, result, verdict, records, summary, signal>>
        /\ \/ /\ pc[r] = "written" /\ label = "unmirrored"
              /\ lock' = lock /\ run_log' = NoRun /\ UNCHANGED managerVars
           \/ /\ pc[r] = "unmirrored" /\ label = "finished"
              /\ UNCHANGED <<lock, run_log>>
              /\ \E code \in Codes, path \in BOOLEAN, partial \in BOOLEAN :
                   finish_outcome(r, code, path, partial)
           \/ /\ pc[r] = "finished" /\ label \in {"done", "erred"}
              /\ label = "erred" => result[r] # "ok"
              /\ lock' = NoRun /\ run_log' = run_log /\ UNCHANGED managerVars
           \/ /\ pc[r] = "failing" /\ label = "dropping"
              /\ lock' = NoRun /\ run_log' = run_log /\ UNCHANGED managerVars
           \/ /\ pc[r] = "dropping" /\ label = "erred"
              /\ UNCHANGED <<lock, run_log>> /\ drop(r)
           \/ /\ pc[r] = "erred" /\ label = "done"
              /\ UNCHANGED <<lock, run_log>>
              /\ UNCHANGED managerVars \/ failure(r, Is_throughput(r), result[r])
  <2>1. {"unmirrored", "finished", "done", "erred", "dropping"} \subseteq PC
    BY Places
  <2>2. CASE CloseLog(r)
    BY <2>1, <2>2 DEF CloseLog, diskVars
  <2>3. CASE Finish(r)
    <3>1. verdict[r].code \in Codes /\ INTERNAL \in Codes
      BY <1>0, SomeCodes DEF Verdict
    <3>2. \E code \in Codes, path \in BOOLEAN, partial \in BOOLEAN :
            finish_outcome(r, code, path, partial)
      BY <2>3, <3>1 DEF Finish
    <3> QED
      BY <2>1, <2>3, <3>2 DEF Finish, diskVars
  <2>4. CASE Unlock(r)
    BY <1>0, <2>1, <2>4 DEF Unlock, diskVars, Accounted
  <2>5. CASE DropLocals(r)
    BY <2>1, <2>5 DEF DropLocals, diskVars
  <2>6. CASE DropHandle(r)
    BY <2>1, <2>6 DEF DropHandle, diskVars
  <2>7. CASE ReportError(r)
    BY <2>1, <2>7 DEF ReportError, diskVars
  <2> QED
    BY <2>2, <2>3, <2>4, <2>5, <2>6, <2>7
<1>2. Inv' /\ HandleOf(r, label \in Executing)
  <2>0. handle[r] = "live" <=> pc[r] \in Executing
    BY DEF ExecInv, LiveWhileExecuting
  <2>1. ASSUME UNCHANGED managerVars, label \in Executing <=> pc[r] \in Executing
        PROVE  Inv' /\ HandleOf(r, label \in Executing)
    <3>1. Inv' /\ handle' = handle
      BY <2>1, StepInv DEF ExecInv, managerVars
    <3> QED
      BY <2>0, <2>1, <3>1 DEF HandleOf
  <2>2. ASSUME NEW code \in Codes, NEW path \in BOOLEAN, NEW partial \in BOOLEAN,
               finish_outcome(r, code, path, partial), label = "finished"
        PROVE  Inv' /\ HandleOf(r, label \in Executing)
    <3>1. Inv'
      BY <2>2, EndInv DEF ExecInv, finish_outcome
    <3>2. label \notin Executing
      BY <2>2, Places
    <3>3. HandleOf(r, FALSE)
      BY <2>2, HandleMoves DEF ExecInv
    <3> QED
      BY <3>1, <3>2, <3>3 DEF HandleOf
  <2>3. ASSUME drop(r), label = "erred" PROVE Inv' /\ HandleOf(r, label \in Executing)
    <3>1. RunStep(r)
      BY <2>3 DEF RunStep
    <3>2. Inv'
      BY <3>1, StepInv DEF ExecInv, Next
    <3>3. label \notin Executing
      BY <2>3, Places
    <3>4. HandleOf(r, FALSE)
      BY <2>3, HandleMoves DEF ExecInv
    <3> QED
      BY <3>2, <3>3, <3>4 DEF HandleOf
  <2>4. ASSUME failure(r, Is_throughput(r), result[r]), pc[r] = "erred", label = "done"
        PROVE  Inv' /\ HandleOf(r, label \in Executing)
    <3>1. result[r] \in Category /\ Is_throughput(r) \in BOOLEAN
      BY <1>0, <2>4 DEF Accounted, Results, Is_throughput
    <3>2. Inv'
      BY <2>4, <3>1, FailureInv DEF ExecInv
    <3>3. label \notin Executing
      BY <2>4, Places
    <3>4. HandleOf(r, FALSE)
      BY <2>4, HandleMoves DEF ExecInv
    <3> QED
      BY <3>2, <3>3, <3>4 DEF HandleOf
  <2> QED
    BY <1>1, <2>1, <2>2, <2>3, <2>4, Places
<1>3. /\ pc' \in [Runs -> PC] /\ (\A q \in Runs : pc'[q] = IF q = r THEN label ELSE pc[q])
      /\ lock' \in Runs \cup {NoRun, Foreign} /\ run_log' \in Runs \cup {NoRun}
      /\ OutputRootExclusive' /\ OneMirror' /\ LiveWhileExecuting'
  BY <1>1, <1>2, PlaceInv, Places
<1>4. /\ label \notin Measuring /\ label \notin {"idle", "spawned", "locked", "failing"}
      /\ label \in {"dropping", "erred"} => result[r] # "ok"
      /\ label \in {"written", "unmirrored", "finished"} /\ ~verdict[r].saved => result[r] # "ok"
  BY <1>0, <1>1 DEF Accounted, Measuring
<1> QED
  BY <1>0, <1>1, <1>2, <1>3, <1>4, ResultInv DEF Measuring

(* Signals, cancellations and other processes change nothing a run holds; a   *)
(* crash ends every run with what it holds.                                   *)
LEMMA OutsideInv ==
  ASSUME ExecInv, setting' = setting,
         \/ \E r \in Runs : Relay(r) \/ Cancel(r)
         \/ Signal \/ ForeignLock \/ Crash
  PROVE  ExecInv'
<1>1. CASE \E r \in Runs : Relay(r) \/ Cancel(r)
  <2>1. UNCHANGED execVars /\ \E r \in Runs : trip(r) \/ cancel(r)
    BY <1>1 DEF Relay, Cancel
  <2>2. Inv' /\ handle' = handle
    BY <2>1, TripInv, CancelInv, HandleMoves DEF ExecInv
  <2> QED
    BY <2>1, <2>2 DEF execVars, diskVars, ExecInv, ExecTypeOK, Inv, OutputRootExclusive, OneMirror,
       LiveWhileExecuting, CountedIsOnDisk, Accounted
<1>2. CASE Signal \/ ForeignLock
  <2>1. /\ UNCHANGED managerVars /\ UNCHANGED <<pc, tally, result, verdict, records, summary, run_log>>
        /\ signal' \in {NoSignal, CANCELLED, TERMINATED}
        /\ \/ lock' = lock
           \/ lock \in {NoRun, Foreign} /\ lock' \in {NoRun, Foreign}
    BY <1>2 DEF Signal, ForeignLock, diskVars, ExecInv, ExecTypeOK
  <2>2. Inv' /\ handle' = handle
    BY <2>1, StepInv DEF ExecInv, managerVars
  <2>3. OutputRootExclusive'
    BY <2>1, ForeignAssumption, RunsAssumption DEF ExecInv, OutputRootExclusive
  <2> QED
    BY <2>1, <2>2, <2>3 DEF ExecInv, ExecTypeOK, Inv, OneMirror, LiveWhileExecuting,
       CountedIsOnDisk, Accounted
<1>3. CASE Crash
  <2>1. Inv' /\ \A r \in Runs : handle'[r] # "live"
    BY <1>3, RestartInv DEF Crash, ExecInv, restart
  <2>2. /\ pc' \in [Runs -> PC] /\ \A r \in Runs : pc'[r] \in {"idle", "done", "crashed"}
        /\ \A r \in Runs : pc'[r] = "idle" => pc[r] = "idle"
    BY <1>3, Places DEF Crash, ExecInv, ExecTypeOK
  <2>3. /\ UNCHANGED <<tally, result, verdict, records, summary>> /\ run_log' = NoRun
        /\ signal' = NoSignal /\ lock' \in {NoRun, Foreign}
    BY <1>3 DEF Crash, diskVars, ExecInv, ExecTypeOK
  <2>4. OutputRootExclusive' /\ OneMirror' /\ LiveWhileExecuting'
    BY <2>1, <2>2, <2>3, Places, ForeignAssumption, RunsAssumption DEF OutputRootExclusive,
       OneMirror, LiveWhileExecuting
  <2>5. ExecTypeOK' /\ CountedIsOnDisk'
    BY <2>1, <2>2, <2>3 DEF ExecInv, ExecTypeOK, Inv, CountedIsOnDisk
  <2>6. \A r \in Runs : Accounted(r)'
    BY <2>2, <2>3 DEF ExecInv, Accounted, Measuring
  <2> QED
    BY <2>1, <2>4, <2>5, <2>6 DEF ExecInv
<1> QED
  BY <1>1, <1>2, <1>3

LEMMA ExecInitInv == ExecInit => ExecInv
<1> SUFFICES ASSUME ExecInit PROVE ExecInv
  OBVIOUS
<1>1. Inv /\ TypeOK /\ \A r \in Runs : handle[r] = "unborn"
  BY InitInv DEF ExecInit, Inv, Init
<1>2. NoTally \in Tally /\ NoVerdict \in Verdict
  BY TotalAssumption DEF NoTally, NoVerdict, Tally, Verdict, Codes, Status
<1>3. ExecTypeOK
  BY <1>1, <1>2, TotalAssumption, Places DEF ExecInit, ExecTypeOK
<1>4. OutputRootExclusive /\ OneMirror /\ LiveWhileExecuting
  BY <1>1, RunsAssumption, Places DEF ExecInit, OutputRootExclusive, OneMirror, LiveWhileExecuting
<1>5. CountedIsOnDisk /\ \A r \in Runs : Accounted(r)
  BY DEF ExecInit, CountedIsOnDisk, Accounted, NoTally, Measuring
<1> QED
  BY <1>1, <1>3, <1>4, <1>5 DEF ExecInv

LEMMA ExecStepInv == ExecInv /\ [ExecNext]_<<vars, setting>> => ExecInv'
<1> SUFFICES ASSUME ExecInv, [ExecNext]_<<vars, setting>> PROVE ExecInv'
  OBVIOUS
<1>1. CASE UNCHANGED <<vars, setting>>
  <2>1. UNCHANGED managerVars /\ UNCHANGED <<handle, setting>> /\ UNCHANGED execVars
    BY <1>1 DEF vars, managerVars
  <2>2. Inv'
    BY <2>1, StepInv DEF ExecInv
  <2> QED
    BY <2>1, <2>2 DEF execVars, diskVars, ExecInv, ExecTypeOK, Inv, OutputRootExclusive, OneMirror,
       LiveWhileExecuting, CountedIsOnDisk, Accounted
<1>2. CASE ExecNext
  BY <1>2, BeginningInv, LoopStepsInv, CountedInv, SummaryInv, EndingInv, OutsideInv
  DEF ExecNext, Task, Measure, Conclude
<1> QED
  BY <1>1, <1>2

(* The place of a task tells what it holds, in every reachable state.          *)
LEMMA ExecInvariance == ExecSafety => []ExecInv
BY ExecInitInv, ExecStepInv, PTL DEF ExecSafety

(* The output root, the run log and the manager's slot are held for the same   *)
(* run, from its start to its end and through crashes (execution.rs:133-136,   *)
(* 224-243).                                                                   *)
THEOREM RunsAreApartHolds == ExecSpec => []RunsAreApart
<1>1. ExecInv => RunsAreApart
  BY DEF ExecInv, RunsAreApart
<1>2. ExecSpec => ExecSafety
  BY DEF ExecSpec
<1> QED
  BY <1>1, <1>2, ExecInvariance, PTL

(* Every measurement that is counted has its file, or its failed write is what *)
(* the run ends with, also after a crash (execution.rs:328-359).               *)
THEOREM CountedIsOnDiskHolds == ExecSpec => []CountedIsOnDisk
<1>1. ExecInv => CountedIsOnDisk
  BY DEF ExecInv
<1>2. ExecSpec => ExecSafety
  BY DEF ExecSpec
<1> QED
  BY <1>1, <1>2, ExecInvariance, PTL

----------------------------------------------------------------------------
(* What a success rests on: the loop went through the plan, or the token is  *)
(* cancelled; nothing is added once the outcome is computed.                 *)
Early == {"idle", "spawned", "locked", "failing", "dropping", "ended"} \cup Measuring

Whole(r) ==
  tally[r].item = Total /\ tally[r].failed = 0 /\ records[r] = tally[r].completed

SuccessIsEarned(r) ==
  /\ pc[r] = "ended" /\ result[r] = "ok" => tally[r].item = Total \/ r \in token
  /\ pc[r] = "judged" /\ verdict[r].status = "Success" => Whole(r)
  /\ summary[r] = "Success" => pc[r] \notin Early /\ Whole(r)

(* A cancelled token stays cancelled. *)
LEMMA TokenGrows == ASSUME ExecNext PROVE token \subseteq token'
BY DEF ExecNext, Start, Task, Acquire, Refused, SetupFails, Open, Measure, StartItem, SkipItem,
   EndLoop, StepFails, EngineStops, Record, RecordFails, Conclude, Judge, Summarise, CloseLog,
   Finish, Unlock, SummaryFails, DropLocals, DropHandle, ReportError, Relay, Cancel, Signal,
   ForeignLock, Crash, begin, cancel, trip, progress, finish_outcome, drop, failure, restart,
   managerVars

(* The status is a success only of a run without failure or error              *)
(* (execution.rs:169-205).                                                     *)
LEMMA SuccessIsClean ==
  ASSUME ExecInv, NEW r \in Runs, summary_status(r) = "Success"
  PROVE  r \notin token /\ result[r] = "ok" /\ tally[r].failed = 0
<1>1. r \notin token /\ exit_code(r) = SUCCESS
  BY DEF summary_status
<1>2. \A is_throughput, code : for_capability(is_throughput, code) = SUCCESS => code = SUCCESS
  BY DEF for_capability, SUCCESS, FAILURE
<1>3. \A category \in Category : throughput(category) # SUCCESS
  BY DEF throughput, Category, SUCCESS, PARTIAL_FAILURE, TOTAL_FAILURE, INTERNAL, CANCELLED
<1>4. result[r] # "ok" => throughput(result[r]) # SUCCESS
  BY <1>3 DEF ExecInv, ExecTypeOK
<1>5. PARTIAL_FAILURE # SUCCESS /\ TOTAL_FAILURE # SUCCESS
  BY DEF SUCCESS, PARTIAL_FAILURE, TOTAL_FAILURE
<1>6. result[r] = "ok" /\ ~(tally[r].failed > 0)
  BY <1>1, <1>2, <1>4, <1>5 DEF exit_code
<1>7. tally[r].failed \in 0..Total
  BY DEF ExecInv, ExecTypeOK, Tally
<1> QED
  BY <1>1, <1>6, <1>7, TotalAssumption

(* A step of one task moves that task and leaves the others alone.             *)
LEMMA OneTaskMoves ==
  ASSUME ExecInv, NEW r \in Runs, Start(r) \/ Task(r)
  PROVE  \E label \in PC :
           /\ goto(r, label)
           /\ \A q \in Runs : pc'[q] = IF q = r THEN label ELSE pc[q]
           /\ \A q \in Runs \ {r} :
                /\ tally'[q] = tally[q] /\ result'[q] = result[q] /\ verdict'[q] = verdict[q]
                /\ records'[q] = records[q] /\ summary'[q] = summary[q]
<1>1. PICK label \in PC : goto(r, label)
  <2>1. goto(r, pc[r]) <=> pc' = pc
    BY DEF goto, ExecInv, ExecTypeOK
  <2> QED
    BY <2>1, Places DEF Start, Task, Acquire, Refused, SetupFails, Open, Measure, StartItem,
       SkipItem, EndLoop, StepFails, EngineStops, Record, RecordFails, Conclude, Judge, Summarise,
       CloseLog, Finish, Unlock, SummaryFails, DropLocals, DropHandle, ReportError, return,
       ExecInv, ExecTypeOK
<1>2. \A q \in Runs : pc'[q] = IF q = r THEN label ELSE pc[q]
  BY <1>1 DEF goto, ExecInv, ExecTypeOK
<1>3. \A q \in Runs \ {r} :
        /\ tally'[q] = tally[q] /\ result'[q] = result[q] /\ verdict'[q] = verdict[q]
        /\ records'[q] = records[q] /\ summary'[q] = summary[q]
  BY DEF Start, Task, Acquire, Refused, SetupFails, Open, Measure, StartItem, SkipItem, EndLoop,
     StepFails, EngineStops, Record, RecordFails, Conclude, Judge, Summarise, CloseLog, Finish,
     Unlock, SummaryFails, DropLocals, DropHandle, ReportError, return, counted, diskVars,
     ExecInv, ExecTypeOK
<1> QED
  BY <1>1, <1>2, <1>3

LEMMA EarnedStep ==
  ASSUME ExecInv, \A q \in Runs : SuccessIsEarned(q), NEW r \in Runs,
         UNCHANGED setting, Start(r) \/ Task(r)
  PROVE  \A q \in Runs : SuccessIsEarned(q)'
<1>0. token \subseteq token'
  BY TokenGrows DEF ExecNext
<1>1. PICK label \in PC :
        /\ goto(r, label)
        /\ \A q \in Runs : pc'[q] = IF q = r THEN label ELSE pc[q]
        /\ \A q \in Runs \ {r} :
             /\ tally'[q] = tally[q] /\ result'[q] = result[q] /\ verdict'[q] = verdict[q]
             /\ records'[q] = records[q] /\ summary'[q] = summary[q]
  BY OneTaskMoves
<1>2. \A q \in Runs : pc'[q] = IF q = r THEN label ELSE pc[q]
  BY <1>1
<1>3. \A q \in Runs \ {r} :
        /\ tally'[q] = tally[q] /\ result'[q] = result[q] /\ verdict'[q] = verdict[q]
        /\ records'[q] = records[q] /\ summary'[q] = summary[q]
  BY <1>1
<1>4. \A q \in Runs \ {r} : SuccessIsEarned(q)'
  BY <1>0, <1>2, <1>3 DEF SuccessIsEarned, Whole
<1>5. SuccessIsEarned(r)'
  <2>0. SuccessIsEarned(r) /\ pc'[r] = label
    BY <1>2
  <2>1. ASSUME UNCHANGED <<tally, verdict, records, summary>>, label \notin {"ended", "judged"},
               label \in Early => pc[r] \in Early
        PROVE  SuccessIsEarned(r)'
    BY <2>0, <2>1 DEF SuccessIsEarned, Whole
  <2>2. CASE Start(r) \/ Acquire(r) \/ Refused(r) \/ SetupFails(r) \/ Open(r) \/ StartItem(r)
             \/ CloseLog(r) \/ Finish(r) \/ Unlock(r) \/ DropLocals(r) \/ DropHandle(r)
             \/ ReportError(r)
    <3>1. UNCHANGED <<tally, verdict, records, summary>>
      BY <2>2 DEF Start, Acquire, Refused, SetupFails, Open, StartItem, CloseLog, Finish, Unlock,
         DropLocals, DropHandle, ReportError, diskVars
    <3>2. label \notin {"ended", "judged"} /\ (label \in Early => pc[r] \in Early)
      BY <1>2, <2>2 DEF Start, Acquire, Refused, SetupFails, Open, StartItem, CloseLog, Finish,
         Unlock, DropLocals, DropHandle, ReportError, Early, Measuring, goto, ExecInv, ExecTypeOK
    <3> QED
      BY <2>1, <3>1, <3>2
  <2>3. CASE SkipItem(r) \/ EndLoop(r) \/ StepFails(r) \/ EngineStops(r)
             \/ (\E grade \in Grade : Record(r, grade))
             \/ (\E grade \in Grade, landed \in BOOLEAN : RecordFails(r, grade, landed))
    <3>1. pc[r] \in Early /\ summary' = summary
      BY <2>3 DEF SkipItem, EndLoop, StepFails, EngineStops, Record, RecordFails, diskVars, Early,
         Measuring
    <3>2. label # "judged"
      BY <1>2, <2>3 DEF SkipItem, EndLoop, StepFails, EngineStops, Record, RecordFails, return,
         goto, ExecInv, ExecTypeOK
    <3>3. label = "ended" /\ result'[r] = "ok" => tally'[r].item = Total \/ r \in token
      BY <1>2, <2>3 DEF SkipItem, EndLoop, StepFails, EngineStops, Record, RecordFails, return,
         goto, ExecInv, ExecTypeOK
    <3> QED
      BY <1>0, <2>0, <3>1, <3>2, <3>3 DEF SuccessIsEarned
  <2>4. CASE Judge(r)
    <3>1. /\ pc[r] = "ended" /\ label = "judged" /\ UNCHANGED <<tally, records, summary>>
          /\ verdict'[r].status = summary_status(r)
      BY <1>2, <2>4 DEF Judge, diskVars, goto, ExecInv, ExecTypeOK
    <3>2. summary_status(r) = "Success" => Whole(r)
      BY <2>0, <3>1, SuccessIsClean DEF SuccessIsEarned, Whole, ExecInv, CountedIsOnDisk
    <3>3. summary[r] # "Success"
      BY <2>0, <3>1 DEF SuccessIsEarned, Early
    <3> QED
      BY <2>0, <3>1, <3>2, <3>3 DEF SuccessIsEarned, Whole
  <2>5. CASE Summarise(r) \/ \E landed \in BOOLEAN : SummaryFails(r, landed)
    <3>1. /\ pc[r] = "judged" /\ label = "written" /\ UNCHANGED <<tally, records>>
          /\ summary'[r] \in {summary[r], verdict[r].status}
      BY <1>2, <2>5 DEF Summarise, SummaryFails, goto, ExecInv, ExecTypeOK
    <3> QED
      BY <2>0, <3>1 DEF SuccessIsEarned, Whole, Early, Measuring
  <2> QED
    BY <2>2, <2>3, <2>4, <2>5 DEF Task, Measure, Conclude
<1> QED
  BY <1>4, <1>5

(* No run, wherever it stands, holds a success it has not earned.              *)
Earned == \A q \in Runs : SuccessIsEarned(q)

LEMMA EarnedInvariance == ExecSafety => []Earned
<1>1. ExecInit => Earned
  BY DEF ExecInit, SuccessIsEarned, Earned
<1>2. Earned /\ ExecInv /\ [ExecNext]_<<vars, setting>> => Earned'
  <2> SUFFICES ASSUME Earned, ExecInv, [ExecNext]_<<vars, setting>> PROVE Earned'
    OBVIOUS
  <2>1. CASE UNCHANGED <<vars, setting>>
    BY <2>1 DEF vars, execVars, diskVars, managerVars, Earned, SuccessIsEarned, Whole
  <2>2. ASSUME NEW r \in Runs, Start(r) \/ Task(r), UNCHANGED setting PROVE Earned'
    BY <2>2, EarnedStep DEF Earned
  <2>3. CASE (Signal \/ ForeignLock \/ \E r \in Runs : Relay(r) \/ Cancel(r)) /\ UNCHANGED setting
    <3>1. UNCHANGED <<pc, tally, result, verdict, records, summary>>
      BY <2>3 DEF Relay, Cancel, Signal, ForeignLock, execVars, diskVars
    <3>2. token \subseteq token'
      BY <2>3, TokenGrows DEF ExecNext
    <3> QED
      BY <3>1, <3>2 DEF Earned, SuccessIsEarned, Whole
  <2>4. CASE Crash
    <3>1. /\ UNCHANGED <<tally, verdict, records, summary>>
          /\ \A r \in Runs : pc'[r] = IF pc[r] \in {"idle", "done"} THEN pc[r] ELSE "crashed"
      BY <2>4 DEF Crash, diskVars
    <3> QED
      BY <3>1 DEF Earned, SuccessIsEarned, Whole, Early, Measuring
  <2> QED
    BY <2>1, <2>2, <2>3, <2>4 DEF ExecNext
<1> QED
  BY <1>1, <1>2, ExecInvariance, PTL DEF ExecSafety

(* A summary that says Success belongs to a run that went through its whole    *)
(* plan, failed nothing and has a record of each result, for plans of any      *)
(* length (execution.rs:169-223).                                              *)
THEOREM SuccessIsCompleteHolds == ExecSpec => []SuccessIsComplete
<1>1. Earned => SuccessIsComplete
  BY DEF Earned, SuccessIsEarned, Whole, SuccessIsComplete
<1>2. ExecSpec => ExecSafety
  BY DEF ExecSpec
<1> QED
  BY <1>1, <1>2, EarnedInvariance, PTL

----------------------------------------------------------------------------
(* Status and exit code of a verdict are shown alike.                          *)
Agrees(v) == from_exit_code(v.code, v.status = "PartialFailure") = Shown(v.status)

(* In the CLI a token is cancelled only by a signal, which the verdict names.  *)
Signalled(r) ==
  ~Desktop =>
    /\ pc[r] \in {"idle", "spawned", "locked"} => r \notin token
    /\ pc[r] \in Measuring \cup {"ended"} /\ r \in token => signal # NoSignal
    /\ verdict[r].status = "Cancelled" /\ pc[r] # "crashed" =>
         verdict[r].code = signal /\ signal # NoSignal

Grounded(r) ==
  /\ result[r] \in {"ok", "Busy", "Prerequisite", "Connectivity", "Cancelled"}
  /\ result[r] = "Cancelled" => r \in token
  /\ tally[r].notable => tally[r].completed > 0
  /\ Agrees(verdict[r])
  /\ verdict[r].saved => /\ summary[r] = verdict[r].status
                         /\ pc[r] \in {"written", "unmirrored", "finished", "done", "crashed"}
  /\ Signalled(r)

(* A report that is shown is the saved verdict of a run that has finished.     *)
Reported ==
  active.report_path =>
    LET r == active.run_id IN
    /\ r \in Runs /\ pc[r] \in {"finished", "done"} /\ verdict[r].saved
    /\ active.state = Shown(verdict[r].status) /\ active.exit_code = verdict[r].code

Truthful == Reported /\ \A r \in Runs : Grounded(r)

(* The tokens a task may cancel are its own (execution.rs:143-152).            *)
LEMMA TokenOfTask ==
  ASSUME NEW r \in Runs, Start(r) \/ Task(r)
  PROVE  token \subseteq token' /\ token' \subseteq token \cup {r} /\ signal' = signal
BY DEF Start, Task, Acquire, Refused, SetupFails, Open, Measure, StartItem, SkipItem,
   EndLoop, StepFails, EngineStops, Record, RecordFails, Conclude, Judge, Summarise, CloseLog,
   Finish, Unlock, SummaryFails, DropLocals, DropHandle, ReportError,
   begin, trip, progress, finish_outcome, drop, failure, managerVars

(* An interruption passes through every capability's exit codes.               *)
LEMMA CancelCode ==
  ASSUME ExecInv, NEW r \in Runs, r \in token, Grounded(r)
  PROVE  /\ is_interrupted(exit_code(r))
         /\ signal # NoSignal => exit_code(r) = signal
<1>1. \A is_throughput, code : is_interrupted(code) => for_capability(is_throughput, code) = code
  BY DEF for_capability
<1>2. signal \in {NoSignal, CANCELLED, TERMINATED} /\ is_interrupted(CANCELLED)
        /\ is_interrupted(TERMINATED)
  BY DEF ExecInv, ExecTypeOK, is_interrupted
<1>3. exit_code(r) = for_capability(Is_throughput(r), IF signal = NoSignal THEN CANCELLED ELSE signal)
  BY DEF exit_code
<1> QED
  BY <1>1, <1>2, <1>3

(* Two functions derive the status and the exit code, and agree for every     *)
(* capability (execution.rs:169-205, manager.rs:24-32).                        *)
LEMMA StatusAgrees ==
  ASSUME ExecInv, NEW r \in Runs, Grounded(r)
  PROVE  from_exit_code(exit_code(r), summary_status(r) = "PartialFailure")
           = Shown(summary_status(r))
<1>1. CASE r \in token
  <2>1. is_interrupted(exit_code(r)) /\ summary_status(r) = "Cancelled"
    BY <1>1, CancelCode DEF summary_status
  <2> QED
    BY <2>1 DEF from_exit_code, Shown, is_interrupted, SUCCESS, PARTIAL_FAILURE, CANCELLED,
       TERMINATED
<1>2. CASE r \notin token /\ exit_code(r) = SUCCESS
  <2>1. summary_status(r) = "Success"
    BY <1>2 DEF summary_status
  <2> QED
    BY <1>2, <2>1 DEF from_exit_code, Shown, is_interrupted, SUCCESS, PARTIAL_FAILURE, CANCELLED,
       TERMINATED
<1>3. CASE r \notin token /\ exit_code(r) # SUCCESS
  <2> DEFINE t == tally[r]
             own == IF t.completed = 0 /\ result[r] # "ok" THEN throughput(result[r])
                    ELSE IF result[r] # "ok" \/ t.failed > 0
                         THEN IF t.completed > t.failed THEN PARTIAL_FAILURE ELSE TOTAL_FAILURE
                    ELSE IF t.notable THEN PARTIAL_FAILURE ELSE SUCCESS
  <2>1. exit_code(r) = for_capability(Is_throughput(r), own)
    BY <1>3 DEF exit_code
  <2>2. /\ t.completed \in Nat /\ t.failed \in Nat
        /\ t.notable => t.completed > 0
        /\ result[r] \in {"ok", "Busy", "Prerequisite", "Connectivity"}
        /\ t.failed <= t.completed
    BY <1>3, TotalAssumption DEF Grounded, Accounted, ExecInv, ExecTypeOK, Tally
  <2>3. CASE t.completed > t.failed
    <3>1. own \in {PARTIAL_FAILURE, SUCCESS}
      BY <2>2, <2>3
    <3>2. exit_code(r) \in {PARTIAL_FAILURE, FAILURE}
      BY <1>3, <2>1, <3>1 DEF for_capability
    <3>3. summary_status(r) = "PartialFailure"
      BY <1>3, <2>3 DEF summary_status
    <3> QED
      BY <3>2, <3>3 DEF from_exit_code, Shown, is_interrupted, SUCCESS, FAILURE, PARTIAL_FAILURE,
         CANCELLED, TERMINATED
  <2>4. CASE ~(t.completed > t.failed)
    <3>1. t.failed > 0 \/ t.completed = 0
      BY <2>2, <2>4
    <3>2. own \in {12, 13, INTERNAL, TOTAL_FAILURE, SUCCESS}
      BY <2>2, <2>4, <3>1 DEF throughput
    <3>3. exit_code(r) \in {12, 13, INTERNAL, TOTAL_FAILURE, FAILURE}
      BY <1>3, <2>1, <3>2 DEF for_capability
    <3>4. summary_status(r) = "TotalFailure"
      BY <1>3, <2>4 DEF summary_status
    <3> QED
      BY <3>3, <3>4 DEF from_exit_code, Shown, is_interrupted, SUCCESS, FAILURE, PARTIAL_FAILURE,
         TOTAL_FAILURE, INTERNAL, CANCELLED, TERMINATED
  <2> QED
    BY <2>3, <2>4
<1> QED
  BY <1>1, <1>2, <1>3

(* Each step leaves what its run says of itself true, and the others alone.    *)
LEMMA GroundedStep ==
  ASSUME ExecInv, \A q \in Runs : Grounded(q), NEW r \in Runs,
         UNCHANGED setting, Start(r) \/ Task(r)
  PROVE  \A q \in Runs : Grounded(q)'
<1>0. token \subseteq token' /\ token' \subseteq token \cup {r} /\ signal' = signal
  BY TokenOfTask
<1>1. PICK label \in PC :
        /\ goto(r, label)
        /\ \A q \in Runs : pc'[q] = IF q = r THEN label ELSE pc[q]
        /\ \A q \in Runs \ {r} :
             /\ tally'[q] = tally[q] /\ result'[q] = result[q] /\ verdict'[q] = verdict[q]
             /\ records'[q] = records[q] /\ summary'[q] = summary[q]
  BY OneTaskMoves
<1>2. \A q \in Runs \ {r} : Grounded(q)'
  BY <1>0, <1>1 DEF Grounded, Signalled, Agrees, Desktop
<1>3. Grounded(r) /\ pc'[r] = label /\ r \in Runs /\ (Desktop' <=> Desktop)
  BY <1>1 DEF Desktop
<1>4. Grounded(r)'
  <2>1. CASE \/ Start(r) \/ Acquire(r) \/ Open(r) \/ StartItem(r) \/ CloseLog(r) \/ Finish(r)
             \/ Unlock(r) \/ DropLocals(r) \/ DropHandle(r) \/ ReportError(r)
    <3>1. UNCHANGED <<tally, result, verdict, summary>>
      BY <2>1 DEF Start, Acquire, Open, StartItem, CloseLog, Finish, Unlock, DropLocals,
         DropHandle, ReportError, diskVars
    <3>2. /\ pc[r] # "crashed"
          /\ verdict[r].saved => label \in {"written", "unmirrored", "finished", "done", "crashed"}
      BY <1>1, <1>3, <2>1 DEF Grounded, Start, Acquire, Open, StartItem, CloseLog, Finish, Unlock,
         DropLocals, DropHandle, ReportError, goto, ExecInv, ExecTypeOK
    <3>3. Signalled(r)'
      <4>1. CASE Start(r) \/ Acquire(r) \/ StartItem(r)
        <5>1. /\ token' = token
              /\ label \in {"spawned", "locked"} => pc[r] \in {"idle", "spawned"}
              /\ label \in Measuring \cup {"ended"} => r \notin token
              /\ label \in {"spawned", "locked", "inside"}
          BY <1>1, <4>1 DEF Start, Acquire, StartItem, begin, managerVars, goto, ExecInv,
             ExecTypeOK, Measuring
        <5> QED
          BY <1>0, <1>3, <3>1, <3>2, <5>1 DEF Grounded, Signalled
      <4>2. CASE Open(r)
        <5>1. /\ label = "between" /\ pc[r] = "locked"
              /\ signal = NoSignal => token' = token
          BY <1>1, <4>2 DEF Open, managerVars, goto, ExecInv, ExecTypeOK
        <5> QED
          BY <1>0, <1>3, <3>1, <3>2, <5>1 DEF Grounded, Signalled
      <4>3. CASE CloseLog(r) \/ Finish(r) \/ Unlock(r) \/ DropLocals(r) \/ DropHandle(r)
                 \/ ReportError(r)
        <5>1. label \in {"unmirrored", "finished", "done", "erred", "dropping"}
          BY <1>1, <4>3 DEF CloseLog, Finish, Unlock, DropLocals, DropHandle, ReportError, goto,
             ExecInv, ExecTypeOK
        <5> QED
          BY <1>0, <1>3, <3>1, <3>2, <5>1 DEF Grounded, Signalled, Measuring
      <4> QED
        BY <2>1, <4>1, <4>2, <4>3
    <3> QED
      BY <1>0, <1>3, <3>1, <3>2, <3>3 DEF Grounded
  <2>2. CASE Refused(r) \/ SetupFails(r)
    <3>1. UNCHANGED <<tally, verdict, summary>> /\ result'[r] \in {"Busy", "Prerequisite"}
      BY <2>2 DEF Refused, SetupFails, diskVars, ExecInv, ExecTypeOK
    <3>2. pc[r] \in {"spawned", "locked"} /\ label \in {"dropping", "failing"}
      BY <1>1, <2>2 DEF Refused, SetupFails, goto, ExecInv, ExecTypeOK
    <3> QED
      BY <1>0, <1>3, <3>1, <3>2 DEF Grounded, Signalled, Measuring
  <2>3. CASE SkipItem(r) \/ EndLoop(r) \/ StepFails(r) \/ EngineStops(r)
             \/ (\E grade \in Grade : Record(r, grade))
             \/ (\E grade \in Grade, landed \in BOOLEAN : RecordFails(r, grade, landed))
    <3>1. pc[r] \in Measuring /\ UNCHANGED <<verdict, summary, token>>
      BY <2>3 DEF SkipItem, EndLoop, StepFails, EngineStops, Record, RecordFails, diskVars,
         Measuring, progress, managerVars
    <3>2. label \in Measuring \cup {"ended"}
      BY <1>1, <2>3 DEF SkipItem, EndLoop, StepFails, EngineStops, Record, RecordFails, return,
         goto, ExecInv, ExecTypeOK, Measuring
    <3>3. /\ result'[r] \in {result[r], "ok", "Prerequisite", "Connectivity", "Cancelled"}
          /\ result'[r] = "Cancelled" => r \in token \/ result[r] = "Cancelled"
      BY <2>3 DEF SkipItem, EndLoop, StepFails, EngineStops, Record, RecordFails, return,
         ExecInv, ExecTypeOK
    <3>4. tally'[r].notable => tally'[r].completed > 0
      <4>1. tally \in [Runs -> Tally] /\ Total \in Nat
        BY TotalAssumption DEF ExecInv, ExecTypeOK
      <4>2. CASE SkipItem(r)
        BY <1>3, <4>1, <4>2 DEF SkipItem, Grounded, Tally
      <4>3. CASE EndLoop(r) \/ StepFails(r) \/ EngineStops(r)
        BY <1>3, <4>3 DEF EndLoop, StepFails, EngineStops, Grounded
      <4>4. ASSUME NEW grade \in Grade, tally' = counted(r, grade)
            PROVE  tally'[r].completed > 0
        <5>1. tally'[r].completed = tally[r].completed + 1
          BY <4>1, <4>4 DEF counted, Tally
        <5>2. tally[r].completed \in Nat
          BY <4>1 DEF Tally
        <5> QED
          BY <5>1, <5>2
      <4> QED
        BY <2>3, <4>2, <4>3, <4>4 DEF Record, RecordFails
    <3>5. ~verdict[r].saved
      BY <1>3, <3>1 DEF Grounded, Measuring
    <3> QED
      BY <1>0, <1>3, <3>1, <3>2, <3>3, <3>4, <3>5 DEF Grounded, Signalled, Measuring
  <2>4. CASE Judge(r)
    <3>1. /\ pc[r] = "ended" /\ label = "judged" /\ UNCHANGED <<tally, result, summary, token>>
          /\ verdict'[r] = [code |-> exit_code(r), status |-> summary_status(r), saved |-> FALSE]
      BY <1>1, <2>4 DEF Judge, diskVars, goto, ExecInv, ExecTypeOK, progress, managerVars
    <3>2. Agrees(verdict'[r])
      BY <1>3, <3>1, StatusAgrees DEF Agrees
    <3>3. summary_status(r) = "Cancelled" => r \in token
      BY DEF summary_status
    <3>4. Signalled(r)'
      BY <1>0, <1>3, <3>1, <3>3, CancelCode DEF Grounded, Signalled, Measuring
    <3> QED
      BY <1>0, <1>3, <3>1, <3>2, <3>4 DEF Grounded, Agrees
  <2>5. CASE Summarise(r) \/ \E landed \in BOOLEAN : SummaryFails(r, landed)
    <3>1. /\ pc[r] = "judged" /\ label = "written" /\ UNCHANGED <<tally, token>>
          /\ result'[r] \in {result[r], "Prerequisite"}
          /\ verdict'[r].code = verdict[r].code /\ verdict'[r].status = verdict[r].status
          /\ verdict'[r].saved => verdict[r].saved \/ summary'[r] = verdict[r].status
      BY <1>1, <2>5 DEF Summarise, SummaryFails, goto, ExecInv, ExecTypeOK, managerVars, Verdict
    <3>2. ~verdict[r].saved
      BY <1>3, <3>1 DEF Grounded
    <3> QED
      BY <1>0, <1>3, <3>1, <3>2 DEF Grounded, Signalled, Agrees, Measuring
  <2> QED
    BY <2>1, <2>2, <2>3, <2>4, <2>5 DEF Task, Measure, Conclude
<1> QED
  BY <1>2, <1>4

(* The record takes a report only from the saved verdict of its run, and what  *)
(* ends or fails a run without one takes the report away (manager.rs:141-227). *)
LEMMA ReportedStep ==
  ASSUME ExecInv, Truthful, NEW r \in Runs, UNCHANGED setting, Start(r) \/ Task(r)
  PROVE  Reported'
<1>1. PICK label \in PC :
        /\ goto(r, label)
        /\ \A q \in Runs : pc'[q] = IF q = r THEN label ELSE pc[q]
        /\ \A q \in Runs \ {r} :
             /\ tally'[q] = tally[q] /\ result'[q] = result[q] /\ verdict'[q] = verdict[q]
             /\ records'[q] = records[q] /\ summary'[q] = summary[q]
  BY OneTaskMoves
<1>2. active.report_path /\ active.run_id = r => pc[r] \in {"finished", "done"}
  BY DEF Truthful, Reported
<1>3. active \in Progress /\ Grounded(r) /\ verdict[r] \in Verdict
  BY DEF ExecInv, ExecTypeOK, TypeOK, Truthful
<1>4. CASE active' = active /\ ~Unlock(r)
  <2>1. pc[r] \notin {"finished", "done"}
    BY <1>4 DEF Start, Task, Acquire, Refused, SetupFails, Open, Measure, StartItem, SkipItem,
       EndLoop, StepFails, EngineStops, Record, RecordFails, Conclude, Judge, Summarise, CloseLog,
       Finish, SummaryFails, DropLocals, DropHandle, ReportError, Measuring
  <2> QED
    BY <1>1, <1>2, <1>4, <2>1 DEF Truthful, Reported
<1>5. CASE Unlock(r)
  <2>1. active' = active /\ UNCHANGED verdict
    BY <1>5 DEF Unlock, managerVars
  <2>2. verdict[r].saved => label = "done"
    BY <1>1, <1>5 DEF Unlock, goto, ExecInv, ExecTypeOK
  <2> QED
    BY <1>1, <2>1, <2>2 DEF Truthful, Reported
<1>6. CASE begin(r)
  BY <1>6 DEF begin, NewProgress, Reported
<1>7. CASE pc[r] \in Executing /\ \E done \in Nat : progress(r, done)
  <2>1. active.run_id = r /\ handle[r] = "live"
    BY <1>7 DEF ExecInv, Inv, BusyIffOwned, progress
  <2>2. ~active.report_path
    BY <1>2, <1>7, <2>1, Places
  <2>3. active'.report_path = active.report_path
    BY <1>3, <1>7, <2>1 DEF progress, Progress
  <2> QED
    BY <2>2, <2>3 DEF Reported
<1>8. CASE Finish(r)
  <2>1. /\ pc[r] = "unmirrored" /\ label = "finished" /\ UNCHANGED verdict
    BY <1>1, <1>8 DEF Finish, goto, ExecInv, ExecTypeOK
  <2>2. active.run_id = r
    BY <1>8 DEF Finish, finish_outcome, ExecInv, Inv, BusyIffOwned
  <2>3. CASE verdict[r].saved
    <3>1. complete(r, verdict[r].code, TRUE, verdict[r].status = "PartialFailure")
      BY <1>8, <2>3 DEF Finish, finish_outcome
    <3>2. /\ active'.run_id = r /\ active'.exit_code = verdict[r].code
          /\ active'.state = from_exit_code(verdict[r].code, verdict[r].status = "PartialFailure")
      BY <1>3, <2>2, <3>1 DEF complete, Progress
    <3>3. active'.state = Shown(verdict[r].status)
      BY <1>3, <3>2 DEF Grounded, Agrees
    <3> QED
      BY <1>1, <2>1, <2>3, <3>2, <3>3 DEF Reported
  <2>4. CASE ~verdict[r].saved
    <3>1. complete(r, INTERNAL, FALSE, FALSE)
      BY <1>8, <2>4 DEF Finish, finish_outcome
    <3> QED
      BY <1>3, <2>2, <3>1 DEF complete, Progress, Reported
  <2> QED
    BY <2>3, <2>4
<1>9. CASE drop(r)
  <2>1. active.run_id = r
    BY <1>9 DEF drop, ExecInv, Inv, BusyIffOwned
  <2> QED
    BY <1>3, <1>9, <2>1 DEF drop, complete, Progress, Reported
<1>10. CASE ReportError(r) /\ active' # active
  <2>1. /\ pc[r] = "erred" /\ active.run_id = r
        /\ active'.report_path = active.report_path
    BY <1>3, <1>10 DEF ReportError, failure, managerVars, Progress
  <2> QED
    BY <1>2, <2>1 DEF Reported
<1>11. CASE active' # active /\ (Judge(r) \/ \E grade \in Grade : Record(r, grade))
  <2>1. pc[r] \in Executing
    BY <1>11, Places DEF Record, Judge
  <2>2. tally[r].completed \in Nat /\ \A grade \in Grade : counted(r, grade)[r].completed \in Nat
    <3>1. tally \in [Runs -> Tally] /\ tally[r].completed \in Nat
      BY TotalAssumption DEF ExecInv, ExecTypeOK, Tally
    <3>2. \A grade \in Grade : counted(r, grade)[r].completed = tally[r].completed + 1
      BY <3>1 DEF counted, Tally
    <3> QED
      BY <3>1, <3>2
  <2>3. \E done \in Nat : progress(r, done)
    <3>1. CASE Judge(r)
      <4>1. progress(r, tally[r].completed)
        BY <1>11, <3>1 DEF Judge, managerVars
      <4> QED
        BY <2>2, <4>1
    <3>2. ASSUME NEW grade \in Grade, Record(r, grade) PROVE \E done \in Nat : progress(r, done)
      <4>1. progress(r, tally'[r].completed) /\ tally' = counted(r, grade)
        BY <3>2 DEF Record
      <4> QED
        BY <2>2, <4>1
    <3> QED
      BY <1>11, <3>1, <3>2
  <2> QED
    BY <1>7, <2>1, <2>3
<1>12. CASE active' # active /\ ~ReportError(r)
  <2>1. \/ Start(r) \/ Finish(r) \/ DropHandle(r) \/ Judge(r)
        \/ \E grade \in Grade : Record(r, grade)
    BY <1>12 DEF Task, Acquire, Refused, SetupFails, Open, Measure, StartItem, SkipItem,
       EndLoop, StepFails, EngineStops, RecordFails, Conclude, Summarise, CloseLog, Unlock,
       SummaryFails, DropLocals, trip, managerVars
  <2> QED
    BY <1>6, <1>8, <1>9, <1>11, <1>12, <2>1 DEF Start, DropHandle
<1> QED
  BY <1>4, <1>5, <1>10, <1>12

(* A process of the CLI executes one run (cli/src/main.rs:173-209).            *)
OneCliRun == \A s \in Settings : s.desktop \/ \A q, r \in Runs : q = r

(* Signals, cancellations of the window, other processes and crashes.          *)
LEMMA TruthfulOutside ==
  ASSUME ExecInv, Truthful, OneCliRun, UNCHANGED setting,
         Signal \/ ForeignLock \/ Crash \/ \E r \in Runs : Relay(r) \/ Cancel(r)
  PROVE  Truthful'
<1>0. /\ \A q \in Runs : Grounded(q)
      /\ Reported
      /\ Desktop' = Desktop
  BY DEF Truthful, Desktop
<1>1. CASE Crash
  <2>1. /\ UNCHANGED <<tally, result, verdict, summary, token>>
        /\ \A q \in Runs : pc'[q] = IF pc[q] \in {"idle", "done"} THEN pc[q] ELSE "crashed"
        /\ ~active'.report_path
    BY <1>1 DEF Crash, restart, diskVars, NoProgress, NewProgress
  <2>2. ~Desktop => \A q \in Runs : pc'[q] = "crashed"
    BY <1>1, <2>1 DEF Crash, OneCliRun, ExecInv, ExecTypeOK, Desktop
  <2>3. \A q \in Runs : Grounded(q)'
    BY <1>0, <2>1, <2>2 DEF Grounded, Signalled, Agrees, Measuring
  <2> QED
    BY <2>1, <2>3 DEF Truthful, Reported
<1>2. CASE Signal
  <2>1. UNCHANGED <<pc, tally, result, verdict, summary, token, active>>
    BY <1>2 DEF Signal, diskVars, managerVars
  <2>2. signal = NoSignal /\ signal' # NoSignal
    BY <1>2 DEF Signal, CANCELLED, TERMINATED, NoSignal
  <2> QED
    BY <1>0, <2>1, <2>2 DEF Truthful, Reported, Grounded, Signalled, Agrees
<1>3. CASE ForeignLock
  BY <1>0, <1>3 DEF ForeignLock, diskVars, managerVars, Truthful, Reported, Grounded, Signalled,
     Agrees
<1>4. ASSUME NEW r \in Runs, Relay(r) PROVE Truthful'
  <2>1. /\ UNCHANGED <<pc, tally, result, verdict, summary, signal, active>>
        /\ token' = token \cup {r}
        /\ pc[r] \in Measuring \cup {"ended"} /\ signal # NoSignal
    BY <1>4 DEF Relay, trip, execVars, diskVars
  <2>2. pc[r] \notin {"idle", "spawned", "locked"}
    BY <2>1 DEF Measuring
  <2> QED
    BY <1>0, <2>1, <2>2 DEF Truthful, Reported, Grounded, Signalled, Agrees
<1>5. ASSUME NEW r \in Runs, Cancel(r) PROVE Truthful'
  <2>1. /\ UNCHANGED <<pc, tally, result, verdict, summary, signal>> /\ Desktop
        /\ token' = token \cup {r} /\ active.run_id = r
    BY <1>5 DEF Cancel, cancel, execVars, diskVars
  <2>2. handle[r] = "live"
    BY <1>5 DEF Cancel, cancel, ExecInv, Inv, BusyIffOwned
  <2>3. ~active.report_path /\ active \in Progress
    <3>1. pc[r] \in Executing /\ active \in Progress
      BY <2>2 DEF ExecInv, LiveWhileExecuting, ExecTypeOK, TypeOK
    <3>2. pc[r] \notin {"finished", "done"}
      BY <3>1, Places
    <3> QED
      BY <1>0, <2>1, <3>1, <3>2 DEF Reported, Progress
  <2>4. ~active'.report_path
    BY <1>5, <2>3 DEF Cancel, cancel, Progress
  <2>5. \A q \in Runs : Grounded(q)'
    BY <1>0, <2>1 DEF Grounded, Signalled, Agrees
  <2> QED
    BY <2>4, <2>5 DEF Truthful, Reported
<1> QED
  BY <1>1, <1>2, <1>3, <1>4, <1>5

(* What a run says of itself is so, for every capability and plan: the report  *)
(* that is shown is the summary on disk, what is counted is there too, and a   *)
(* cancelled run of the CLI names its signal (execution.rs:169-205, 328-359).  *)
THEOREM ReportIsTrueHolds ==
  ASSUME OneCliRun
  PROVE  ExecSpec => []ReportIsTrue
<1>1. ExecInit => Truthful
  <2> SUFFICES ASSUME ExecInit PROVE Truthful
    OBVIOUS
  <2>1. Reported
    BY DEF ExecInit, Init, NoProgress, NewProgress, Reported
  <2>2. Agrees(NoVerdict)
    BY DEF Agrees, NoVerdict, from_exit_code, Shown, SUCCESS, PARTIAL_FAILURE, is_interrupted,
       CANCELLED, TERMINATED
  <2>3. \A r \in Runs : Grounded(r)
    BY <2>2 DEF ExecInit, Init, Grounded, Signalled, NoTally, NoVerdict, Measuring
  <2> QED
    BY <2>1, <2>3 DEF Truthful
<1>2. Truthful /\ ExecInv /\ [ExecNext]_<<vars, setting>> => Truthful'
  <2> SUFFICES ASSUME Truthful, ExecInv, [ExecNext]_<<vars, setting>> PROVE Truthful'
    OBVIOUS
  <2>1. CASE UNCHANGED <<vars, setting>>
    BY <2>1 DEF vars, execVars, diskVars, managerVars, Truthful, Reported, Grounded, Signalled,
       Agrees, Desktop
  <2>2. ASSUME NEW r \in Runs, Start(r) \/ Task(r), UNCHANGED setting PROVE Truthful'
    <3>1. \A q \in Runs : Grounded(q)'
      BY <2>2, GroundedStep DEF Truthful
    <3>2. Reported'
      BY <2>2, ReportedStep
    <3> QED
      BY <3>1, <3>2 DEF Truthful
  <2> QED
    BY <2>1, <2>2, TruthfulOutside DEF ExecNext
<1>3. Truthful /\ ExecInv => ReportIsTrue
  <2> SUFFICES ASSUME Truthful, ExecInv PROVE ReportIsTrue
    OBVIOUS
  <2>1. ReportAgrees
    <3> SUFFICES ASSUME active.report_path
                 PROVE  /\ summary[active.run_id] # "none"
                        /\ active.state = Shown(summary[active.run_id])
                        /\ active.exit_code = verdict[active.run_id].code
      BY DEF ReportAgrees
    <3>1. /\ active.run_id \in Runs /\ verdict[active.run_id].saved
          /\ active.state = Shown(verdict[active.run_id].status)
          /\ active.exit_code = verdict[active.run_id].code
      BY DEF Truthful, Reported
    <3>2. summary[active.run_id] = verdict[active.run_id].status
      BY <3>1 DEF Truthful, Grounded
    <3>3. verdict[active.run_id].status \in Status
      BY <3>1 DEF ExecInv, ExecTypeOK, Verdict
    <3> QED
      BY <3>1, <3>2, <3>3 DEF Status
  <2>2. SignalIsReported
    BY DEF Truthful, Grounded, Signalled, SignalIsReported
  <2>3. CountedIsOnDisk
    BY DEF ExecInv
  <2> QED
    BY <2>1, <2>2, <2>3 DEF ReportIsTrue
<1>4. ExecSpec => ExecSafety
  BY DEF ExecSpec
<1> QED
  BY <1>1, <1>2, <1>3, <1>4, ExecInvariance, PTL DEF ExecSafety

----------------------------------------------------------------------------
(***************************************************************************)
(* Proof, for any runs and any number of helper changes, that the flags of *)
(* the desktop host protect what they are for.                             *)
(*                                                                         *)
(* The gate makes the changes one, so that its flag is theirs together. A  *)
(* run starts only from the idle event loop with the gate free, so that    *)
(* what the loop has seen of runs still holds when it lets an exit go its  *)
(* way; and a change that begins after the loop looked at the flag reads   *)
(* the flag of the shutdown before it does anything.                       *)
(***************************************************************************)

GateIsHeld == \A c \in Changes : gate = c <=> change[c] \notin {"idle", "invoked"}

RunIsSeen == main \in {"sawNoRun", "allow"} => ~measurement_active

ChangeIsSeen ==
  main = "allow" /\ shutting_down => \A c \in Changes : change[c] \notin {"checked", "operating"}

HostInv ==
  /\ HostTypeOK /\ Inv /\ GateIsHeld /\ FlagIsTrue /\ RunIsSeen /\ ChangeIsSeen
  /\ ChangeExcludesMeasurement /\ ExitSparesMeasurement /\ ShutdownSparesChange

----------------------------------------------------------------------------
LEMMA HostInitInv == HostInit => HostInv
<1> SUFFICES ASSUME HostInit PROVE HostInv
  OBVIOUS
<1>1. Inv /\ TypeOK
  BY InitInv DEF HostInit, Inv
<1>2. \A c \in Changes : change[c] = "idle" /\ gate # c
  BY ChangesAssumption DEF HostInit
<1>3. HostTypeOK
  BY <1>1 DEF HostInit, HostTypeOK, ChangeStep, MainStep, TaskStep
<1> QED
  BY <1>1, <1>2, <1>3 DEF HostInit, HostInv, GateIsHeld, FlagIsTrue, RunIsSeen, ChangeIsSeen,
     ChangeExcludesMeasurement, ExitSparesMeasurement, ShutdownSparesChange, InFlight

(* No step of a run's task or of a canceller makes an ended run active. *)
LEMMA NoneStarts ==
  ASSUME Inv, NEW r \in Runs, RunTask(r) \/ cancel(r), ~measurement_active
  PROVE  ~measurement_active'
<1>1. CASE cancel(r)
  BY <1>1 DEF cancel, measurement_active
<1>2. CASE \E done \in {active.completed, active.completed + 1} : progress(r, done)
  BY <1>2 DEF progress, measurement_active, Inv, TypeOK, Progress
<1>3. ASSUME NEW code, NEW path, NEW partial, complete(r, code, path, partial)
      PROVE  ~measurement_active'
  <2>1. CASE active.run_id = r
    <3>1. active'.state = from_exit_code(code, partial)
      BY <1>3, <2>1 DEF complete, Inv, TypeOK, Progress
    <3> QED
      BY <3>1, EndStates, StatesDiffer DEF measurement_active
  <2>2. CASE active.run_id # r
    BY <1>3, <2>2 DEF complete, measurement_active
  <2> QED
    BY <2>1, <2>2
<1>4. CASE \E code \in {SUCCESS, PARTIAL_FAILURE, CANCELLED} : finish_outcome(r, code, TRUE, FALSE)
  BY <1>3, <1>4 DEF finish_outcome
<1>5. CASE drop(r)
  BY <1>3, <1>5 DEF drop
<1>6. CASE failure(r, FALSE, "Connectivity")
  <2>1. CASE active.run_id = r
    <3>1. active'.state = "Failed"
      BY <1>6, <2>1 DEF failure, Inv, TypeOK, Progress
    <3> QED
      BY <3>1 DEF measurement_active, is_active, ActiveState
  <2>2. CASE active.run_id # r
    BY <1>6, <2>2 DEF failure, measurement_active
  <2> QED
    BY <2>1, <2>2
<1> QED
  BY <1>1, <1>2, <1>4, <1>5, <1>6 DEF RunTask

(* What the host does to the manager is a step of the manager. *)
LEMMA ManagerInv ==
  ASSUME Inv,
         \/ UNCHANGED managerVars
         \/ \E r \in Runs : begin(r) \/ cancel(r) \/ RunTask(r)
  PROVE  Inv' /\ TypeOK'
<1>1. CASE UNCHANGED managerVars
  BY <1>1, StepInv DEF Inv
<1>2. ASSUME NEW r \in Runs, begin(r) \/ cancel(r) PROVE Inv'
  BY <1>2, BeginInv, CancelInv
<1>3. ASSUME NEW r \in Runs, RunTask(r) PROVE Inv'
  <2>1. SUCCESS \in Codes /\ PARTIAL_FAILURE \in Codes /\ CANCELLED \in Codes
    BY DEF Codes, SUCCESS, PARTIAL_FAILURE, CANCELLED
  <2>2. "Connectivity" \in Category
    BY DEF Category
  <2>3. RunStep(r)
    BY <1>3, <2>1, <2>2 DEF RunTask, RunStep
  <2> QED
    BY <2>3, StepInv DEF Next
<1> QED
  BY <1>1, <1>2, <1>3 DEF Inv

(* A run starts in one step of the idle event loop, with the gate free        *)
(* (main.rs:35-56); everything else only ends one.                            *)
LEMMA RunStepsInv ==
  ASSUME HostInv, NEW r \in Runs, start_run(r) \/ cancel_run(r) \/ RunTask(r)
  PROVE  HostInv'
<1>1. alive /\ UNCHANGED desktopVars
  BY DEF start_run, cancel_run, RunTask
<1>2. Inv' /\ TypeOK'
  BY ManagerInv DEF HostInv, start_run, cancel_run
<1>3. UNCHANGED <<gate, change, helper_changing, shutting_down, main, event, target, task,
                  exitRequested, window, exited>>
  BY <1>1 DEF desktopVars, flagVars, loopVars, mainVars
<1>4. HostTypeOK' /\ GateIsHeld' /\ FlagIsTrue' /\ ChangeIsSeen' /\ ShutdownSparesChange'
  BY <1>2, <1>3 DEF HostInv, HostTypeOK, GateIsHeld, FlagIsTrue, ChangeIsSeen,
     ShutdownSparesChange
<1>5. ~exited' /\ ExitSparesMeasurement'
  BY <1>1, <1>3 DEF alive, ExitSparesMeasurement
<1>6. CASE start_run(r)
  <2>1. main' = "idle" /\ \A c \in Changes : change'[c] # "operating"
    <3>1. main = "idle" /\ gate = NoChange
      BY <1>6 DEF start_run
    <3> QED
      BY <1>3, <3>1, ChangesAssumption DEF HostInv, GateIsHeld
  <2> QED
    BY <1>2, <1>4, <1>5, <2>1 DEF HostInv, RunIsSeen, ChangeExcludesMeasurement
<1>7. CASE cancel_run(r) \/ RunTask(r)
  <2>1. measurement_active' => measurement_active
    BY <1>7, NoneStarts DEF HostInv, cancel_run
  <2> QED
    BY <1>2, <1>3, <1>4, <1>5, <2>1 DEF HostInv, RunIsSeen, ChangeExcludesMeasurement
<1> QED
  BY <1>6, <1>7

(* A helper change moves on (main.rs:130-152): the gate makes it the only one. *)
LEMMA ChangeInv ==
  ASSUME HostInv, NEW c \in Changes, Invoke(c) \/ HelperChange(c)
  PROVE  HostInv'
<1>1. /\ ~exited /\ UNCHANGED <<active, shutting_down, task, main, event, target, exitRequested,
                                window, exited>>
      /\ UNCHANGED managerVars
  BY DEF Invoke, HelperChange, TryGate, SetFlag, CheckShutdown, CheckRun, EndOperation,
     ReleaseGate, alive, managerVars, loopVars, mainVars
<1>2. Inv' /\ TypeOK'
  BY <1>1, ManagerInv DEF HostInv
<1>3. PICK label \in ChangeStep :
        /\ change' = [change EXCEPT ![c] = label]
        /\ \/ change[c] = "idle" /\ label = "invoked" /\ UNCHANGED <<gate, helper_changing>>
           \/ /\ change[c] = "invoked" /\ label = "gated"
              /\ gate = NoChange /\ gate' = c /\ UNCHANGED helper_changing
           \/ change[c] = "invoked" /\ label = "idle" /\ UNCHANGED <<gate, helper_changing>>
           \/ change[c] = "gated" /\ label = "flagged" /\ helper_changing' = TRUE /\ gate' = gate
           \/ /\ change[c] = "flagged" /\ label = "checked" /\ ~shutting_down
              /\ UNCHANGED <<gate, helper_changing>>
           \/ /\ change[c] = "checked" /\ label = "operating" /\ ~measurement_active
              /\ UNCHANGED <<gate, helper_changing>>
           \/ /\ change[c] \in {"flagged", "checked", "operating"} /\ label = "clearing"
              /\ helper_changing' = FALSE /\ gate' = gate
           \/ /\ change[c] = "clearing" /\ label = "idle"
              /\ gate' = NoChange /\ UNCHANGED helper_changing
  <2>1. CASE Invoke(c)
    BY <2>1 DEF Invoke, ChangeStep
  <2>2. CASE TryGate(c)
    BY <2>2 DEF TryGate, ChangeStep
  <2>3. CASE SetFlag(c)
    BY <2>3 DEF SetFlag, ChangeStep
  <2>4. CASE CheckShutdown(c)
    BY <2>4 DEF CheckShutdown, ChangeStep
  <2>5. CASE CheckRun(c)
    BY <2>5 DEF CheckRun, ChangeStep
  <2>6. CASE EndOperation(c) \/ ReleaseGate(c)
    BY <2>6 DEF EndOperation, ReleaseGate, ChangeStep
  <2> QED
    BY <2>1, <2>2, <2>3, <2>4, <2>5, <2>6 DEF HelperChange
<1>4. \A d \in Changes : change'[d] = IF d = c THEN label ELSE change[d]
  BY <1>3 DEF HostInv, HostTypeOK
<1>5. change' \in [Changes -> ChangeStep]
  BY <1>3 DEF HostInv, HostTypeOK
<1>6. gate' \in Changes \cup {NoChange} /\ helper_changing' \in BOOLEAN
  BY <1>3 DEF HostInv, HostTypeOK
<1>7. HostTypeOK'
  BY <1>1, <1>2, <1>5, <1>6 DEF HostInv, HostTypeOK
<1>8. gate = c <=> change[c] \notin {"idle", "invoked"}
  BY DEF HostInv, GateIsHeld
<1>9. GateIsHeld'
  <2>1. \/ gate' = gate /\ (label \in {"idle", "invoked"} <=> change[c] \in {"idle", "invoked"})
        \/ gate = NoChange /\ gate' = c /\ label = "gated"
        \/ gate = c /\ gate' = NoChange /\ label = "idle"
    BY <1>3, <1>8
  <2> QED
    BY <1>4, <2>1, ChangesAssumption DEF HostInv, GateIsHeld
<1>10. FlagIsTrue'
  <2>1. \/ helper_changing' = helper_changing /\ (label \in InFlight <=> change[c] \in InFlight)
        \/ helper_changing' = TRUE /\ label \in InFlight
        \/ helper_changing' = FALSE /\ label \notin InFlight /\ gate = c
    BY <1>3, <1>8 DEF InFlight
  <2>2. \A d \in Changes : gate = c /\ change[d] \in InFlight => d = c
    BY DEF HostInv, GateIsHeld, InFlight
  <2> QED
    BY <1>4, <2>1, <2>2 DEF HostInv, FlagIsTrue
<1>11. label \in {"checked", "operating"} =>
         change[c] = "checked" \/ (change[c] = "flagged" /\ ~shutting_down)
  BY <1>3
<1>12. ChangeIsSeen' /\ ShutdownSparesChange' /\ ExitSparesMeasurement' /\ RunIsSeen'
  BY <1>1, <1>4, <1>11 DEF HostInv, ChangeIsSeen, ShutdownSparesChange, ExitSparesMeasurement,
     RunIsSeen, measurement_active
<1>13. label = "operating" => ~measurement_active
  BY <1>3
<1>14. ChangeExcludesMeasurement'
  BY <1>1, <1>4, <1>13 DEF HostInv, ChangeExcludesMeasurement, measurement_active
<1> QED
  BY <1>2, <1>7, <1>9, <1>10, <1>12, <1>14 DEF HostInv

(* The event loop looks at the run, then at the flag, and lets the event go *)
(* its way or shuts down (main.rs:192-272).                                 *)
LEMMA LoopInv ==
  ASSUME HostInv, \/ Receive("close") \/ Receive("exit") \/ LookAtFlag \/ Allow
                  \/ BeginShutdown \/ Snapshot
  PROVE  HostInv'
<1>1. ~exited /\ UNCHANGED <<active, gate, change, helper_changing, task>> /\ UNCHANGED managerVars
  BY DEF Receive, LookAtFlag, Allow, BeginShutdown, Snapshot, alive, managerVars, flagVars
<1>2. Inv' /\ TypeOK'
  BY <1>1, ManagerInv DEF HostInv
<1>3. HostTypeOK'
  <2>1. active.run_id \in Runs \cup {NoRun}
    BY DEF HostInv, HostTypeOK, TypeOK, Progress
  <2>2. target' \in Runs \cup {NoRun}
    BY <2>1 DEF HostInv, HostTypeOK, Receive, LookAtFlag, Allow, BeginShutdown, Snapshot
  <2>3. main' \in MainStep /\ event' \in {"none", "close", "exit"}
    BY DEF HostInv, HostTypeOK, Receive, LookAtFlag, Allow, BeginShutdown, Snapshot, MainStep
  <2>4. {shutting_down', exitRequested', window', exited'} \subseteq BOOLEAN
    BY DEF HostInv, HostTypeOK, Receive, LookAtFlag, Allow, BeginShutdown, Snapshot
  <2> QED
    BY <1>1, <1>2, <2>2, <2>3, <2>4 DEF HostInv, HostTypeOK
<1>4. GateIsHeld' /\ FlagIsTrue' /\ ChangeExcludesMeasurement'
  BY <1>1 DEF HostInv, GateIsHeld, FlagIsTrue, ChangeExcludesMeasurement, measurement_active
<1>5. RunIsSeen'
  BY <1>1 DEF HostInv, RunIsSeen, measurement_active, Receive, LookAtFlag, Allow, BeginShutdown,
     Snapshot
<1>6. ChangeIsSeen'
  BY <1>1 DEF HostInv, ChangeIsSeen, FlagIsTrue, InFlight, Receive, LookAtFlag, Allow,
     BeginShutdown, Snapshot
<1>7. exited' => main = "allow" /\ shutting_down' = shutting_down
  BY <1>1 DEF Receive, LookAtFlag, Allow, BeginShutdown, Snapshot
<1>8. ExitSparesMeasurement' /\ ShutdownSparesChange'
  BY <1>1, <1>7 DEF HostInv, RunIsSeen, ChangeIsSeen, ExitSparesMeasurement,
     ShutdownSparesChange, measurement_active
<1> QED
  BY <1>2, <1>3, <1>4, <1>5, <1>6, <1>8 DEF HostInv

(* cancel_active and the shutdown task touch no flag that protects. *)
LEMMA ShutdownInv ==
  ASSUME HostInv, CancelActive \/ ShutdownTask
  PROVE  HostInv'
<1>1. /\ ~exited /\ UNCHANGED <<gate, change, helper_changing, event, window, exited>>
      /\ main' = main \/ main' = "idle"
      /\ shutting_down' = shutting_down \/ ~shutting_down'
  BY DEF CancelActive, ShutdownTask, AwaitRun, AwaitFlag, RequestExit, GiveUp, alive, flagVars,
     loopVars, mainVars
<1>2. UNCHANGED managerVars \/ (\E r \in Runs : cancel(r))
  <2>1. CASE CancelActive
    <3>1. CASE active.run_id = target /\ measurement_active
      <4>1. active.run_id \in Runs
        BY <3>1 DEF HostInv, Inv, TypeOK, Progress, RecordShape, measurement_active, is_active,
           ActiveState
      <4> QED
        BY <2>1, <3>1, <4>1 DEF CancelActive
    <3> QED
      BY <2>1, <3>1 DEF CancelActive
  <2>2. CASE ShutdownTask
    BY <2>2 DEF ShutdownTask, AwaitRun, AwaitFlag, RequestExit, GiveUp
  <2> QED
    BY <2>1, <2>2
<1>3. Inv' /\ TypeOK' /\ (measurement_active' => measurement_active)
  <2>1. Inv' /\ TypeOK'
    BY <1>2, ManagerInv DEF HostInv
  <2>2. measurement_active' => measurement_active
    BY <1>2, NoneStarts DEF HostInv, measurement_active, managerVars
  <2> QED
    BY <2>1, <2>2
<1>4. HostTypeOK'
  <2>1. /\ target' \in Runs \cup {NoRun} /\ task' \in TaskStep /\ main' \in MainStep
        /\ {shutting_down', exitRequested'} \subseteq BOOLEAN
    BY DEF HostInv, HostTypeOK, CancelActive, ShutdownTask, AwaitRun, AwaitFlag, RequestExit,
       GiveUp, loopVars, mainVars, TaskStep, MainStep
  <2> QED
    BY <1>1, <1>3, <2>1 DEF HostInv, HostTypeOK
<1> QED
  BY <1>1, <1>3, <1>4 DEF HostInv, GateIsHeld, FlagIsTrue, RunIsSeen, ChangeIsSeen,
     ChangeExcludesMeasurement, ExitSparesMeasurement, ShutdownSparesChange

LEMMA HostStepInv == HostInv /\ [HostNext]_hostVars => HostInv'
<1> SUFFICES ASSUME HostInv, [HostNext]_hostVars PROVE HostInv'
  OBVIOUS
<1>1. CASE UNCHANGED hostVars
  <2>1. UNCHANGED managerVars /\ UNCHANGED <<active, gate, change, helper_changing, shutting_down,
          main, event, target, task, exitRequested, window, exited>>
    BY <1>1 DEF hostVars, managerVars, desktopVars, flagVars, loopVars, mainVars
  <2>2. Inv' /\ TypeOK'
    BY <2>1, ManagerInv DEF HostInv
  <2> QED
    BY <2>1, <2>2 DEF HostInv, HostTypeOK, GateIsHeld, FlagIsTrue, RunIsSeen, ChangeIsSeen,
       ChangeExcludesMeasurement, ExitSparesMeasurement, ShutdownSparesChange, measurement_active
<1> QED
  BY <1>1, RunStepsInv, ChangeInv, LoopInv, ShutdownInv DEF HostNext, MainThread

(* No helper change beside a measurement and no exit under one, whatever the   *)
(* event loop, the runs and the changes do; and no exit under a helper change  *)
(* once shutting_down is set.  An exit with shutting_down unset may still cut  *)
(* a change short (main.rs:35-56, 130-152, 192-272).                           *)
THEOREM FlagsProtectHolds == HostSpec => []FlagsProtect
<1>1. HostInv => FlagsProtect
  BY DEF HostInv, FlagsProtect
<1>2. HostSpec => HostInit /\ [][HostNext]_hostVars
  BY PTL DEF HostSpec
<1> QED
  BY <1>1, <1>2, HostInitInv, HostStepInv, PTL

----------------------------------------------------------------------------
(***************************************************************************)
(* Whoever uses the manager uses it by its operations: the tasks of the    *)
(* runs and the desktop host take only its steps, so that what is proved   *)
(* of the manager alone holds with them.  For the tasks this needs that    *)
(* the count a task passes on is the count shown, or one more.             *)
(***************************************************************************)

Unmeasured == {"idle", "spawned", "locked", "failing", "dropping"}

(* What is shown of the run that executes is what it counted, but for the     *)
(* measurement whose file could not be written, until the outcome is judged.  *)
CountIsShown(r) ==
  /\ pc[r] \in Unmeasured => tally[r].completed = 0
  /\ handle[r] = "live" =>
       \/ active.completed = tally[r].completed
       \/ pc[r] = "ended" /\ result[r] # "ok" /\ tally[r].completed = active.completed + 1

Counted == \A r \in Runs : CountIsShown(r)

(* The count that is shown is that of the run (manager.rs:158-190).           *)
LEMMA ShownAfterProgress ==
  ASSUME ExecInv, NEW r \in Runs, handle[r] = "live", NEW done \in 0..Total, progress(r, done)
  PROVE  active'.completed = done
<1>1. active.run_id = r /\ AtMost(done, Total) = done
  BY TotalAssumption DEF ExecInv, Inv, BusyIffOwned, AtMost
<1> QED
  BY <1>1 DEF progress, ExecInv, Inv, TypeOK, Progress

(* A run that is not in the record does not change it.                        *)
LEMMA OthersAreShown ==
  ASSUME ExecInv, ExecInv', NEW r \in Runs, UNCHANGED setting, Start(r) \/ Task(r),
         NEW q \in Runs \ {r}, handle'[q] = "live"
  PROVE  handle[q] = "live" /\ active' = active
<1>1. active'.run_id = q
  BY DEF ExecInv, Inv, BusyIffOwned
<1>2. ~Start(r)
  BY <1>1 DEF Start, begin, NewProgress
<1>3. handle'[q] = handle[q]
  BY <1>2 DEF Task, Acquire, Refused, SetupFails, Open, Measure, StartItem, SkipItem,
     EndLoop, StepFails, EngineStops, Record, RecordFails, Conclude, Judge, Summarise, CloseLog,
     Finish, Unlock, SummaryFails, DropLocals, DropHandle, ReportError, managerVars,
     trip, progress, finish_outcome, drop, failure, ExecInv, Inv, TypeOK
<1>4. active.run_id # r
  BY <1>3 DEF ExecInv, Inv, BusyIffOwned
<1> QED
  BY <1>2, <1>3, <1>4 DEF Task, Acquire, Refused, SetupFails, Open, Measure, StartItem, SkipItem,
     EndLoop, StepFails, EngineStops, Record, RecordFails, Conclude, Judge, Summarise, CloseLog,
     Finish, Unlock, SummaryFails, DropLocals, DropHandle, ReportError, managerVars,
     trip, progress, finish_outcome, drop, failure, complete

LEMMA CountedTask ==
  ASSUME ExecInv, ExecInv', Counted, NEW r \in Runs, UNCHANGED setting, Start(r) \/ Task(r)
  PROVE  Counted'
<1>1. PICK label \in PC :
        /\ goto(r, label)
        /\ \A q \in Runs : pc'[q] = IF q = r THEN label ELSE pc[q]
        /\ \A q \in Runs \ {r} :
             /\ tally'[q] = tally[q] /\ result'[q] = result[q] /\ verdict'[q] = verdict[q]
             /\ records'[q] = records[q] /\ summary'[q] = summary[q]
  BY OneTaskMoves
<1>2. \A q \in Runs : pc'[q] = IF q = r THEN label ELSE pc[q]
  BY <1>1
<1>3. ASSUME NEW q \in Runs \ {r} PROVE CountIsShown(q)'
  <2>1. tally'[q] = tally[q] /\ result'[q] = result[q] /\ pc'[q] = pc[q]
    BY <1>1, <1>3
  <2> QED
    BY <2>1, OthersAreShown DEF Counted, CountIsShown
<1>4. CountIsShown(r)'
  <2>0. /\ CountIsShown(r) /\ pc'[r] = label
        /\ handle[r] = "live" <=> pc[r] \in Executing
        /\ handle'[r] = "live" <=> label \in Executing
        /\ tally[r] \in Tally /\ tally'[r] \in Tally
    BY <1>2 DEF Counted, ExecInv, ExecTypeOK, LiveWhileExecuting
  <2>1. CASE Start(r)
    BY <2>0, <2>1 DEF Start, begin, NewProgress, CountIsShown, Unmeasured, ExecInv, Inv, TypeOK
  <2>2. CASE Acquire(r) \/ Refused(r) \/ SetupFails(r) \/ Open(r) \/ StartItem(r) \/ SkipItem(r)
             \/ EndLoop(r) \/ StepFails(r) \/ EngineStops(r) \/ Summarise(r) \/ CloseLog(r)
             \/ (\E landed \in BOOLEAN : SummaryFails(r, landed)) \/ DropLocals(r)
    <3>1. active' = active /\ tally'[r].completed = tally[r].completed
      BY <2>0, <2>2 DEF Acquire, Refused, SetupFails, Open, StartItem, SkipItem, EndLoop, StepFails,
         EngineStops, Summarise, CloseLog, SummaryFails, DropLocals, managerVars, trip,
         ExecInv, ExecTypeOK, Tally
    <3>2. label \in Executing => pc[r] \in Executing /\ pc[r] # "ended"
      BY <2>0, <2>2, Places DEF Acquire, Refused, SetupFails, Open, StartItem, SkipItem, EndLoop,
         StepFails, EngineStops, Summarise, CloseLog, SummaryFails, DropLocals
    <3>3. label \in Unmeasured => pc[r] \in Unmeasured
      BY <1>2, <2>2 DEF Acquire, Refused, SetupFails, Open, StartItem, SkipItem, EndLoop, StepFails,
         EngineStops, Summarise, CloseLog, SummaryFails, DropLocals, Unmeasured, goto, return,
         ExecInv, ExecTypeOK
    <3> QED
      BY <2>0, <3>1, <3>2, <3>3 DEF CountIsShown
  <2>3. CASE \E grade \in Grade : Record(r, grade)
    <3>1. progress(r, tally'[r].completed) /\ label = "between" /\ pc[r] = "inside"
      BY <1>2, <2>3 DEF Record, goto, ExecInv, ExecTypeOK
    <3>2. active'.completed = tally'[r].completed
      BY <2>0, <3>1, Places, ShownAfterProgress DEF Tally
    <3> QED
      BY <2>0, <3>1, <3>2 DEF CountIsShown, Unmeasured
  <2>4. CASE \E grade \in Grade, landed \in BOOLEAN : RecordFails(r, grade, landed)
    <3>1. /\ active' = active /\ tally'[r].completed = tally[r].completed + 1
          /\ result'[r] # "ok" /\ label = "ended" /\ pc[r] = "inside"
      BY <1>2, <2>4 DEF RecordFails, counted, return, goto, managerVars, ExecInv, ExecTypeOK, Tally
    <3> QED
      BY <2>0, <3>1, Places DEF CountIsShown, Unmeasured
  <2>5. CASE Judge(r)
    <3>1. /\ label = "judged" /\ pc[r] = "ended" /\ tally' = tally
          /\ IF result[r] = "ok" THEN active' = active ELSE progress(r, tally[r].completed)
      BY <1>2, <2>5 DEF Judge, managerVars, goto, ExecInv, ExecTypeOK
    <3>2. active'.completed = tally'[r].completed
      BY <2>0, <3>1, Places, ShownAfterProgress DEF CountIsShown, Tally
    <3> QED
      BY <2>0, <3>1, <3>2 DEF CountIsShown, Unmeasured
  <2>6. CASE Finish(r) \/ Unlock(r) \/ DropHandle(r) \/ ReportError(r)
    <3>1. label \in {"finished", "erred", "done"}
      BY <2>0, <2>6 DEF Finish, Unlock, DropHandle, ReportError, goto, ExecInv, ExecTypeOK
    <3> QED
      BY <2>0, <3>1, Places DEF CountIsShown, Unmeasured
  <2> QED
    BY <2>1, <2>2, <2>3, <2>4, <2>5, <2>6 DEF Task, Measure, Conclude
<1> QED
  BY <1>3, <1>4 DEF Counted

LEMMA CountedOutside ==
  ASSUME ExecInv, Counted,
         \/ UNCHANGED <<vars, setting>>
         \/ \E r \in Runs : Relay(r) \/ Cancel(r)
         \/ Signal \/ ForeignLock \/ Crash
  PROVE  Counted'
<1>1. CASE Crash
  <2>1. ASSUME NEW q \in Runs
        PROVE  handle'[q] # "live" /\ tally'[q] = tally[q] /\ (pc'[q] \in Unmeasured => pc[q] = pc'[q])
    BY <1>1 DEF Crash, restart, ExecInv, ExecTypeOK, Unmeasured
  <2> QED
    BY <2>1 DEF Counted, CountIsShown
<1>2. CASE \/ UNCHANGED <<vars, setting>>
           \/ \E r \in Runs : Relay(r) \/ Cancel(r)
           \/ Signal \/ ForeignLock
  <2>1. UNCHANGED <<pc, tally, result, handle>> /\ active'.completed = active.completed
    BY <1>2 DEF vars, execVars, managerVars, Relay, Cancel, Signal, ForeignLock, trip, cancel,
       ExecInv, Inv, TypeOK, Progress
  <2> QED
    BY <2>1 DEF Counted, CountIsShown
<1> QED
  BY <1>1, <1>2

LEMMA CountedInvariance == ExecSafety => []Counted
<1>1. ExecInit => Counted
  BY DEF ExecInit, Init, Counted, CountIsShown, NoTally, NoProgress, NewProgress
<1>2. Counted /\ ExecInv /\ ExecInv' /\ [ExecNext]_<<vars, setting>> => Counted'
  BY CountedTask, CountedOutside DEF ExecNext
<1> QED
  BY <1>1, <1>2, ExecInvariance, PTL DEF ExecSafety

(* Whatever a run's task does, it uses the manager by the manager's own        *)
(* operations, with a code, a count and a category these know.                 *)
LEMMA ExecStepsManager ==
  ASSUME ExecInv, Counted, [ExecNext]_<<vars, setting>>
  PROVE  [Next]_managerVars
<1>1. CASE UNCHANGED <<vars, setting>> \/ Signal \/ ForeignLock
  BY <1>1 DEF vars, Signal, ForeignLock
<1>2. CASE Crash
  BY <1>2 DEF Crash, Next
<1>3. ASSUME NEW r \in Runs, Start(r) \/ Relay(r) \/ Cancel(r) \/ Open(r) \/ DropHandle(r)
      PROVE  [Next]_managerVars
  BY <1>3 DEF Start, Relay, Cancel, Open, DropHandle, Next, RunStep
<1>4. ASSUME NEW r \in Runs, \E grade \in Grade : Record(r, grade) PROVE [Next]_managerVars
  <2>1. progress(r, tally'[r].completed) /\ tally'[r].completed = tally[r].completed + 1
    BY <1>4 DEF Record, counted, ExecInv, ExecTypeOK, Tally
  <2>2. active.completed = tally[r].completed
    BY <1>4, <2>1 DEF Record, progress, Counted, CountIsShown
  <2>3. progress(r, active.completed + 1)
    BY <2>1, <2>2
  <2> QED
    BY <2>3 DEF Next, RunStep
<1>5. ASSUME NEW r \in Runs, Judge(r) PROVE [Next]_managerVars
  <2>1. CASE progress(r, tally[r].completed)
    <3>1. tally[r].completed \in {active.completed, active.completed + 1}
      BY <2>1 DEF progress, Counted, CountIsShown
    <3> QED
      BY <2>1, <3>1 DEF Next, RunStep
  <2> QED
    BY <1>5, <2>1 DEF Judge
<1>6. ASSUME NEW r \in Runs, Finish(r) PROVE [Next]_managerVars
  <2>1. verdict[r].code \in Codes
    BY DEF ExecInv, ExecTypeOK, Verdict
  <2>2. (verdict[r].status = "PartialFailure") \in BOOLEAN
    OBVIOUS
  <2>3. RunStep(r)
    BY <1>6, <2>1, <2>2 DEF Finish, RunStep
  <2> QED
    BY <2>3 DEF Next
<1>7. ASSUME NEW r \in Runs, ReportError(r) PROVE [Next]_managerVars
  <2>1. CASE failure(r, Is_throughput(r), result[r])
    <3>1. result[r] \in Category /\ Is_throughput(r) \in BOOLEAN
      BY <1>7 DEF ReportError, ExecInv, ExecTypeOK, Accounted, Is_throughput
    <3> QED
      BY <2>1, <3>1 DEF Next, RunStep
  <2> QED
    BY <1>7, <2>1 DEF ReportError
<1>8. ASSUME NEW r \in Runs,
             \/ Acquire(r) \/ Refused(r) \/ SetupFails(r) \/ StartItem(r) \/ SkipItem(r)
             \/ EndLoop(r) \/ StepFails(r) \/ EngineStops(r) \/ Summarise(r) \/ CloseLog(r)
             \/ Unlock(r) \/ DropLocals(r) \/ (\E landed \in BOOLEAN : SummaryFails(r, landed))
             \/ (\E grade \in Grade, landed \in BOOLEAN : RecordFails(r, grade, landed))
      PROVE  UNCHANGED managerVars
  BY <1>8 DEF Acquire, Refused, SetupFails, StartItem, SkipItem, EndLoop, StepFails, EngineStops,
     Summarise, CloseLog, Unlock, DropLocals, SummaryFails, RecordFails
<1> QED
  BY <1>1, <1>2, <1>3, <1>4, <1>5, <1>6, <1>7, <1>8 DEF ExecNext, Task, Measure, Conclude

(* The tasks of the runs, their relay, the windows and a crash never use the   *)
(* manager other than by its operations, so that it is to them the slot it     *)
(* promises to be (execution.rs:133-243; manager.rs:69-227).                   *)
THEOREM RunsShareOneSlot == ExecSpec => Spec /\ ImplementsOneSlot
<1>1. ExecInit => Init
  BY DEF ExecInit
<1>2. ExecInv /\ Counted /\ [ExecNext]_<<vars, setting>> => [Next]_managerVars
  BY ExecStepsManager
<1>3. ExecSafety => Spec
  BY <1>1, <1>2, ExecInvariance, CountedInvariance, PTL DEF ExecSafety, Spec
<1>4. ExecSpec => ExecSafety
  BY DEF ExecSpec
<1> QED
  BY <1>3, <1>4, ManagerImplementsOneSlot, PTL

(* The same of the desktop host: its commands, its event loop and its shutdown *)
(* use the manager by its operations only (main.rs:35-56, 192-272).            *)
THEOREM HostSharesOneSlot == HostSpec => Spec /\ ImplementsOneSlot
<1>1. HostInit => Init
  BY DEF HostInit
<1>2. ASSUME HostInv, [HostNext]_hostVars PROVE [Next]_managerVars
  <2>1. ASSUME NEW r \in Runs, start_run(r) \/ cancel_run(r) PROVE Next
    BY <2>1 DEF start_run, cancel_run, Next, RunStep
  <2>2. ASSUME NEW r \in Runs, RunTask(r) PROVE Next
    <3>1. SUCCESS \in Codes /\ PARTIAL_FAILURE \in Codes /\ CANCELLED \in Codes
      BY DEF Codes, SUCCESS, PARTIAL_FAILURE, CANCELLED
    <3>2. "Connectivity" \in Category
      BY DEF Category
    <3>3. RunStep(r)
      BY <2>2, <3>1, <3>2 DEF RunTask, RunStep
    <3> QED
      BY <3>3 DEF Next
  <2>3. CASE CancelActive
    <3>1. CASE active.run_id = target /\ measurement_active
      <4>1. active.run_id \in Runs
        BY <1>2, <3>1 DEF HostInv, Inv, TypeOK, Progress, RecordShape, measurement_active,
           is_active, ActiveState
      <4> QED
        BY <2>3, <3>1, <4>1 DEF CancelActive, Next, RunStep
    <3> QED
      BY <2>3, <3>1 DEF CancelActive
  <2>4. ASSUME NEW c \in Changes, Invoke(c) \/ HelperChange(c) PROVE UNCHANGED managerVars
    BY <2>4 DEF Invoke, HelperChange, TryGate, SetFlag, CheckShutdown, CheckRun, EndOperation,
       ReleaseGate
  <2>5. CASE \/ UNCHANGED hostVars \/ Receive("close") \/ Receive("exit") \/ LookAtFlag \/ Allow
             \/ BeginShutdown \/ Snapshot \/ ShutdownTask
    BY <2>5 DEF hostVars, Receive, LookAtFlag, Allow, BeginShutdown, Snapshot, ShutdownTask,
       AwaitRun, AwaitFlag, RequestExit, GiveUp
  <2> QED
    BY <1>2, <2>1, <2>2, <2>3, <2>4, <2>5 DEF HostNext, MainThread
<1>3. HostSpec => HostInit /\ [][HostNext]_hostVars
  BY PTL DEF HostSpec
<1>4. HostSpec => Spec
  BY <1>1, <1>2, <1>3, HostInitInv, HostStepInv, PTL DEF Spec
<1> QED
  BY <1>4, ManagerImplementsOneSlot, PTL
=============================================================================
