---------------------------- MODULE PacedRunner ----------------------------
(***************************************************************************)
(* run_sequential and run_concurrent of path-io/native/pacing.rs: probes   *)
(* sent one after the other, or at most MaxOutstanding at a time by worker *)
(* threads that share one cancellation.  The pauses between sends only     *)
(* delay; they are the steps that need not be taken yet.                   *)
(***************************************************************************)
EXTENDS Integers, Sequences, FiniteSets

CONSTANTS
  Jobs,            \* bound: the largest number of jobs of one run
  MaxOutstanding,  \* as the caller asks
  Descriptors      \* the soft limit of open files

ASSUME PacedAssumption ==
  Jobs \in Nat /\ MaxOutstanding \in Nat \ {0} /\ Descriptors \in Nat

VARIABLES
  token,      \* the caller's cancellation
  scoped,     \* the cancellation of this run alone, as the caller's guard sets it
  mode,       \* "none", "sequential" or "concurrent"
  at,         \* where the run is
  planned,    \* how many jobs it has
  next,       \* the job that is sent next
  worker,     \* per job: "none", "running", "finished" or "joined"
  outcome,    \* per job: what its probe came to
  stopped,    \* worker_cancellation was cancelled by the run itself
  completed,  \* jobs whose samples were collected, in that order
  failure     \* PacedResult.failure

runnerVars == <<mode, at, planned, next, worker, outcome, stopped, completed, failure>>

Job == 1..Jobs
Samples == {"reply", "timeout", "cancelled"}     \* Ok: an answer, none, or not waited for

(* A thread that panics is an error of its run. *)
Failed(what) == IF what = "Panic" THEN "Error" ELSE what

(* 64 descriptors are reserved, and a probe may need 3. *)
clamp_outstanding ==
  LET budget == IF Descriptors < 64 THEN 0 ELSE (Descriptors - 64) \div 3
      atLeastOne == IF budget = 0 THEN 1 ELSE budget
  IN  IF MaxOutstanding < atLeastOne THEN MaxOutstanding ELSE atLeastOne

Unjoined == {j \in Job : worker[j] \in {"running", "finished"}}

RunnerInit ==
  /\ mode = "none" /\ at = "returned" /\ planned = 0 /\ next = 1
  /\ worker = [j \in Job |-> "none"] /\ outcome = [j \in Job |-> "none"]
  /\ stopped = FALSE /\ completed = <<>> /\ failure = "none"

(* The caller starts a run of n jobs. *)
Begin(how, n) ==
  /\ mode' = how /\ at' = "wait" /\ planned' = n /\ next' = 1
  /\ worker' = [j \in Job |-> "none"] /\ outcome' = [j \in Job |-> "none"]
  /\ stopped' = FALSE /\ completed' = <<>> /\ failure' = "none"

CallerCancelled == token \/ scoped

(* The first failure is kept, but a cancellation gives way to an error. *)
record_failure(error) ==
  /\ failure' = IF failure = "none" \/ (failure = "Cancelled" /\ error # "Cancelled")
                THEN error ELSE failure
  /\ stopped' = TRUE

----------------------------------------------------------------------------
(* Both: no more jobs, or the pause before the next one. *)

wait_until ==
  /\ at = "wait"
  /\ IF next > planned
     THEN at' = "drain" /\ UNCHANGED <<failure, stopped>>
     ELSE IF CallerCancelled
     THEN /\ at' = "drain"
          /\ IF mode = "concurrent" THEN record_failure("Cancelled")
             ELSE failure' = "Cancelled" /\ UNCHANGED stopped
     ELSE at' = (IF mode = "concurrent" THEN "reap" ELSE "send") /\ UNCHANGED <<failure, stopped>>
  /\ UNCHANGED <<mode, planned, next, worker, outcome, completed>>

(* The probe of the job starts, in a thread of its own or in this one. *)
send ==
  /\ at = "send"
  /\ worker' = [worker EXCEPT ![next] = "running"]
  /\ next' = next + 1
  /\ at' = IF mode = "concurrent" THEN "wait" ELSE "probe"
  /\ UNCHANGED <<mode, planned, outcome, stopped, completed, failure>>

spawn_fails ==
  /\ at = "send" /\ mode = "concurrent"
  /\ record_failure("Error")
  /\ at' = "drain"
  /\ UNCHANGED <<mode, planned, next, worker, outcome, completed>>

(* A probe sees the cancellation before it is sent or while it waits. *)
ProbeCancelled == CallerCancelled \/ (mode = "concurrent" /\ stopped)
probe(j) ==
  /\ worker[j] = "running"
  /\ worker' = [worker EXCEPT ![j] = "finished"]
  /\ \E what \in {"reply", "timeout", "Error", "Panic"}
                 \cup (IF ProbeCancelled THEN {"cancelled", "Cancelled"} ELSE {}) :
       outcome' = [outcome EXCEPT ![j] = what]
  /\ UNCHANGED <<mode, at, planned, next, stopped, completed, failure>>

(* run_sequential takes the result of the job it waits for. *)
take ==
  /\ at = "probe"
  /\ \E j \in Job :
       /\ worker[j] = "finished"
       /\ worker' = [worker EXCEPT ![j] = "joined"]
       /\ IF outcome[j] \in Samples
          THEN completed' = Append(completed, j) /\ at' = "wait" /\ UNCHANGED failure
          ELSE failure' = Failed(outcome[j]) /\ at' = "drain" /\ UNCHANGED completed
  /\ UNCHANGED <<mode, planned, next, outcome, stopped>>

----------------------------------------------------------------------------
(* run_concurrent. *)

collect_worker(j) ==
  /\ worker' = [worker EXCEPT ![j] = "joined"]
  /\ IF outcome[j] \in Samples
     THEN completed' = Append(completed, j) /\ UNCHANGED <<failure, stopped>>
     ELSE record_failure(Failed(outcome[j])) /\ UNCHANGED completed

Finished == {j \in Job : worker[j] = "finished"}

(* Mutant: nothing is collected after the last send. *)
collect_InLoop ==
  /\ at = "reap" /\ mode = "concurrent"
  /\ \E j \in Finished : (\A k \in Finished : j <= k) /\ collect_worker(j)
  /\ UNCHANGED <<mode, at, planned, next, outcome>>

collect ==
  /\ at \in {"reap", "drain"} /\ mode = "concurrent"
  /\ \E j \in Finished : (\A k \in Finished : j <= k) /\ collect_worker(j)
  /\ UNCHANGED <<mode, at, planned, next, outcome>>

(* Mutant: the failure of a worker is not looked at. *)
decide_GoesOn ==
  /\ at = "reap" /\ Finished = {}
  /\ \/ CallerCancelled /\ record_failure("Cancelled") /\ at' = "drain"
     \/ /\ ~CallerCancelled
        /\ Cardinality(Unjoined) < clamp_outstanding /\ at' = "send"
        /\ UNCHANGED <<failure, stopped>>
  /\ UNCHANGED <<mode, planned, next, worker, outcome, completed>>

(* Nothing to collect: stop, send, or look again after a while. *)
decide ==
  /\ at = "reap" /\ Finished = {}
  /\ \/ CallerCancelled /\ record_failure("Cancelled") /\ at' = "drain"
     \/ /\ ~CallerCancelled
        /\ \/ failure # "none" /\ at' = "drain"
           \/ failure = "none" /\ Cardinality(Unjoined) < clamp_outstanding /\ at' = "send"
        /\ UNCHANGED <<failure, stopped>>
  /\ UNCHANGED <<mode, planned, next, worker, outcome, completed>>

(* The workers that still run learn of a cancellation that came later. *)
notice ==
  /\ at = "drain" /\ mode = "concurrent" /\ Unjoined # {}
  /\ CallerCancelled /\ failure = "none"
  /\ record_failure("Cancelled")
  /\ UNCHANGED <<mode, at, planned, next, worker, outcome, completed>>

(* Mutant: the workers are left to themselves. *)
return_Early ==
  /\ at = "drain" /\ (failure = "none" => Unjoined = {})
  /\ at' = "returned"
  /\ UNCHANGED <<mode, planned, next, worker, outcome, stopped, completed, failure>>

return ==
  /\ at = "drain" /\ Unjoined = {}
  /\ at' = "returned"
  /\ UNCHANGED <<mode, planned, next, worker, outcome, stopped, completed, failure>>

Runner == wait_until \/ send \/ spawn_fails \/ take \/ collect \/ decide \/ notice \/ return
Workers == \E j \in Job : probe(j)

----------------------------------------------------------------------------
(* A run that returns has collected every probe it sent; without a failure    *)
(* every job was done, and a probe that failed is what the run reports, not   *)
(* the cancellation of its peers (pacing.rs:97-166, 218-246).                 *)
RunIsAccounted ==
  at = "returned" /\ mode # "none" =>
    /\ Unjoined = {}
    /\ {completed[n] : n \in 1..Len(completed)} = {j \in Job : outcome[j] \in Samples}
    /\ failure = "none" => Len(completed) = planned
    /\ (\E j \in Job : outcome[j] \in {"Error", "Panic"}) => failure = "Error"
    /\ failure = "Cancelled" => CallerCancelled

(* No more workers than asked for, nor than there are descriptors for, and    *)
(* none is sent when a collected one has failed (pacing.rs:101-125, 173-180). *)
OutstandingIsBounded ==
  [][ /\ Cardinality(Unjoined') <= clamp_outstanding
      /\ failure # "none" /\ at # "returned" => \A j \in Job : worker[j] = "none" => worker'[j] = "none"
    ]_runnerVars
============================================================================
