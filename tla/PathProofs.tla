----------------------------- MODULE PathProofs -----------------------------
(***************************************************************************)
(* Proofs about paced probes and the basic path, for any number of jobs,   *)
(* workers, descriptors, pings, hops and probes.                           *)
(*                                                                         *)
(* A job is sent once, in order, and collected once; a run that goes on    *)
(* has not failed, and every probe that was broken off was cancelled by    *)
(* the caller or by a run that reports an error.  A stage of an item that  *)
(* is over has all its samples, or is listed as failed, or the flag of the *)
(* item says that it was cancelled.                                        *)
(***************************************************************************)
EXTENDS BasicPath, FiniteSetTheorems, SequenceTheorems, TLAPS

WorkerStep == {"none", "running", "finished", "joined"}
ProbeEnd   == Samples \cup {"Error", "Panic", "Cancelled"}

RunnerTypes ==
  /\ mode \in {"none", "sequential", "concurrent"}
  /\ at \in {"wait", "send", "probe", "reap", "drain", "returned"}
  /\ planned \in 0..Jobs /\ next \in 1..(planned + 1)
  /\ worker \in [Job -> WorkerStep]
  /\ outcome \in [Job -> ProbeEnd \cup {"none"}]
  /\ stopped \in BOOLEAN
  /\ completed \in Seq(Job)
  /\ failure \in {"none", "Error", "Cancelled"}

(* The jobs before the next one were sent, and those that ended have a result. *)
SentInOrder ==
  \A j \in Job : /\ worker[j] = "none" <=> next <= j
                 /\ outcome[j] = "none" <=> worker[j] \in {"none", "running"}

(* A collected sample is kept once. *)
CollectedOnce ==
  /\ IsInjective(completed)
  /\ {completed[n] : n \in 1..Len(completed)}
       = {j \in Job : worker[j] = "joined" /\ outcome[j] \in Samples}

(* Why a run stops, and what it stops with. *)
FailureIsKept ==
  /\ at \in {"wait", "send", "probe"} => failure = "none"
  /\ at \in {"send", "reap"} => next <= planned
  /\ at \in {"drain", "returned"} /\ failure = "none" => next = planned + 1
  /\ stopped => failure # "none"
  /\ \A j \in Job : worker[j] = "joined" /\ outcome[j] \notin Samples => failure # "none"
  /\ \A j \in Job : worker[j] = "joined" /\ outcome[j] \in {"Error", "Panic"} => failure = "Error"
  /\ \A j \in Job : outcome[j] \in {"cancelled", "Cancelled"} => CallerCancelled \/ failure = "Error"
  /\ failure = "Cancelled" => CallerCancelled

(* One probe at a time, or as many as there may be. *)
WorkersAreFew ==
  /\ at = "returned" => Unjoined = {}
  /\ mode # "concurrent" /\ at # "probe" => Unjoined = {}
  /\ mode # "concurrent" /\ at = "probe" => Unjoined \subseteq {next - 1}
  /\ at = "probe" => mode # "concurrent"
  /\ at = "reap" => mode = "concurrent"
  /\ Cardinality(Unjoined) <= clamp_outstanding
  /\ mode = "concurrent" /\ at = "send" => Cardinality(Unjoined) < clamp_outstanding

RunnerInv == RunnerTypes /\ SentInOrder /\ CollectedOnce /\ FailureIsKept /\ WorkersAreFew
CallerTypes == token \in BOOLEAN /\ scoped \in BOOLEAN

----------------------------------------------------------------------------
LEMMA JobsAreFinite ==
  ASSUME NEW S \in SUBSET Job PROVE IsFiniteSet(S) /\ Cardinality(S) \in Nat
<1>1. IsFiniteSet(Job)
  BY FS_Interval, PacedAssumption DEF Job
<1> QED
  BY <1>1, FS_Subset, FS_CardinalityType

(* At least one probe is allowed (pacing.rs:173-180). *)
LEMMA ClampIsPositive == clamp_outstanding \in Nat \ {0}
<1> DEFINE budget == IF Descriptors < 64 THEN 0 ELSE (Descriptors - 64) \div 3
<1>1. budget \in Nat
  BY PacedAssumption
<1> QED
  BY <1>1, PacedAssumption DEF clamp_outstanding

(* A worker whose result is taken. *)
LEMMA FewerWorkers ==
  ASSUME NEW S \in SUBSET Job, NEW T \in SUBSET S PROVE Cardinality(T) <= Cardinality(S)
BY JobsAreFinite, FS_Subset

(* A sequence without repetition, with one more element. *)
LEMMA DistinctAppend ==
  ASSUME NEW S, NEW seq \in Seq(S), NEW x \in S, IsInjective(seq),
         \A n \in 1..Len(seq) : seq[n] # x
  PROVE  /\ Append(seq, x) \in Seq(S) /\ IsInjective(Append(seq, x))
         /\ Len(Append(seq, x)) = Len(seq) + 1
         /\ {Append(seq, x)[n] : n \in 1..Len(Append(seq, x))}
              = {seq[n] : n \in 1..Len(seq)} \cup {x}
<1>1. /\ Append(seq, x) \in Seq(S) /\ Len(Append(seq, x)) = Len(seq) + 1
      /\ \A i \in 1..Len(seq) : Append(seq, x)[i] = seq[i]
      /\ Append(seq, x)[Len(seq) + 1] = x
      /\ Len(seq) \in Nat
  BY AppendProperties, LenProperties
<1>2. DOMAIN Append(seq, x) = 1..(Len(seq) + 1) /\ DOMAIN seq = 1..Len(seq)
  BY <1>1, LenProperties
<1>3. IsInjective(Append(seq, x))
  BY <1>1, <1>2 DEF IsInjective
<1>4. {Append(seq, x)[n] : n \in 1..(Len(seq) + 1)} = {seq[n] : n \in 1..Len(seq)} \cup {x}
  BY <1>1
<1> QED
  BY <1>1, <1>3, <1>4

----------------------------------------------------------------------------
(* A run that begins has sent and collected nothing (pacing.rs:30-60, 90-100). *)
LEMMA BeginInv ==
  ASSUME NEW n \in 0..Jobs, NEW how \in {"sequential", "concurrent"}, Begin(how, n),
         CallerTypes, UNCHANGED <<token, scoped>>
  PROVE  RunnerInv' /\ Unjoined' = {}
<1>1. Unjoined' = {} /\ Cardinality(Unjoined') = 0 /\ clamp_outstanding' = clamp_outstanding
  <2>1. Unjoined' = {}
    BY DEF Begin, Unjoined
  <2> QED
    BY <2>1, FS_EmptySet DEF clamp_outstanding
<1>2. RunnerTypes'
  <2>1. <<>> \in Seq(Job) /\ n \in Nat
    BY EmptySeq, PacedAssumption
  <2>2. 0 \in 0..Jobs /\ 1 \in 1..(n + 1)
    BY <2>1, PacedAssumption
  <2> QED
    BY <2>1, <2>2 DEF Begin, RunnerTypes, WorkerStep
<1>3. SentInOrder'
  BY PacedAssumption DEF Begin, SentInOrder, Job
<1>4. CollectedOnce'
  <2>1. completed' = <<>> /\ Len(<<>>) = 0
    BY DEF Begin
  <2>2. IsInjective(<<>>) /\ {completed'[m] : m \in 1..Len(completed')} = {}
    BY <2>1 DEF IsInjective
  <2>3. {j \in Job : worker'[j] = "joined" /\ outcome'[j] \in Samples} = {}
    BY DEF Begin
  <2> QED
    BY <2>1, <2>2, <2>3 DEF CollectedOnce
<1>5. FailureIsKept'
  BY DEF Begin, FailureIsKept
<1>6. WorkersAreFew'
  BY <1>1, ClampIsPositive DEF Begin, WorkersAreFew
<1> QED
  BY <1>1, <1>2, <1>3, <1>4, <1>5, <1>6 DEF RunnerInv

(* A cancellation of the caller leaves the run as it is. *)
LEMMA CallerInv ==
  ASSUME RunnerInv, CallerTypes, UNCHANGED runnerVars, token => token', scoped => scoped'
  PROVE  RunnerInv'
<1> USE DEF runnerVars, RunnerInv
<1>1. RunnerTypes' /\ SentInOrder' /\ CollectedOnce'
  BY DEF RunnerTypes, SentInOrder, CollectedOnce
<1>2. FailureIsKept'
  BY DEF FailureIsKept, CallerCancelled
<1>3. WorkersAreFew'
  BY DEF WorkersAreFew, Unjoined, clamp_outstanding
<1> QED
  BY <1>1, <1>2, <1>3

(* The run moves on, and learns of a cancellation; its workers stay as they are. *)
LEMMA WaitInv ==
  ASSUME RunnerInv, CallerTypes, UNCHANGED <<token, scoped>>,
         wait_until \/ spawn_fails \/ decide \/ notice \/ return
  PROVE  RunnerInv' /\ Unjoined' = Unjoined
<1>1. UNCHANGED <<mode, planned, next, worker, outcome, completed>>
  BY DEF wait_until, spawn_fails, decide, notice, return
<1>2. Unjoined' = Unjoined /\ clamp_outstanding' = clamp_outstanding
        /\ CallerCancelled' = CallerCancelled
  BY <1>1 DEF Unjoined, clamp_outstanding, CallerCancelled
<1>3. /\ at' \in {"wait", "send", "probe", "reap", "drain", "returned"}
      /\ stopped' \in BOOLEAN /\ failure' \in {"none", "Error", "Cancelled"}
  BY DEF RunnerInv, RunnerTypes, wait_until, spawn_fails, decide, notice, return, record_failure
<1>4. RunnerTypes' /\ SentInOrder' /\ CollectedOnce'
  BY <1>1, <1>3 DEF RunnerInv, RunnerTypes, SentInOrder, CollectedOnce
<1>5. FailureIsKept'
  <2>1. /\ failure' = failure \/ (failure' = "Cancelled" /\ failure = "none" /\ CallerCancelled)
           \/ failure' = "Error" \/ (failure' = "Cancelled" /\ failure = "Cancelled")
        /\ failure = "Error" => failure' = "Error"
        /\ failure # "none" => failure' # "none"
        /\ stopped' => stopped \/ failure' # "none"
    BY <1>3 DEF RunnerInv, RunnerTypes, FailureIsKept, wait_until, spawn_fails, decide, notice,
       return, record_failure
  <2>2. /\ at' \in {"wait", "send", "probe"} => failure' = "none"
        /\ at' \in {"send", "reap"} => next <= planned
        /\ at' \in {"drain", "returned"} /\ failure' = "none" => next = planned + 1
    BY DEF RunnerInv, RunnerTypes, FailureIsKept, wait_until, spawn_fails, decide, notice,
       return, record_failure
  <2> QED
    BY <1>1, <1>2, <2>1, <2>2 DEF RunnerInv, FailureIsKept
<1>6. WorkersAreFew'
  <2>1. /\ at' = "returned" => Unjoined = {}
        /\ at' = "probe" => FALSE
        /\ at' = "reap" => mode = "concurrent"
        /\ mode = "concurrent" /\ at' = "send" => Cardinality(Unjoined) < clamp_outstanding
        /\ at # "probe"
    BY DEF RunnerInv, RunnerTypes, WorkersAreFew, wait_until, spawn_fails, decide, notice, return
  <2> QED
    BY <1>1, <1>2, <2>1 DEF RunnerInv, WorkersAreFew
<1> QED
  BY <1>2, <1>4, <1>5, <1>6 DEF RunnerInv

(* The next job is sent; there was room for it (pacing.rs:40-60, 110-140). *)
LEMMA SendInv ==
  ASSUME RunnerInv, CallerTypes, UNCHANGED <<token, scoped>>, send
  PROVE  RunnerInv' /\ Cardinality(Unjoined') <= clamp_outstanding /\ failure = "none"
<1>1. /\ at = "send" /\ failure = "none" /\ next \in Job /\ worker[next] = "none"
      /\ planned \in Nat /\ next \in Nat /\ planned <= Jobs /\ next <= planned
      /\ outcome[next] = "none"
  BY PacedAssumption DEF send, RunnerInv, RunnerTypes, FailureIsKept, SentInOrder, Job
<1>2. /\ worker' = [worker EXCEPT ![next] = "running"] /\ next' = next + 1
      /\ at' = IF mode = "concurrent" THEN "wait" ELSE "probe"
      /\ UNCHANGED <<mode, planned, outcome, stopped, completed, failure>>
  BY DEF send
<1>3. /\ \A j \in Job : worker'[j] = IF j = next THEN "running" ELSE worker[j]
      /\ worker' \in [Job -> WorkerStep]
  BY <1>1, <1>2 DEF RunnerInv, RunnerTypes, WorkerStep
<1>4. Unjoined' = Unjoined \cup {next} /\ clamp_outstanding' = clamp_outstanding
        /\ CallerCancelled' = CallerCancelled
  BY <1>1, <1>3 DEF Unjoined, clamp_outstanding, CallerCancelled
<1>5. RunnerTypes'
  BY <1>1, <1>2, <1>3 DEF RunnerInv, RunnerTypes
<1>6. SentInOrder'
  BY <1>1, <1>2, <1>3, PacedAssumption DEF RunnerInv, SentInOrder, Job
<1>7. CollectedOnce'
  <2>1. \A j \in Job : worker'[j] = "joined" <=> worker[j] = "joined"
    BY <1>1, <1>3
  <2> QED
    BY <1>2, <2>1 DEF RunnerInv, CollectedOnce
<1>8. FailureIsKept'
  BY <1>1, <1>2, <1>3, <1>4 DEF RunnerInv, FailureIsKept
<1>9. Cardinality(Unjoined') <= clamp_outstanding
  <2>1. Unjoined \in SUBSET Job
    BY DEF Unjoined
  <2>2. IsFiniteSet(Unjoined) /\ Cardinality(Unjoined) \in Nat
    BY <2>1, JobsAreFinite
  <2>3. /\ Cardinality(Unjoined \cup {next}) <= Cardinality(Unjoined) + 1
        /\ Cardinality(Unjoined \cup {next}) \in Nat
    <3>1. Cardinality(Unjoined \cup {next})
            = IF next \in Unjoined THEN Cardinality(Unjoined) ELSE Cardinality(Unjoined) + 1
      BY <2>2, FS_AddElement
    <3> QED
      BY <2>2, <3>1
  <2>4. CASE mode = "concurrent"
    <3>1. Cardinality(Unjoined) < clamp_outstanding
      BY <1>1, <2>4 DEF RunnerInv, WorkersAreFew
    <3>2. Cardinality(Unjoined \cup {next}) <= clamp_outstanding
      BY <2>2, <2>3, <3>1, ClampIsPositive
    <3> QED
      BY <1>4, <3>2
  <2>5. CASE mode # "concurrent"
    <3>1. Unjoined = {}
      BY <1>1, <2>5 DEF RunnerInv, WorkersAreFew
    <3>2. Unjoined' = {next}
      BY <1>4, <3>1
    <3>3. Cardinality({next}) = 1
      BY FS_Singleton
    <3> QED
      BY <3>2, <3>3, ClampIsPositive
  <2> QED
    BY <2>4, <2>5
<1>10. WorkersAreFew'
  <2>1. mode # "concurrent" => Unjoined' = {next' - 1}
    BY <1>1, <1>2, <1>4 DEF RunnerInv, WorkersAreFew
  <2> QED
    BY <1>2, <1>4, <1>9, <2>1 DEF WorkersAreFew
<1> QED
  BY <1>1, <1>5, <1>6, <1>7, <1>8, <1>9, <1>10 DEF RunnerInv

(* A probe ends in its thread; it is broken off only by a cancellation that   *)
(* the run or its caller made (pacing.rs:130-140).                             *)
LEMMA ProbeInv ==
  ASSUME RunnerInv, CallerTypes, UNCHANGED <<token, scoped>>, NEW j \in Job, probe(j)
  PROVE  RunnerInv' /\ Unjoined' = Unjoined
<1>1. /\ worker[j] = "running" /\ worker' = [worker EXCEPT ![j] = "finished"]
      /\ UNCHANGED <<mode, at, planned, next, stopped, completed, failure>>
  BY DEF probe
<1>2. PICK what \in ProbeEnd :
        /\ outcome' = [outcome EXCEPT ![j] = what]
        /\ what \in {"cancelled", "Cancelled"} => ProbeCancelled
  BY DEF probe, ProbeEnd, Samples
<1>3. /\ \A k \in Job : worker'[k] = IF k = j THEN "finished" ELSE worker[k]
      /\ \A k \in Job : outcome'[k] = IF k = j THEN what ELSE outcome[k]
      /\ worker' \in [Job -> WorkerStep] /\ outcome' \in [Job -> ProbeEnd \cup {"none"}]
  BY <1>1, <1>2 DEF RunnerInv, RunnerTypes, WorkerStep
<1>4. Unjoined' = Unjoined /\ clamp_outstanding' = clamp_outstanding
        /\ CallerCancelled' = CallerCancelled
  BY <1>1, <1>3 DEF Unjoined, clamp_outstanding, CallerCancelled
<1>5. RunnerTypes'
  BY <1>1, <1>3 DEF RunnerInv, RunnerTypes
<1>6. SentInOrder'
  BY <1>1, <1>2, <1>3 DEF RunnerInv, SentInOrder, ProbeEnd, Samples
<1>7. CollectedOnce'
  <2>1. \A k \in Job : worker'[k] = "joined" <=> worker[k] = "joined" /\ k # j
    BY <1>1, <1>3
  <2> QED
    BY <1>1, <1>3, <2>1 DEF RunnerInv, CollectedOnce
<1>8. FailureIsKept'
  <2>1. what \in {"cancelled", "Cancelled"} => CallerCancelled \/ failure = "Error"
    BY <1>2 DEF ProbeCancelled, RunnerInv, RunnerTypes, FailureIsKept
  <2> QED
    BY <1>1, <1>3, <1>4, <2>1 DEF RunnerInv, FailureIsKept
<1>9. WorkersAreFew'
  BY <1>1, <1>4 DEF RunnerInv, WorkersAreFew
<1> QED
  BY <1>4, <1>5, <1>6, <1>7, <1>8, <1>9 DEF RunnerInv

(* A result is taken: a sample is added, a failure recorded. *)
LEMMA TakenInv ==
  ASSUME RunnerInv, CallerTypes, UNCHANGED <<token, scoped>>, NEW j \in Job,
         worker[j] = "finished", worker' = [worker EXCEPT ![j] = "joined"],
         UNCHANGED <<mode, planned, next, outcome>>,
         at' \in {"wait", "reap", "drain"},
         at' = "reap" => at = "reap", at' = "drain" => at = "drain" \/ outcome[j] \notin Samples,
         at' = "wait" => outcome[j] \in Samples /\ failure = "none" /\ mode # "concurrent",
         mode # "concurrent" => at = "probe",
         stopped' \in BOOLEAN, stopped' => stopped \/ failure' # "none",
         \/ outcome[j] \in Samples /\ completed' = Append(completed, j) /\ failure' = failure
         \/ /\ outcome[j] \notin Samples /\ completed' = completed
            /\ failure' = IF failure = "none"
                             \/ (failure = "Cancelled" /\ Failed(outcome[j]) # "Cancelled")
                          THEN Failed(outcome[j]) ELSE failure
  PROVE  RunnerInv' /\ Unjoined' = Unjoined \ {j}
<1>1. /\ \A k \in Job : worker'[k] = IF k = j THEN "joined" ELSE worker[k]
      /\ worker' \in [Job -> WorkerStep]
  BY DEF RunnerInv, RunnerTypes, WorkerStep
<1>2. Unjoined' = Unjoined \ {j} /\ clamp_outstanding' = clamp_outstanding
        /\ CallerCancelled' = CallerCancelled
  BY <1>1 DEF Unjoined, clamp_outstanding, CallerCancelled
<1>3. outcome[j] \in ProbeEnd /\ worker[j] # "joined" /\ worker[j] # "none" /\ outcome[j] # "none"
  BY DEF RunnerInv, RunnerTypes, SentInOrder
<1>4. outcome[j] \notin Samples =>
        /\ outcome[j] \in {"Error", "Panic", "Cancelled"}
        /\ Failed(outcome[j]) \in {"Error", "Cancelled"}
        /\ Failed(outcome[j]) = "Cancelled" <=> outcome[j] = "Cancelled"
  BY <1>3 DEF ProbeEnd, Failed
<1>5. /\ failure' \in {"none", "Error", "Cancelled"}
      /\ failure = "Error" => failure' = "Error"
      /\ failure # "none" => failure' # "none"
      /\ outcome[j] \notin Samples => failure' # "none"
      /\ outcome[j] \in {"Error", "Panic"} => failure' = "Error"
      /\ failure' = "Cancelled" => failure = "Cancelled" \/ outcome[j] = "Cancelled"
  BY <1>4 DEF RunnerInv, RunnerTypes, Samples
<1>6. /\ completed' \in Seq(Job) /\ CollectedOnce'
  <2>1. completed \in Seq(Job) /\ IsInjective(completed)
        /\ {completed[n] : n \in 1..Len(completed)}
             = {k \in Job : worker[k] = "joined" /\ outcome[k] \in Samples}
    BY DEF RunnerInv, RunnerTypes, CollectedOnce
  <2>2. {k \in Job : worker'[k] = "joined" /\ outcome'[k] \in Samples}
          = {k \in Job : worker[k] = "joined" /\ outcome[k] \in Samples}
              \cup (IF outcome[j] \in Samples THEN {j} ELSE {})
    BY <1>1, <1>3
  <2>3. CASE outcome[j] \in Samples
    <3>1. \A n \in 1..Len(completed) : completed[n] # j
      BY <1>3, <2>1
    <3>2. completed' = Append(completed, j)
      BY <2>3
    <3>3. /\ Append(completed, j) \in Seq(Job) /\ IsInjective(Append(completed, j))
          /\ {Append(completed, j)[n] : n \in 1..Len(Append(completed, j))}
               = {completed[n] : n \in 1..Len(completed)} \cup {j}
      BY <2>1, <3>1, DistinctAppend
    <3> QED
      BY <2>1, <2>2, <2>3, <3>2, <3>3 DEF CollectedOnce
  <2>4. CASE outcome[j] \notin Samples
    BY <2>1, <2>2, <2>4 DEF CollectedOnce
  <2> QED
    BY <2>3, <2>4
<1>7. RunnerTypes'
  BY <1>1, <1>5, <1>6 DEF RunnerInv, RunnerTypes
<1>8. SentInOrder'
  BY <1>1, <1>3 DEF RunnerInv, SentInOrder
<1>9. FailureIsKept'
  <2>1. failure' = "Cancelled" => CallerCancelled
    BY <1>5 DEF RunnerInv, FailureIsKept
  <2>2. /\ at' \in {"wait", "send", "probe"} => failure' = "none"
        /\ at' \in {"send", "reap"} => next' <= planned'
        /\ at' \in {"drain", "returned"} /\ failure' = "none" => next' = planned' + 1
        /\ stopped' => failure' # "none"
    BY <1>5 DEF RunnerInv, FailureIsKept
  <2>3. \A k \in Job :
          /\ worker'[k] = "joined" /\ outcome'[k] \notin Samples => failure' # "none"
          /\ worker'[k] = "joined" /\ outcome'[k] \in {"Error", "Panic"} => failure' = "Error"
          /\ outcome'[k] \in {"cancelled", "Cancelled"} => CallerCancelled \/ failure' = "Error"
    BY <1>1, <1>5 DEF RunnerInv, FailureIsKept
  <2> QED
    BY <1>2, <2>1, <2>2, <2>3 DEF FailureIsKept
<1>10. WorkersAreFew'
  <2>1. Unjoined \in SUBSET Job /\ Unjoined' \in SUBSET Unjoined
    BY <1>2 DEF Unjoined
  <2>2. Cardinality(Unjoined') <= Cardinality(Unjoined) /\ Cardinality(Unjoined') \in Nat
          /\ Cardinality(Unjoined) \in Nat
    BY <2>1, FewerWorkers, JobsAreFinite
  <2>3. Cardinality(Unjoined') <= clamp_outstanding
    BY <2>2, ClampIsPositive DEF RunnerInv, WorkersAreFew
  <2>4. mode # "concurrent" => Unjoined' = {}
    BY <1>2 DEF RunnerInv, WorkersAreFew, Unjoined
  <2> QED
    BY <1>2, <2>3, <2>4 DEF RunnerInv, WorkersAreFew
<1> QED
  BY <1>2, <1>6, <1>7, <1>8, <1>9, <1>10 DEF RunnerInv

(* run_sequential takes a result, run_concurrent collects one                  *)
(* (pacing.rs:50-80, 141-166).                                                 *)
LEMMA TakeInv ==
  ASSUME RunnerInv, CallerTypes, UNCHANGED <<token, scoped>>, take \/ collect
  PROVE  RunnerInv' /\ Unjoined' \subseteq Unjoined
<1>1. CASE take
  <2>1. PICK j \in Job :
          /\ worker[j] = "finished" /\ worker' = [worker EXCEPT ![j] = "joined"]
          /\ IF outcome[j] \in Samples
             THEN completed' = Append(completed, j) /\ at' = "wait" /\ UNCHANGED failure
             ELSE failure' = Failed(outcome[j]) /\ at' = "drain" /\ UNCHANGED completed
    BY <1>1 DEF take
  <2>2. at = "probe" /\ failure = "none" /\ mode # "concurrent" /\ stopped \in BOOLEAN
          /\ UNCHANGED <<mode, planned, next, outcome, stopped>>
    BY <1>1 DEF take, RunnerInv, RunnerTypes, FailureIsKept, WorkersAreFew
  <2> QED
    BY <2>1, <2>2, TakenInv
<1>2. CASE collect
  <2>1. PICK j \in Finished : collect_worker(j)
    BY <1>2 DEF collect
  <2>2. j \in Job /\ worker[j] = "finished" /\ worker' = [worker EXCEPT ![j] = "joined"]
    BY <2>1 DEF collect_worker, Finished
  <2>3. at \in {"reap", "drain"} /\ mode = "concurrent" /\ stopped \in BOOLEAN
          /\ UNCHANGED <<mode, at, planned, next, outcome>>
    BY <1>2 DEF collect, RunnerInv, RunnerTypes
  <2>4. \/ outcome[j] \in Samples /\ completed' = Append(completed, j)
           /\ UNCHANGED <<failure, stopped>>
        \/ outcome[j] \notin Samples /\ record_failure(Failed(outcome[j])) /\ completed' = completed
    BY <2>1 DEF collect_worker
  <2>5. outcome[j] \notin Samples => Failed(outcome[j]) # "none"
    BY <2>2 DEF RunnerInv, RunnerTypes, SentInOrder, ProbeEnd, Failed
  <2>6. RunnerInv' /\ Unjoined' = Unjoined \ {j}
    <3>1. CASE outcome[j] \in Samples
      <4>1. /\ completed' = Append(completed, j) /\ failure' = failure
            /\ stopped' = stopped /\ at' = at /\ at # "wait"
        BY <2>3, <2>4, <3>1
      <4> QED
        BY <2>2, <2>3, <3>1, <4>1, TakenInv
    <3>2. CASE outcome[j] \notin Samples
      <4>1. /\ stopped' = TRUE /\ failure' # "none"
            /\ failure' = IF failure = "none"
                             \/ (failure = "Cancelled" /\ Failed(outcome[j]) # "Cancelled")
                          THEN Failed(outcome[j]) ELSE failure
        BY <2>4, <2>5, <3>2 DEF record_failure
      <4> QED
        BY <2>2, <2>3, <2>4, <3>2, <4>1, TakenInv
    <3> QED
      BY <3>1, <3>2
  <2> QED
    BY <2>6
<1> QED
  BY <1>1, <1>2

(* What a step of the run and its workers does (pacing.rs:30-166). *)
LEMMA ThreadsInv ==
  ASSUME RunnerInv, CallerTypes, UNCHANGED <<token, scoped>>, Runner \/ Workers
  PROVE  /\ RunnerInv' /\ Cardinality(Unjoined') <= clamp_outstanding
         /\ failure # "none" => \A j \in Job : worker[j] = "none" => worker'[j] = "none"
         /\ at # "returned" \/ Unjoined' = {}
<1>1. Unjoined \in SUBSET Job /\ Cardinality(Unjoined) \in Nat
        /\ Cardinality(Unjoined) <= clamp_outstanding
  BY JobsAreFinite DEF RunnerInv, WorkersAreFew, Unjoined
<1>2. CASE wait_until \/ spawn_fails \/ decide \/ notice \/ return
  <2>1. worker' = worker
    BY <1>2 DEF wait_until, spawn_fails, decide, notice, return
  <2> QED
    BY <1>1, <1>2, <2>1, WaitInv DEF RunnerInv, WorkersAreFew
<1>3. CASE send
  <2>1. at # "returned"
    BY <1>3 DEF send
  <2> QED
    BY <1>3, <2>1, SendInv
<1>4. CASE take \/ collect
  <2>1. \A j \in Job : worker[j] = "none" => worker'[j] = "none"
    BY <1>4 DEF take, collect, collect_worker, Finished, RunnerInv, RunnerTypes
  <2>2. RunnerInv' /\ Unjoined' \in SUBSET Unjoined
    BY <1>4, TakeInv
  <2>3. Cardinality(Unjoined') <= Cardinality(Unjoined) /\ Cardinality(Unjoined') \in Nat
    BY <1>1, <2>2, FewerWorkers, JobsAreFinite
  <2>4. at # "returned"
    BY <1>4 DEF take, collect
  <2> QED
    BY <1>1, <2>1, <2>2, <2>3, <2>4, ClampIsPositive
<1>5. CASE Workers
  <2>1. PICK j \in Job : probe(j)
    BY <1>5 DEF Workers
  <2>2. \A k \in Job : worker[k] = "none" => worker'[k] = "none"
    BY <2>1 DEF probe, RunnerInv, RunnerTypes
  <2>3. Unjoined # {}
    BY <2>1 DEF probe, Unjoined
  <2> QED
    BY <1>1, <2>1, <2>2, <2>3, ProbeInv DEF RunnerInv, WorkersAreFew
<1> QED
  BY <1>2, <1>3, <1>4, <1>5 DEF Runner

(* Without a failure every job was collected, once. *)
LEMMA AllCollected ==
  ASSUME RunnerInv, at = "returned", failure = "none"
  PROVE  Len(completed) = planned
<1>1. /\ planned \in Nat /\ planned <= Jobs /\ next = planned + 1 /\ Unjoined = {}
      /\ completed \in Seq(Job) /\ IsInjective(completed)
  BY PacedAssumption DEF RunnerInv, RunnerTypes, FailureIsKept, WorkersAreFew, CollectedOnce
<1>2. \A j \in Job : worker[j] \in {"none", "joined"}
  BY <1>1 DEF RunnerInv, RunnerTypes, Unjoined, WorkerStep
<1>3. \A j \in Job : worker[j] = "joined" /\ outcome[j] \in Samples <=> j < next
  BY <1>1, <1>2, PacedAssumption DEF RunnerInv, SentInOrder, FailureIsKept, Job, Samples
<1>4. {completed[n] : n \in 1..Len(completed)} = 1..planned
  <2>1. {j \in Job : worker[j] = "joined" /\ outcome[j] \in Samples} = 1..planned
    BY <1>1, <1>3, PacedAssumption DEF Job
  <2> QED
    BY <2>1 DEF RunnerInv, CollectedOnce
<1>5. Len(completed) \in Nat /\ completed \in [1..Len(completed) -> Job]
  BY <1>1, LenProperties
<1>6. completed \in [1..Len(completed) -> 1..planned]
  BY <1>4, <1>5
<1>7. completed \in Bijection(1..Len(completed), 1..planned)
  BY <1>1, <1>4, <1>6 DEF Bijection, Injection, Surjection, IsInjective
<1>8. Cardinality(1..planned) = Len(completed)
  <2>1. ExistsBijection(1..Len(completed), 1..planned)
    BY <1>7 DEF ExistsBijection
  <2> QED
    BY <1>5, <2>1, FS_CountingElements
<1>9. Cardinality(1..planned) = planned
  BY <1>1, FS_Interval
<1> QED
  BY <1>8, <1>9

LEMMA Accounting == RunnerInv => RunIsAccounted
<1> SUFFICES ASSUME RunnerInv, at = "returned"
             PROVE  /\ Unjoined = {}
                    /\ {completed[n] : n \in 1..Len(completed)} = {j \in Job : outcome[j] \in Samples}
                    /\ failure = "none" => Len(completed) = planned
                    /\ (\E j \in Job : outcome[j] \in {"Error", "Panic"}) => failure = "Error"
                    /\ failure = "Cancelled" => CallerCancelled
  BY DEF RunIsAccounted
<1>1. Unjoined = {}
  BY DEF RunnerInv, WorkersAreFew
<1>2. \A j \in Job : outcome[j] # "none" => worker[j] = "joined"
  BY <1>1 DEF RunnerInv, RunnerTypes, SentInOrder, Unjoined, WorkerStep
<1>3. {j \in Job : worker[j] = "joined" /\ outcome[j] \in Samples}
        = {j \in Job : outcome[j] \in Samples}
  BY <1>2 DEF Samples
<1> QED
  BY <1>1, <1>2, <1>3, AllCollected DEF RunnerInv, CollectedOnce, FailureIsKept

(* What the item gets of a run that has returned. *)
LEMMA RunReturned ==
  ASSUME RunnerInv, CallerTypes, at = "returned", ~scoped
  PROVE  /\ Outcomes \in Seq(Samples) /\ Len(Outcomes) = Len(completed)
         /\ failure = "none" => Len(Outcomes) = planned
         /\ failure = "Cancelled" => token
         /\ failure # "Error" /\ Has(Outcomes, "cancelled") => token
         /\ failure \in {"none", "Error", "Cancelled"}
<1>1. completed \in Seq(Job) /\ Len(completed) \in Nat
        /\ \A n \in 1..Len(completed) : completed[n] \in Job
  BY LenProperties, ElementOfSeq DEF RunnerInv, RunnerTypes
<1>2. \A n \in 1..Len(completed) : outcome[completed[n]] \in Samples
  BY DEF RunnerInv, CollectedOnce
<1>3. Outcomes \in [1..Len(completed) -> Samples]
  BY <1>2 DEF Outcomes
<1>4. Outcomes \in Seq(Samples)
  BY <1>1, <1>3, SeqDef
<1>5. Len(Outcomes) = Len(completed)
  BY <1>1, <1>3, <1>4, LenProperties
<1>6. failure # "Error" /\ Has(Outcomes, "cancelled") => token
  <2>1. Has(Outcomes, "cancelled") => \E n \in 1..Len(completed) : outcome[completed[n]] = "cancelled"
    BY <1>5 DEF Has, Outcomes
  <2> QED
    BY <1>1, <2>1 DEF RunnerInv, FailureIsKept, CallerCancelled
<1> QED
  BY <1>4, <1>5, <1>6, AllCollected DEF RunnerInv, RunnerTypes, FailureIsKept, CallerCancelled

----------------------------------------------------------------------------
(* Lists of failed stages. *)
Names == {"Ping", "Tracert", "Pathping", "Tcp"}
Listed(list) == list \in Seq(Names) /\ IsInjective(list)

LEMMA ListAppend ==
  ASSUME NEW list, Listed(list), NEW name \in Names, ~Has(list, name)
  PROVE  /\ Listed(Append(list, name))
         /\ \A y : Has(Append(list, name), y) <=> Has(list, y) \/ y = name
<1>1. /\ Append(list, name) \in Seq(Names) /\ Len(Append(list, name)) = Len(list) + 1
      /\ \A i \in 1..Len(list) : Append(list, name)[i] = list[i]
      /\ Append(list, name)[Len(list) + 1] = name
      /\ Len(list) \in Nat
  BY AppendProperties, LenProperties DEF Listed
<1>2. IsInjective(Append(list, name))
  BY DistinctAppend DEF Listed, Has
<1>3. \A y : Has(Append(list, name), y) <=> Has(list, y) \/ y = name
  BY <1>1 DEF Has
<1> QED
  BY <1>1, <1>2, <1>3 DEF Listed

(* A stage without an answer joins the list unless it is there already. *)
LEMMA ListOutcome ==
  ASSUME NEW list, Listed(list), NEW name \in Names, NEW bad \in BOOLEAN,
         Has(list, name) <=> Has(failed, name)
  PROVE  /\ Listed(list \o Outcome(name, bad))
         /\ \A y : Has(list \o Outcome(name, bad), y) <=> Has(list, y) \/ (y = name /\ bad)
<1>1. CASE bad /\ ~Has(failed, name)
  <2>1. Outcome(name, bad) = <<name>>
    BY <1>1 DEF Outcome
  <2>2. list \o Outcome(name, bad) = Append(list, name)
    BY <2>1, AppendIsConcat DEF Listed
  <2>3. ~Has(list, name)
    BY <1>1
  <2>4. /\ Listed(Append(list, name))
        /\ \A y : Has(Append(list, name), y) <=> Has(list, y) \/ y = name
    BY <2>3, ListAppend
  <2> QED
    BY <1>1, <2>2, <2>4
<1>2. CASE ~(bad /\ ~Has(failed, name))
  <2>1. Outcome(name, bad) = <<>>
    BY <1>2 DEF Outcome
  <2>2. list \o <<>> = list
    BY ConcatEmptySeq DEF Listed
  <2> QED
    BY <1>2, <2>1, <2>2
<1> QED
  BY <1>1, <1>2

----------------------------------------------------------------------------
(* The item. *)
ItemTypes ==
  /\ skip \in BOOLEAN /\ cancelled \in BOOLEAN /\ tcp_ok \in BOOLEAN /\ dropped \in BOOLEAN
  /\ stage \in {"resolve", "ping", "trace", "pathping", "tcp", "judge", "status", "done", "error"}
  /\ Listed(failed)
  /\ ping \in Seq(Samples) /\ hops \in Seq(Samples) /\ statistics \in Seq(Samples \cup {"none"})
  /\ Len(hops) <= MaxHops

(* A stage with probes has a run of its own; a cancellation is the caller's. *)
StageHasRun ==
  /\ stage \notin {"ping", "pathping"} => at = "returned"
  /\ stage = "ping" => planned = PingCount
  /\ stage = "pathping" => planned = PathpingProbes * Len(hops)
  /\ scoped => dropped
  /\ cancelled => token
  /\ status = "Cancelled" => token

(* A stage that is not over has not failed. *)
FailedIsOver ==
  /\ Has(failed, "Ping")     => stage \in {"trace", "pathping", "tcp", "judge", "status", "done"}
  /\ Has(failed, "Tracert")  => stage \in {"pathping", "tcp", "judge", "status", "done"}
  /\ Has(failed, "Pathping") => stage \in {"tcp", "judge", "status", "done"}
  /\ Has(failed, "Tcp")      => stage \in {"judge", "status", "done"}

(* A stage that is over has all its samples, or failed, or was cancelled. *)
PingIsWhole == Len(ping) = PingCount \/ Has(failed, "Ping") \/ cancelled
StatisticsAreWhole ==
  \/ skip \/ cancelled \/ Has(failed, "Pathping")
  \/ Len(statistics) = PathpingProbes * Len(hops) /\ statistics # <<"none">>
StagesAreWhole ==
  /\ stage \in {"trace", "pathping", "tcp", "judge", "status", "done"} => PingIsWhole
  /\ stage \in {"tcp", "judge", "status", "done"} => StatisticsAreWhole
  /\ Has(ping, "cancelled") \/ Has(statistics, "cancelled") => cancelled
  /\ Has(hops, "cancelled") => token \/ dropped

(* What the result will hold if the token is still unset when it is read again. *)
JudgedIsWhole ==
  stage = "status" /\ ~cancelled =>
    /\ Len(ping) = PingCount \/ Has(failed, "Ping")
    /\ Reached \/ Has(failed, "Tracert")
    /\ skip \/ Has(failed, "Pathping") \/ Len(statistics) = PathpingProbes * Len(hops)
    /\ ~Has(ping, "cancelled") /\ ~Has(hops, "cancelled") /\ ~Has(statistics, "cancelled")
    /\ failed = <<>> => Has(ping, "reply") /\ tcp_ok /\ (skip \/ Has(statistics, "reply"))

ItemInv == /\ ItemTypes /\ StageHasRun /\ FailedIsOver /\ StagesAreWhole
           /\ ResultIsWhole /\ JudgedIsWhole
PathInv == RunnerInv /\ CallerTypes /\ ItemInv

LEMMA BasicNumbers ==
  /\ PingCount \in Nat \ {0} /\ MaxHops \in Nat \ {0} /\ PathpingProbes \in Nat \ {0}
  /\ PingCount \in 0..Jobs
  /\ \A n \in 0..MaxHops : PathpingProbes * n \in 0..Jobs
<1>1. PingCount \in Nat \ {0} /\ MaxHops \in Nat \ {0} /\ PathpingProbes \in Nat \ {0}
      /\ PingCount <= Jobs /\ MaxHops * PathpingProbes <= Jobs /\ Jobs \in Nat
  BY BasicAssumption, PacedAssumption
<1>2. ASSUME NEW n \in 0..MaxHops PROVE PathpingProbes * n \in 0..Jobs
  <2>1. PathpingProbes * n <= MaxHops * PathpingProbes
    BY <1>1
  <2>2. PathpingProbes * n \in Nat /\ MaxHops * PathpingProbes \in Nat
    BY <1>1
  <2> QED
    BY <1>1, <2>1, <2>2
<1> QED
  BY <1>1, <1>2

(* Nothing of the item changes: its caller or its threads take the step. *)
LEMMA ItemAside ==
  ASSUME PathInv, UNCHANGED itemVars, token => token', dropped => dropped', dropped' \in BOOLEAN,
         scoped' => dropped', at # "returned" \/ at' = "returned", planned' = planned,
         stage \in {"done", "error"} => token' = token
  PROVE  ItemInv'
<1> USE DEF PathInv, ItemInv, itemVars
<1>1. ItemTypes'
  BY DEF ItemTypes
<1>2. StageHasRun'
  BY DEF StageHasRun
<1>3. FailedIsOver' /\ StagesAreWhole'
  BY DEF FailedIsOver, StagesAreWhole, PingIsWhole, StatisticsAreWhole
<1>4. ResultIsWhole' /\ JudgedIsWhole'
  BY DEF ResultIsWhole, JudgedIsWhole, Failed_in, Reached
<1> QED
  BY <1>1, <1>2, <1>3, <1>4

(* The target is resolved, and the pings begin (path-basic/lib.rs:213-249). *)
LEMMA ResolveInv ==
  ASSUME PathInv, ~dropped, resolve_target
  PROVE  PathInv'
<1> USE DEF PathInv
<1>1. /\ stage = "resolve" /\ UNCHANGED <<skip, cancelled, failed, ping, hops, statistics, tcp_ok>>
      /\ UNCHANGED <<token, scoped, dropped>>
  BY DEF resolve_target, Callers
<1>2. CallerTypes' /\ CallerTypes
  BY <1>1 DEF CallerTypes
<1>3. /\ stage' \in {"ping", "error"}
      /\ stage' = "ping" => status' = status /\ planned' = PingCount
      /\ stage' = "error" => at' = at /\ (status' = "Cancelled" => token)
  BY DEF resolve_target, Begin, Idle, runnerVars
<1>4. RunnerInv'
  <2>1. CASE Begin("sequential", PingCount)
    BY <1>1, <1>2, <2>1, BeginInv, BasicNumbers
  <2>2. CASE Idle
    BY <1>1, <1>2, <2>2, CallerInv DEF Idle
  <2> QED
    BY <2>1, <2>2 DEF resolve_target
<1>5. ItemTypes' /\ FailedIsOver'
  BY <1>1, <1>3 DEF ItemInv, ItemTypes, FailedIsOver
<1>6. StageHasRun'
  BY <1>1, <1>3 DEF ItemInv, StageHasRun
<1>7. StagesAreWhole' /\ ResultIsWhole' /\ JudgedIsWhole'
  BY <1>1, <1>3 DEF ItemInv, StagesAreWhole, ResultIsWhole, JudgedIsWhole
<1> QED
  BY <1>2, <1>4, <1>5, <1>6, <1>7 DEF ItemInv

(* What a stage that ends does to the list and to the flag. *)
LEMMA RecordedOnce ==
  ASSUME ItemTypes, CallerTypes, NEW name \in Names, ~Has(failed, name), NEW error,
         record_stage_error(name, error), error = "Cancelled" => token
  PROVE  /\ Listed(failed') /\ cancelled' = (cancelled \/ token)
         /\ \A y : Has(failed', y) <=> Has(failed, y) \/ y = name
<1>1. failed' = Append(failed, name) /\ Listed(failed)
  BY DEF record_stage_error, ItemTypes
<1>2. /\ Listed(Append(failed, name))
      /\ \A y : Has(Append(failed, name), y) <=> Has(failed, y) \/ y = name
  BY <1>1, ListAppend
<1>3. cancelled' = (cancelled \/ token)
  BY DEF record_stage_error, ItemTypes, CallerTypes
<1> QED
  BY <1>1, <1>2, <1>3

(* A run with samples ends: they are whole, or it was cancelled, or it failed. *)
LEMMA RunIsTaken ==
  ASSUME PathInv, ~dropped, at = "returned", NEW name \in Names, ~Has(failed, name),
         NEW got, NEW old,
         \/ /\ failure = "none" \/ (failure = "Cancelled" /\ completed # <<>>)
            /\ got = Outcomes /\ record_none
         \/ record_stage_error(name, failure) /\ got = old
  PROVE  /\ Listed(failed') /\ cancelled' = (cancelled \/ token) /\ cancelled' \in BOOLEAN
         /\ \A y : Has(failed, y) => Has(failed', y)
         /\ \A y : Has(failed', y) => Has(failed, y) \/ y = name
         /\ \/ Has(failed', name) /\ got = old
            \/ /\ failed' = failed /\ got \in Seq(Samples)
               /\ Len(got) = planned \/ cancelled'
               /\ Has(got, "cancelled") => cancelled'
<1>1. ~scoped /\ ItemTypes /\ CallerTypes /\ RunnerInv
  BY DEF PathInv, ItemInv, StageHasRun
<1>2. /\ Outcomes \in Seq(Samples)
      /\ failure = "none" => Len(Outcomes) = planned
      /\ failure = "Cancelled" => token
      /\ failure # "Error" /\ Has(Outcomes, "cancelled") => token
  BY <1>1, RunReturned
<1>3. (cancelled \/ token) \in BOOLEAN
  OBVIOUS
<1>4. CASE /\ failure = "none" \/ (failure = "Cancelled" /\ completed # <<>>)
           /\ got = Outcomes /\ record_none
  <2>1. failed' = failed /\ cancelled' = (cancelled \/ token) /\ Listed(failed)
    BY <1>1, <1>4 DEF record_none, ItemTypes, CallerTypes
  <2>2. /\ got \in Seq(Samples)
        /\ Len(got) = planned \/ token
        /\ Has(got, "cancelled") => token
    BY <1>2, <1>4
  <2> QED
    BY <1>3, <2>1, <2>2
<1>5. CASE record_stage_error(name, failure) /\ got = old
  <2>1. /\ Listed(failed') /\ cancelled' = (cancelled \/ token)
        /\ \A y : Has(failed', y) <=> Has(failed, y) \/ y = name
    BY <1>1, <1>2, <1>5, RecordedOnce
  <2> QED
    BY <1>5, <1>3, <2>1
<1> QED
  BY <1>4, <1>5

(* The pings end (path-basic/lib.rs:250-281). *)
LEMMA PingEndsInv ==
  ASSUME PathInv, ~dropped, ping_ends
  PROVE  PathInv'
<1> USE DEF PathInv
<1>1. /\ stage = "ping" /\ at = "returned" /\ planned = PingCount
      /\ UNCHANGED <<skip, hops, statistics, tcp_ok, status>>
      /\ UNCHANGED runnerVars /\ UNCHANGED <<token, scoped, dropped>>
  BY DEF ping_ends, Idle, Callers, ItemInv, StageHasRun
<1>2. CallerTypes' /\ RunnerInv'
  BY <1>1, CallerInv DEF CallerTypes
<1>3. \/ /\ failure = "none" \/ (failure = "Cancelled" /\ completed # <<>>)
         /\ ping' = Outcomes /\ record_none
      \/ record_stage_error("Ping", failure) /\ ping' = ping
  BY DEF ping_ends
<1>4. ~Has(failed, "Ping") /\ "Ping" \in Names
  BY <1>1 DEF ItemInv, FailedIsOver, Names
<1>5. /\ Listed(failed') /\ cancelled' = (cancelled \/ token) /\ cancelled' \in BOOLEAN
      /\ \A y : Has(failed, y) => Has(failed', y)
      /\ \A y : Has(failed', y) => Has(failed, y) \/ y = "Ping"
      /\ \/ Has(failed', "Ping") /\ ping' = ping
         \/ /\ failed' = failed /\ ping' \in Seq(Samples)
            /\ Len(ping') = planned \/ cancelled'
            /\ Has(ping', "cancelled") => cancelled'
  BY <1>1, <1>3, <1>4, RunIsTaken
<1>6. /\ ping' \in Seq(Samples) /\ Has(ping', "cancelled") => cancelled'
      /\ Len(ping') = PingCount \/ Has(failed', "Ping") \/ cancelled'
  <2>1. ping \in Seq(Samples) /\ (Has(ping, "cancelled") => cancelled)
    BY DEF ItemInv, ItemTypes, StagesAreWhole
  <2> QED
    BY <1>1, <1>3, <1>5, <2>1
<1>7. stage' \in {"trace", "judge"} /\ (stage' = "judge" => cancelled')
  BY <1>5 DEF ping_ends, Next_stage
<1>8. ItemTypes'
  BY <1>1, <1>5, <1>6, <1>7 DEF ItemInv, ItemTypes, CallerTypes
<1>9. StageHasRun'
  BY <1>1, <1>5, <1>7 DEF ItemInv, StageHasRun, runnerVars
<1>10. FailedIsOver'
  BY <1>1, <1>5, <1>7 DEF ItemInv, FailedIsOver
<1>11. StagesAreWhole'
  BY <1>1, <1>5, <1>6, <1>7 DEF ItemInv, StagesAreWhole, PingIsWhole, StatisticsAreWhole
<1>12. ResultIsWhole' /\ JudgedIsWhole'
  BY <1>7 DEF ResultIsWhole, JudgedIsWhole
<1> QED
  BY <1>2, <1>8, <1>9, <1>10, <1>11, <1>12 DEF ItemInv

(* One more hop. *)
LEMMA HopInv ==
  ASSUME PathInv, hop
  PROVE  PathInv'
<1> USE DEF PathInv
<1>1. /\ stage = "trace" /\ Len(hops) < MaxHops
      /\ UNCHANGED <<skip, stage, cancelled, failed, ping, statistics, tcp_ok, status>>
      /\ UNCHANGED runnerVars /\ UNCHANGED <<token, scoped, dropped>>
  BY DEF hop, Idle, Callers
<1>2. CallerTypes' /\ RunnerInv'
  BY <1>1, CallerInv DEF CallerTypes
<1>3. PICK what \in Samples : hops' = Append(hops, what) /\ (what = "cancelled" => CallerCancelled)
  BY DEF hop, Samples
<1>4. hops \in Seq(Samples) /\ MaxHops \in Nat
  BY BasicNumbers DEF ItemInv, ItemTypes
<1>5. /\ hops' \in Seq(Samples) /\ Len(hops') = Len(hops) + 1 /\ Len(hops) \in Nat
      /\ \A n \in 1..Len(hops) : hops'[n] = hops[n]
      /\ hops'[Len(hops) + 1] = what
  BY <1>3, <1>4, AppendProperties, LenProperties
<1>6. Has(hops', "cancelled") => Has(hops, "cancelled") \/ what = "cancelled"
  BY <1>5 DEF Has
<1>7. ItemTypes'
  BY <1>1, <1>4, <1>5 DEF ItemInv, ItemTypes
<1>8. StageHasRun' /\ FailedIsOver'
  BY <1>1 DEF ItemInv, StageHasRun, FailedIsOver, runnerVars
<1>9. Has(hops', "cancelled") => token \/ dropped
  BY <1>3, <1>6 DEF ItemInv, StagesAreWhole, StageHasRun, CallerCancelled
<1>10. StagesAreWhole'
  BY <1>1, <1>9 DEF ItemInv, StagesAreWhole, PingIsWhole
<1>11. ResultIsWhole' /\ JudgedIsWhole'
  BY <1>1 DEF ResultIsWhole, JudgedIsWhole
<1> QED
  BY <1>2, <1>7, <1>8, <1>10, <1>11 DEF ItemInv

(* The trace ends, with its hops or without (path-basic/lib.rs:282-306). *)
LEMMA TraceOver ==
  ASSUME PathInv, ~dropped, stage = "trace",
         UNCHANGED <<skip, ping, statistics, tcp_ok, status>>, UNCHANGED <<token, scoped, dropped>>,
         Listed(failed'), cancelled' = (cancelled \/ token), cancelled' \in BOOLEAN,
         \A y : Has(failed, y) => Has(failed', y),
         \A y : Has(failed', y) => Has(failed, y) \/ y = "Tracert",
         hops' = hops \/ hops' = <<>>,
         stage' = IF cancelled' THEN "judge" ELSE AfterTrace,
         IF stage' = "pathping" THEN Begin("concurrent", PathpingProbes * Len(hops')) ELSE Idle
  PROVE  PathInv'
<1> USE DEF PathInv
<1>1. /\ skip \in BOOLEAN /\ at = "returned"
      /\ hops' \in Seq(Samples) /\ Len(hops') \in 0..MaxHops /\ ~Has(<<>>, "cancelled")
  <2>1. hops \in Seq(Samples) /\ Len(hops) <= MaxHops /\ Len(hops) \in Nat
    BY LenProperties DEF ItemInv, ItemTypes
  <2>2. <<>> \in Seq(Samples) /\ Len(<<>>) = 0 /\ ~Has(<<>>, "cancelled")
    BY EmptySeq DEF Has
  <2>3. MaxHops \in Nat /\ skip \in BOOLEAN /\ at = "returned"
    BY BasicNumbers DEF ItemInv, ItemTypes, StageHasRun
  <2>4. CASE hops' = hops
    BY <2>1, <2>2, <2>3, <2>4
  <2>5. CASE hops' = <<>>
    BY <2>2, <2>3, <2>5
  <2> QED
    BY <2>4, <2>5
<1>2. /\ stage' \in {"judge", "tcp", "pathping"}
      /\ stage' = "judge" => cancelled'
      /\ stage' = "tcp" => skip
  BY <1>1 DEF AfterTrace
<1>3. CallerTypes' /\ CallerTypes
  BY DEF CallerTypes
<1>4. RunnerInv' /\ (stage' = "pathping" => planned' = PathpingProbes * Len(hops'))
                 /\ (stage' # "pathping" => at' = "returned")
  <2>1. CASE stage' = "pathping"
    <3>1. Begin("concurrent", PathpingProbes * Len(hops')) /\ PathpingProbes * Len(hops') \in 0..Jobs
      BY <1>1, <2>1, BasicNumbers
    <3>2. RunnerInv'
      BY <1>3, <3>1, BeginInv
    <3>3. planned' = PathpingProbes * Len(hops')
      BY <3>1 DEF Begin
    <3> QED
      BY <2>1, <3>2, <3>3
  <2>2. CASE stage' # "pathping"
    <3>1. UNCHANGED runnerVars
      BY <2>2 DEF Idle
    <3>2. RunnerInv'
      BY <1>3, <3>1, CallerInv
    <3> QED
      BY <1>1, <2>2, <3>1, <3>2 DEF runnerVars
  <2> QED
    BY <2>1, <2>2
<1>5. ItemTypes'
  BY <1>1, <1>2, BasicNumbers DEF ItemInv, ItemTypes
<1>6. StageHasRun'
  BY <1>2, <1>4 DEF ItemInv, StageHasRun
<1>7. FailedIsOver'
  BY <1>2 DEF ItemInv, FailedIsOver
<1>8. PingIsWhole' /\ (stage' \in {"tcp", "judge", "status", "done"} => StatisticsAreWhole')
  BY <1>2 DEF ItemInv, StagesAreWhole, PingIsWhole, StatisticsAreWhole
<1>9. Has(hops', "cancelled") => Has(hops, "cancelled")
  BY <1>1
<1>10. StagesAreWhole'
  BY <1>8, <1>9 DEF ItemInv, StagesAreWhole
<1>11. ResultIsWhole' /\ JudgedIsWhole'
  BY <1>2 DEF ResultIsWhole, JudgedIsWhole
<1> QED
  BY <1>3, <1>4, <1>5, <1>6, <1>7, <1>10, <1>11 DEF ItemInv

LEMMA TraceEndsInv ==
  ASSUME PathInv, ~dropped, trace_ends \/ trace_fails
  PROVE  PathInv'
<1>1. /\ ItemTypes /\ CallerTypes /\ (cancelled \/ token) \in BOOLEAN /\ stage = "trace"
      /\ ~Has(failed, "Tracert") /\ "Tracert" \in Names /\ Len(<<>>) = 0
      /\ PathpingProbes * 0 = 0
  BY EmptySeq, BasicNumbers DEF PathInv, ItemInv, FailedIsOver, trace_ends, trace_fails, Names
<1>2. CASE trace_ends
  <2>1. /\ failed' = failed /\ cancelled' = (cancelled \/ token)
        /\ UNCHANGED <<skip, ping, hops, statistics, tcp_ok, status>>
        /\ UNCHANGED <<token, scoped, dropped>>
    BY <1>2 DEF trace_ends, record_none, Callers
  <2>2. stage' = IF cancelled' THEN "judge" ELSE AfterTrace
    BY <1>2, <2>1 DEF trace_ends, Next_stage
  <2>3. IF stage' = "pathping" THEN Begin("concurrent", PathpingProbes * Len(hops')) ELSE Idle
    BY <1>2, <2>1 DEF trace_ends, BeginStatistics
  <2>4. Listed(failed') /\ cancelled' \in BOOLEAN
    BY <1>1, <2>1 DEF ItemTypes
  <2> QED
    BY <1>1, <2>1, <2>2, <2>3, <2>4, TraceOver
<1>3. CASE trace_fails
  <2>1. PICK error : record_stage_error("Tracert", error) /\ (error = "Cancelled" => token)
    BY <1>3 DEF trace_fails
  <2>2. /\ Listed(failed') /\ cancelled' = (cancelled \/ token)
        /\ \A y : Has(failed', y) <=> Has(failed, y) \/ y = "Tracert"
    BY <1>1, <2>1, RecordedOnce
  <2>3. /\ UNCHANGED <<skip, ping, statistics, tcp_ok, status>>
        /\ UNCHANGED <<token, scoped, dropped>> /\ hops' = <<>>
    BY <1>3 DEF trace_fails, Callers
  <2>4. cancelled' \in BOOLEAN /\ (cancelled' \/ token) = cancelled'
    BY <1>1, <2>2
  <2>5. /\ stage' = (IF cancelled' THEN "judge" ELSE IF skip THEN "tcp" ELSE "pathping")
        /\ IF ~cancelled' /\ ~skip THEN Begin("concurrent", 0) ELSE Idle
    BY <1>3, <2>4 DEF trace_fails, AfterTrace
  <2>6. stage' = IF cancelled' THEN "judge" ELSE AfterTrace
    BY <2>5 DEF AfterTrace
  <2>7. IF stage' = "pathping" THEN Begin("concurrent", PathpingProbes * Len(hops')) ELSE Idle
    <3>1. PathpingProbes * Len(hops') = 0
      BY <1>1, <2>3
    <3> QED
      BY <2>5, <3>1
  <2> QED
    BY <1>1, <2>2, <2>3, <2>4, <2>6, <2>7, TraceOver
<1> QED
  BY <1>2, <1>3

(* The path statistics end (path-basic/lib.rs:307-325). *)
LEMMA PathpingEndsInv ==
  ASSUME PathInv, ~dropped, pathping_ends
  PROVE  PathInv'
<1> USE DEF PathInv
<1>1. /\ stage = "pathping" /\ at = "returned" /\ planned = PathpingProbes * Len(hops)
      /\ UNCHANGED <<skip, ping, hops, tcp_ok, status>>
      /\ UNCHANGED runnerVars /\ UNCHANGED <<token, scoped, dropped>>
  BY DEF pathping_ends, Idle, Callers, ItemInv, StageHasRun
<1>2. CallerTypes' /\ RunnerInv'
  BY <1>1, CallerInv DEF CallerTypes
<1>3. \/ /\ failure = "none" \/ (failure = "Cancelled" /\ completed # <<>>)
         /\ statistics' = Outcomes /\ record_none
      \/ record_stage_error("Pathping", failure) /\ statistics' = statistics
  BY DEF pathping_ends
<1>4. ~Has(failed, "Pathping") /\ "Pathping" \in Names
  BY <1>1 DEF ItemInv, FailedIsOver, Names
<1>5. /\ Listed(failed') /\ cancelled' = (cancelled \/ token) /\ cancelled' \in BOOLEAN
      /\ \A y : Has(failed, y) => Has(failed', y)
      /\ \A y : Has(failed', y) => Has(failed, y) \/ y = "Pathping"
      /\ \/ Has(failed', "Pathping") /\ statistics' = statistics
         \/ /\ failed' = failed /\ statistics' \in Seq(Samples)
            /\ Len(statistics') = planned \/ cancelled'
            /\ Has(statistics', "cancelled") => cancelled'
  BY <1>1, <1>3, <1>4, RunIsTaken
<1>6. statistics' \in Seq(Samples) => statistics' \in Seq(Samples \cup {"none"}) /\ statistics' # <<"none">>
  <2>1. SUFFICES ASSUME statistics' \in Seq(Samples)
                 PROVE  statistics' \in Seq(Samples \cup {"none"}) /\ statistics' # <<"none">>
    OBVIOUS
  <2>2. \A n \in 1..Len(statistics') : statistics'[n] \in Samples
    BY <2>1, ElementOfSeq
  <2>3. Len(<<"none">>) = 1 /\ <<"none">>[1] = "none" /\ "none" \notin Samples
    BY DEF Samples
  <2>4. statistics' # <<"none">>
    BY <2>2, <2>3
  <2>5. statistics' \in [1..Len(statistics') -> Samples \cup {"none"}] /\ Len(statistics') \in Nat
    BY <2>1, LenProperties
  <2> QED
    BY <2>4, <2>5, SeqDef
<1>7. /\ statistics' \in Seq(Samples \cup {"none"})
      /\ Has(statistics', "cancelled") => cancelled'
      /\ StatisticsAreWhole'
  <2>1. /\ statistics \in Seq(Samples \cup {"none"})
        /\ Has(statistics, "cancelled") => cancelled
    BY DEF ItemInv, ItemTypes, StagesAreWhole
  <2> QED
    BY <1>1, <1>5, <1>6, <2>1 DEF StatisticsAreWhole
<1>8. stage' \in {"tcp", "judge"}
  BY DEF pathping_ends, Next_stage
<1>9. ItemTypes'
  BY <1>1, <1>5, <1>7, <1>8 DEF ItemInv, ItemTypes
<1>10. StageHasRun'
  BY <1>1, <1>5, <1>8 DEF ItemInv, StageHasRun, runnerVars
<1>11. FailedIsOver'
  BY <1>1, <1>5, <1>8 DEF ItemInv, FailedIsOver
<1>12. PingIsWhole' /\ (Has(ping', "cancelled") => cancelled')
  BY <1>1, <1>5 DEF ItemInv, StagesAreWhole, PingIsWhole
<1>13. StagesAreWhole'
  BY <1>1, <1>7, <1>12 DEF ItemInv, StagesAreWhole
<1>14. ResultIsWhole' /\ JudgedIsWhole'
  BY <1>8 DEF ResultIsWhole, JudgedIsWhole
<1> QED
  BY <1>2, <1>9, <1>10, <1>11, <1>13, <1>14 DEF ItemInv

(* The connection succeeds, fails or is cancelled (path-basic/lib.rs:326-342). *)
LEMMA TcpInv ==
  ASSUME PathInv, ~dropped, test_tcp
  PROVE  PathInv'
<1> USE DEF PathInv
<1>1. /\ stage = "tcp" /\ stage' = "judge"
      /\ UNCHANGED <<skip, ping, hops, statistics, status>>
      /\ UNCHANGED runnerVars /\ UNCHANGED <<token, scoped, dropped>>
  BY DEF test_tcp, Idle, Callers
<1>2. CallerTypes' /\ RunnerInv' /\ CallerTypes /\ ItemTypes
  BY <1>1, CallerInv DEF CallerTypes, ItemInv
<1>3. ~Has(failed, "Tcp") /\ "Tcp" \in Names /\ (cancelled \/ token) \in BOOLEAN
  BY <1>1 DEF ItemInv, FailedIsOver, Names
<1>4. /\ Listed(failed') /\ cancelled' = (cancelled \/ token) /\ tcp_ok' \in BOOLEAN
      /\ \A y : Has(failed, y) => Has(failed', y)
      /\ \A y : Has(failed', y) => Has(failed, y) \/ y = "Tcp"
  <2>1. CASE tcp_ok' \in BOOLEAN /\ record_none
    BY <1>2, <2>1 DEF record_none, ItemTypes
  <2>2. CASE \E error \in {"Error"} \cup (IF token THEN {"Cancelled"} ELSE {}) :
               record_stage_error("Tcp", error) /\ tcp_ok' = tcp_ok
    <3>1. PICK error : record_stage_error("Tcp", error) /\ (error = "Cancelled" => token)
      BY <2>2
    <3>2. /\ Listed(failed') /\ cancelled' = (cancelled \/ token)
          /\ \A y : Has(failed', y) <=> Has(failed, y) \/ y = "Tcp"
      BY <1>2, <1>3, <3>1, RecordedOnce
    <3>3. tcp_ok' \in BOOLEAN
      BY <1>2, <2>2 DEF ItemTypes
    <3> QED
      BY <3>2, <3>3
  <2> QED
    BY <2>1, <2>2 DEF test_tcp
<1>5. ItemTypes'
  BY <1>1, <1>2, <1>3, <1>4 DEF ItemTypes
<1>6. StageHasRun'
  BY <1>1, <1>4 DEF ItemInv, StageHasRun, runnerVars
<1>7. FailedIsOver'
  BY <1>1, <1>4 DEF ItemInv, FailedIsOver
<1>8. StagesAreWhole'
  BY <1>1, <1>4 DEF ItemInv, StagesAreWhole, PingIsWhole, StatisticsAreWhole
<1>9. ResultIsWhole' /\ JudgedIsWhole'
  BY <1>1 DEF ResultIsWhole, JudgedIsWhole
<1> QED
  BY <1>2, <1>5, <1>6, <1>7, <1>8, <1>9 DEF ItemInv

(* The outcomes join the failures. *)
LEMMA JudgeInv ==
  ASSUME PathInv, ~dropped, judge
  PROVE  PathInv'
<1> USE DEF PathInv
<1> DEFINE over == cancelled \/ token
           f1 == failed \o Outcome("Ping", ~Has(ping, "reply"))
           f2 == f1 \o Outcome("Tracert", ~Reached)
           noAnswer == statistics # <<"none">> /\ ~Has(statistics, "reply")
           f3 == f2 \o Outcome("Pathping", noAnswer)
           f4 == f3 \o Outcome("Tcp", ~tcp_ok)
<1>1. /\ stage = "judge" /\ stage' = "status"
      /\ UNCHANGED <<skip, ping, hops, statistics, tcp_ok, status>>
      /\ UNCHANGED runnerVars /\ UNCHANGED <<token, scoped, dropped>>
  BY DEF judge, Idle, Callers
<1>2. CallerTypes' /\ RunnerInv' /\ CallerTypes /\ ItemTypes
  BY <1>1, CallerInv DEF CallerTypes, ItemInv
<1>3. /\ cancelled' = over
      /\ over => failed' = failed
      /\ ~over => failed' = f4
  BY DEF judge
<1>4. Listed(f1) /\ \A y : Has(f1, y) <=> Has(failed, y) \/ (y = "Ping" /\ ~Has(ping, "reply"))
  <2>1. Listed(failed) /\ "Ping" \in Names /\ (~Has(ping, "reply")) \in BOOLEAN
    BY <1>2 DEF ItemTypes, Names
  <2> QED
    BY <2>1, ListOutcome
<1>5. Listed(f2) /\ \A y : Has(f2, y) <=> Has(f1, y) \/ (y = "Tracert" /\ ~Reached)
  <2>1. "Tracert" \in Names /\ (~Reached) \in BOOLEAN /\ (Has(f1, "Tracert") <=> Has(failed, "Tracert"))
    BY <1>4 DEF Names
  <2> HIDE DEF f1
  <2> QED
    BY <1>4, <2>1, ListOutcome
<1>6. Listed(f3) /\ \A y : Has(f3, y) <=> Has(f2, y) \/ (y = "Pathping" /\ noAnswer)
  <2>1. "Pathping" \in Names /\ noAnswer \in BOOLEAN /\ (Has(f2, "Pathping") <=> Has(failed, "Pathping"))
    BY <1>4, <1>5 DEF Names
  <2> HIDE DEF f2, noAnswer
  <2> QED
    BY <1>5, <2>1, ListOutcome
<1>7. Listed(f4) /\ \A y : Has(f4, y) <=> Has(f3, y) \/ (y = "Tcp" /\ ~tcp_ok)
  <2>1. "Tcp" \in Names /\ (~tcp_ok) \in BOOLEAN /\ (Has(f3, "Tcp") <=> Has(failed, "Tcp"))
    BY <1>2, <1>4, <1>5, <1>6 DEF Names, ItemTypes
  <2> HIDE DEF f3
  <2> QED
    BY <1>6, <2>1, ListOutcome
<1>8. /\ Has(f4, "Tracert") <=> Has(failed, "Tracert") \/ ~Reached
      /\ Has(f4, "Ping") <=> Has(failed, "Ping") \/ ~Has(ping, "reply")
      /\ Has(f4, "Pathping") <=> Has(failed, "Pathping") \/ noAnswer
      /\ Has(f4, "Tcp") <=> Has(failed, "Tcp") \/ ~tcp_ok
  <2> HIDE DEF f1, f2, f3, f4, noAnswer
  <2> QED
    BY <1>4, <1>5, <1>6, <1>7
<1>9. /\ Listed(failed') /\ \A y : Has(failed, y) => Has(failed', y)
      /\ cancelled' \in BOOLEAN /\ (cancelled' => token) /\ (cancelled => cancelled')
  <2>1. over \in BOOLEAN /\ (cancelled => over)
    BY <1>2 DEF ItemTypes, CallerTypes
  <2>2. over => token /\ Listed(failed)
    BY <1>2 DEF ItemInv, StageHasRun, ItemTypes
  <2> HIDE DEF f1, f2, f3, f4, noAnswer, over
  <2> QED
    BY <1>3, <1>4, <1>5, <1>6, <1>7, <2>1, <2>2
<1>10. ItemTypes' /\ StageHasRun' /\ FailedIsOver'
  <2>1. ItemTypes'
    BY <1>1, <1>2, <1>9 DEF ItemTypes
  <2>2. StageHasRun'
    BY <1>1, <1>9 DEF ItemInv, StageHasRun, runnerVars
  <2>3. FailedIsOver'
    BY <1>1 DEF FailedIsOver
  <2> QED
    BY <2>1, <2>2, <2>3
<1>11. StagesAreWhole'
  BY <1>1, <1>9 DEF ItemInv, StagesAreWhole, PingIsWhole, StatisticsAreWhole
<1>12. JudgedIsWhole'
  <2>1. CASE over
    BY <1>3, <2>1 DEF JudgedIsWhole
  <2>2. CASE ~over
    <3>1. ~cancelled /\ ~token /\ failed' = f4
      BY <1>3, <2>2
    <3>2. Len(ping) = PingCount \/ Has(f4, "Ping")
      BY <1>1, <1>8, <3>1 DEF ItemInv, StagesAreWhole, PingIsWhole
    <3>3. /\ skip \/ Has(failed, "Pathping")
             \/ (Len(statistics) = PathpingProbes * Len(hops) /\ statistics # <<"none">>)
          /\ ~Has(ping, "cancelled") /\ ~Has(statistics, "cancelled") /\ ~Has(hops, "cancelled")
      BY <1>1, <3>1 DEF ItemInv, StagesAreWhole, StatisticsAreWhole
    <3>4. f4 = <<>> => /\ ~Has(f4, "Ping") /\ ~Has(f4, "Tracert")
                       /\ ~Has(f4, "Pathping") /\ ~Has(f4, "Tcp")
      <4>1. ~Has(<<>>, "Ping") /\ ~Has(<<>>, "Tracert") /\ ~Has(<<>>, "Pathping") /\ ~Has(<<>>, "Tcp")
        BY EmptySeq DEF Has
      <4> QED
        BY <4>1
    <3>5. f4 = <<>> => Has(ping, "reply") /\ tcp_ok /\ (skip \/ Has(statistics, "reply"))
      BY <1>8, <3>3, <3>4
    <3> HIDE DEF f4
    <3>6. Reached' = Reached
      BY <1>1 DEF Reached
    <3> QED
      BY <1>1, <1>8, <3>1, <3>2, <3>3, <3>5, <3>6 DEF JudgedIsWhole
  <2> QED
    BY <2>1, <2>2
<1>13. ResultIsWhole'
  BY <1>1 DEF ResultIsWhole
<1> QED
  BY <1>2, <1>10, <1>11, <1>12, <1>13 DEF ItemInv

(* The result is what the stages came to, unless the token is set by now. *)
LEMMA ConcludeInv ==
  ASSUME PathInv, ~dropped, conclude
  PROVE  PathInv'
<1> USE DEF PathInv
<1>1. /\ stage = "status" /\ stage' = "done"
      /\ UNCHANGED <<skip, cancelled, failed, ping, hops, statistics, tcp_ok>>
      /\ UNCHANGED runnerVars /\ UNCHANGED <<token, scoped, dropped>>
      /\ status' = IF cancelled \/ token THEN "Cancelled"
                   ELSE IF failed = <<>> THEN "Completed" ELSE "PartialFailure"
  BY DEF conclude, Idle, Callers
<1>2. CallerTypes' /\ RunnerInv' /\ CallerTypes /\ ItemTypes
  BY <1>1, CallerInv DEF CallerTypes, ItemInv
<1>3. ItemTypes' /\ FailedIsOver'
  BY <1>1, <1>2 DEF ItemInv, ItemTypes, FailedIsOver
<1>4. StageHasRun'
  BY <1>1 DEF ItemInv, StageHasRun, runnerVars
<1>5. StagesAreWhole'
  BY <1>1 DEF ItemInv, StagesAreWhole, PingIsWhole, StatisticsAreWhole
<1>6. ResultIsWhole'
  <2>1. CASE cancelled \/ token
    BY <1>1, <2>1 DEF ResultIsWhole
  <2>2. CASE ~(cancelled \/ token)
    BY <1>1, <2>2 DEF ItemInv, JudgedIsWhole, ResultIsWhole, Failed_in, Reached
  <2> QED
    BY <2>1, <2>2
<1>7. JudgedIsWhole'
  BY <1>1 DEF JudgedIsWhole
<1> QED
  BY <1>2, <1>3, <1>4, <1>5, <1>6, <1>7 DEF ItemInv

----------------------------------------------------------------------------
LEMMA PathInit ==
  ASSUME BasicInit
  PROVE  PathInv
<1> USE DEF BasicInit, RunnerInit
<1>1. Unjoined = {} /\ Cardinality(Unjoined) = 0
  <2>1. Unjoined = {}
    BY DEF Unjoined
  <2> QED
    BY <2>1, FS_EmptySet
<1>2. RunnerTypes /\ CallerTypes
  <2>1. <<>> \in Seq(Job)
    BY EmptySeq
  <2>2. 0 \in 0..Jobs /\ 1 \in 1..(0 + 1)
    BY PacedAssumption
  <2>3. planned \in 0..Jobs /\ next \in 1..(planned + 1)
    BY <2>2
  <2>4. worker \in [Job -> WorkerStep] /\ outcome \in [Job -> ProbeEnd \cup {"none"}]
    BY DEF WorkerStep
  <2> QED
    BY <2>1, <2>3, <2>4 DEF RunnerTypes, CallerTypes
<1>3. SentInOrder
  BY PacedAssumption DEF SentInOrder, Job
<1>4. CollectedOnce
  <2>1. Len(<<>>) = 0 /\ IsInjective(<<>>)
    BY DEF IsInjective
  <2> QED
    BY <2>1 DEF CollectedOnce
<1>5. FailureIsKept /\ WorkersAreFew
  BY <1>1, ClampIsPositive DEF FailureIsKept, WorkersAreFew
<1>6. ItemTypes
  <2>1. <<>> \in Seq(Samples) /\ Len(<<>>) = 0 /\ Listed(<<>>)
    BY EmptySeq DEF Listed, IsInjective
  <2>2. <<"none">> \in Seq(Samples \cup {"none"})
    OBVIOUS
  <2>3. Len(hops) <= MaxHops
    BY <2>1, BasicNumbers
  <2>4. ping \in Seq(Samples) /\ hops \in Seq(Samples) /\ Listed(failed)
        /\ statistics \in Seq(Samples \cup {"none"})
    BY <2>1, <2>2
  <2> QED
    BY <2>3, <2>4 DEF ItemTypes
<1>7. ~Has(<<>>, "cancelled") /\ ~Has(<<"none">>, "cancelled")
      /\ \A y : ~Has(<<>>, y)
  BY EmptySeq DEF Has
<1>8. StageHasRun /\ FailedIsOver
  BY <1>7 DEF StageHasRun, FailedIsOver
<1>9. StagesAreWhole /\ ResultIsWhole /\ JudgedIsWhole
  BY <1>7 DEF StagesAreWhole, ResultIsWhole, JudgedIsWhole
<1> QED
  BY <1>2, <1>3, <1>4, <1>5, <1>6, <1>8, <1>9 DEF PathInv, RunnerInv, ItemInv

(* The caller cancels, or drops the call. *)
LEMMA CallerStepInv ==
  ASSUME PathInv, Cancel \/ Drop
  PROVE  PathInv' /\ UNCHANGED runnerVars
<1>1. /\ UNCHANGED <<runnerVars, itemVars>> /\ stage \notin {"done", "error"}
      /\ token' \in {token, TRUE} /\ scoped' \in {scoped, TRUE} /\ dropped' \in {dropped, TRUE}
      /\ scoped' # scoped => dropped'
  BY DEF Cancel, Drop
<1>2. CallerTypes /\ RunnerInv /\ dropped \in BOOLEAN /\ (scoped => dropped)
  BY DEF PathInv, ItemInv, ItemTypes, StageHasRun
<1>3. CallerTypes' /\ (token => token') /\ (scoped => scoped') /\ (dropped => dropped')
      /\ dropped' \in BOOLEAN /\ (scoped' => dropped')
  BY <1>1, <1>2 DEF CallerTypes
<1>4. RunnerInv'
  BY <1>1, <1>2, <1>3, CallerInv
<1>5. at' = at /\ planned' = planned
  BY <1>1 DEF runnerVars
<1>6. ItemInv'
  BY <1>1, <1>3, <1>5, ItemAside
<1> QED
  BY <1>1, <1>3, <1>4, <1>6 DEF PathInv

(* The threads go on, whatever becomes of the call. *)
LEMMA ThreadStepInv ==
  ASSUME PathInv, Threads
  PROVE  PathInv'
<1>1. /\ Runner \/ Workers
      /\ UNCHANGED itemVars /\ UNCHANGED <<token, scoped, dropped>>
  BY DEF Threads, Callers
<1>2. CallerTypes /\ RunnerInv /\ dropped \in BOOLEAN /\ (scoped => dropped)
  BY DEF PathInv, ItemInv, ItemTypes, StageHasRun
<1>3. RunnerInv' /\ CallerTypes'
  BY <1>1, <1>2, ThreadsInv DEF CallerTypes
<1>4. planned' = planned /\ (at # "returned" \/ at' = "returned")
  BY <1>1 DEF Runner, Workers, wait_until, send, spawn_fails, take, collect, decide, notice, return, probe
<1>5. ItemInv'
  BY <1>1, <1>2, <1>4, ItemAside
<1> QED
  BY <1>3, <1>5 DEF PathInv

LEMMA PathStep ==
  ASSUME PathInv, [BasicNext]_vars
  PROVE  PathInv'
<1>1. CASE Call
  <2>1. CASE resolve_target
    BY <1>1, <2>1, ResolveInv DEF Call
  <2>2. CASE ping_ends
    BY <1>1, <2>2, PingEndsInv DEF Call
  <2>3. CASE trace_ends \/ trace_fails
    BY <1>1, <2>3, TraceEndsInv DEF Call
  <2>4. CASE pathping_ends
    BY <1>1, <2>4, PathpingEndsInv DEF Call
  <2>5. CASE test_tcp
    BY <1>1, <2>5, TcpInv DEF Call
  <2>6. CASE judge
    BY <1>1, <2>6, JudgeInv DEF Call
  <2>7. CASE conclude
    BY <1>1, <2>7, ConcludeInv DEF Call
  <2> QED
    BY <1>1, <2>1, <2>2, <2>3, <2>4, <2>5, <2>6, <2>7 DEF Call
<1>2. CASE Threads
  BY <1>2, ThreadStepInv
<1>3. CASE hop
  BY <1>3, HopInv
<1>4. CASE Cancel \/ Drop
  BY <1>4, CallerStepInv
<1>5. CASE UNCHANGED vars
  <2>1. UNCHANGED <<token, scoped, dropped>> /\ UNCHANGED runnerVars /\ UNCHANGED itemVars
    BY <1>5 DEF vars
  <2>2. RunnerInv' /\ CallerTypes'
    BY <2>1, CallerInv DEF PathInv, CallerTypes
  <2>3. dropped \in BOOLEAN /\ (scoped => dropped) /\ planned' = planned /\ at' = at
    BY <2>1 DEF PathInv, ItemInv, ItemTypes, StageHasRun, runnerVars
  <2>4. ItemInv'
    BY <2>1, <2>3, ItemAside
  <2> QED
    BY <2>2, <2>4 DEF PathInv
<1> QED
  BY <1>1, <1>2, <1>3, <1>4, <1>5 DEF BasicNext

(* The workers of a step that changes the run. *)
LEMMA WorkersStep ==
  ASSUME PathInv, PathInv', [BasicNext]_vars
  PROVE  [ /\ Cardinality(Unjoined') <= clamp_outstanding
           /\ failure # "none" /\ at # "returned"
                => \A j \in Job : worker[j] = "none" => worker'[j] = "none" ]_runnerVars
<1>1. Cardinality(Unjoined') <= clamp_outstanding
  <2>1. WorkersAreFew'
    BY DEF PathInv, RunnerInv
  <2> QED
    BY <2>1 DEF WorkersAreFew, clamp_outstanding
<1>2. CASE Threads
  BY <1>1, <1>2, ThreadsInv DEF Threads, Callers, PathInv
<1>3. CASE at = "returned"
  BY <1>1, <1>3
<1>4. CASE UNCHANGED runnerVars
  BY <1>4
<1>5. CASE Call
  <2>1. at = "returned" \/ UNCHANGED runnerVars
    <3>1. stage \notin {"ping", "pathping"} => at = "returned"
      BY DEF PathInv, ItemInv, StageHasRun
    <3> QED
      BY <1>5, <3>1 DEF Call, resolve_target, ping_ends, trace_ends, trace_fails, pathping_ends,
                        test_tcp, judge, conclude, Idle
  <2> QED
    BY <1>3, <1>4, <2>1
<1>6. hop \/ Cancel \/ Drop \/ UNCHANGED vars => UNCHANGED runnerVars
  BY DEF hop, Idle, Cancel, Drop, vars
<1> QED
  BY <1>2, <1>4, <1>5, <1>6 DEF BasicNext

THEOREM PathInvariant == BasicSpec => []PathInv
<1>1. BasicInit => PathInv
  BY PathInit
<1>2. PathInv /\ [BasicNext]_vars => PathInv'
  BY PathStep
<1> QED
  BY <1>1, <1>2, PTL DEF BasicSpec

(* Accounting: a run that returns has collected each probe it sent, and       *)
(* reports the failure of a probe, not the cancellation of its peers          *)
(* (pacing.rs:97-166, 218-246), however many jobs, workers and descriptors.   *)
THEOREM RunIsAccountedHolds == BasicSpec => []RunIsAccounted
<1>1. PathInv => RunIsAccounted
  BY Accounting DEF PathInv
<1> QED
  BY <1>1, PathInvariant, PTL

(* Bounded workers: never more probes than asked for or than there are        *)
(* descriptors for, and none is sent after a failure (pacing.rs:101-125).     *)
THEOREM OutstandingIsBoundedHolds == BasicSpec => OutstandingIsBounded
<1>1. PathInv /\ PathInv' /\ [BasicNext]_vars
        => [ /\ Cardinality(Unjoined') <= clamp_outstanding
             /\ failure # "none" /\ at # "returned"
                  => \A j \in Job : worker[j] = "none" => worker'[j] = "none" ]_runnerVars
  BY WorkersStep
<1> QED
  BY <1>1, PathInvariant, PTL DEF BasicSpec, OutstandingIsBounded

(* Whole reports: an item that was not cancelled has every sample of every    *)
(* stage or names the stage as failed, once (path-basic/lib.rs:250-396).      *)
THEOREM ReportIsWholeHolds == BasicSpec => []ReportIsWhole
<1>1. PathInv => ReportIsWhole
  BY DEF PathInv, ItemInv, ItemTypes, StageHasRun, Listed, ReportIsWhole, FailuresAreDistinct
<1> QED
  BY <1>1, PathInvariant, PTL
=============================================================================
