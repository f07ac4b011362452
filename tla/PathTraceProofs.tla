-------------------------- MODULE PathTraceProofs ---------------------------
(***************************************************************************)
(* Proofs about a path trace, for any number of cycles, any range of TTLs  *)
(* and any limits.                                                         *)
(*                                                                         *)
(* What is pending in a cycle are its probes that were sent and have not   *)
(* come back; one that came back was recorded once or is noted as an       *)
(* error, and a run that is still completed has noted none.                *)
(***************************************************************************)
EXTENDS PathTrace, FiniteSetTheorems, TLAPS

Stages == {"none", "running", "joined", "aborted"}
Noted  == {"run", "limit", "probe", "task", "shutdown", "resolver", "name", "silent"}
Queries == {"pending", "ptr", "asn", "answered"} \X Nat \X BOOLEAN

TraceTypes ==
  /\ distance \in Distances /\ needs_asn \in BOOLEAN /\ resolvers \in {0, Resolvers}
  /\ token \in BOOLEAN /\ run_token \in BOOLEAN /\ probe_token \in BOOLEAN
  /\ at \in {"loop", "collect", "enrich", "finish", "done"}
  /\ cycles \in 0..Cycles /\ ttl \in Ttl
  /\ probe \in [Probes -> Stages] /\ result \in [Probes -> Results \cup {"none"}]
  /\ pending \in [Cycle -> Nat] /\ completed \in Nat /\ streak \in Nat
  /\ known \subseteq Ttl /\ bound \in Nat /\ had_ok \subseteq Cycle
  /\ recorded \subseteq Cycle \X Ttl \X Ok
  /\ grace_over \in BOOLEAN /\ enriched \in BOOLEAN
  /\ errors \subseteq Noted
  /\ DOMAIN lookup \subseteq Ttl /\ lookup \in [DOMAIN lookup -> Queries]
  /\ status \in {"Completed", "Cancelled", "TimedOut", "PartialFailure"}

(* The probes of a cycle that have not come back. *)
Back(p) == probe[p] = "joined" /\ result[p] # "panic"
Missing(c) == {p \in WasSent(c) : ~Back(p)}

(* Probes are sent in order, and counted until they are back. *)
PendingIsMissing ==
  /\ \A p \in Sent : p[1] < cycles \/ (p[1] = cycles /\ p[2] < ttl)
  /\ \A c \in Cycle : pending[c] = Cardinality(Missing(c))

(* In the loop a cycle with an answer is one with an answer that was joined. *)
AnswersCount ==
  at = "loop" => \A p \in Probes : probe[p] = "joined" /\ result[p] \in Ok => p[1] \in had_ok

(* A probe that is back has its one record, or is an error that was noted. *)
Records(p) == {r \in recorded : r[1] = p[1] /\ r[2] = p[2]}
RecordedOnce ==
  /\ \A p \in Probes : IF probe[p] = "joined" /\ result[p] \in Ok
                       THEN Cardinality(Records(p)) = 1 ELSE Records(p) = {}
  /\ \A r \in recorded : r[3] = "cancelled" => ~grace_over /\ at # "loop"
ErrorsAreNoted ==
  \A p \in Probes : /\ probe[p] = "aborted" => "shutdown" \in errors
                    /\ probe[p] = "joined" =>
                         /\ result[p] # "none"
                         /\ result[p] = "panic" => "task" \in errors
                         /\ result[p] \in {"Io", "Permission"} => "probe" \in errors

(* How a run gets on, and what it takes to be completed. *)
Completing ==
  /\ at = "loop" => status = "Completed" /\ ~run_token /\ ~probe_token /\ ~grace_over
  /\ at # "loop" /\ status = "Completed" => grace_over /\ cycles = Cycles
  /\ at \in {"enrich", "finish", "done"} => Tasks = {}
  /\ at = "done" /\ status = "Completed" => errors \subseteq {"name"} /\ (needs_asn => errors = {})
  /\ at \in {"finish", "done"} /\ status = "Completed" /\ needs_asn =>
       enriched \/ "resolver" \in errors \/ "name" \in errors

(* A name was found for every hop, if there was anybody to ask. *)
NamesAreFound ==
  /\ enriched => at \in {"finish", "done"}
  /\ enriched => \A t \in DOMAIN lookup : resolvers > 0 => lookup[t] = Query("answered", 0, FALSE)
  /\ \A t \in DOMAIN lookup : lookup[t][1] = "answered" => lookup[t][2] = 0

TraceInv ==
  /\ TraceTypes /\ PendingIsMissing /\ AnswersCount /\ RecordedOnce /\ ErrorsAreNoted
  /\ Completing /\ NamesAreFound /\ CyclesAreCounted

----------------------------------------------------------------------------
(* Finite sets of probes and cycles. *)
LEMMA Bounds ==
  /\ Cycles \in Nat \ {0} /\ FirstTtl \in Nat \ {0} /\ MaxTtl \in Nat /\ FirstTtl <= MaxTtl
  /\ MaxFailedCycles \in Nat \ {0} /\ Distances \subseteq Nat /\ Resolvers \in Nat
  /\ Cycle = 0 .. Cycles - 1 /\ Cycle \subseteq Nat /\ Ttl \subseteq Nat
  BY TraceAssumption DEF Cycle, Ttl

LEMMA ProbesAreFinite ==
  /\ IsFiniteSet(Cycle) /\ Cardinality(Cycle) = Cycles /\ IsFiniteSet(Probes)
  /\ \A S \in SUBSET Probes : IsFiniteSet(S) /\ Cardinality(S) \in Nat
  /\ \A S \in SUBSET Cycle : IsFiniteSet(S) /\ Cardinality(S) \in Nat
<1>1. IsFiniteSet(Cycle) /\ Cardinality(Cycle) = Cycles
  BY FS_Interval, Bounds
<1>2. IsFiniteSet(Ttl)
  BY FS_Interval, Bounds DEF Ttl
<1>3. IsFiniteSet(Probes)
  BY <1>1, <1>2, FS_Product DEF Probes
<1> QED
  BY <1>1, <1>3, FS_Subset, FS_CardinalityType

LEMMA ProbePair ==
  /\ \A p \in Probes : p[1] \in Cycle /\ p[2] \in Ttl /\ p = <<p[1], p[2]>>
  /\ \A c \in Cycle, t \in Ttl : <<c, t>> \in Probes /\ <<c, t>>[1] = c /\ <<c, t>>[2] = t
  BY DEF Probes

LEMMA OverIsEmpty ==
  ASSUME NEW c \in Cycle
  PROVE  /\ WasSent(c) = Joined(c) <=> Missing(c) = {}
         /\ Missing(c) \subseteq WasSent(c) /\ WasSent(c) \subseteq Probes
  BY DEF WasSent, Joined, Missing, Back, Sent

FailedCycles == {c \in OverCycles : \A p \in WasSent(c) : result[p] \notin Ok}

LEMMA Counted ==
  ASSUME CyclesAreCounted
  PROVE  completed = Cardinality(OverCycles) /\ streak <= Cardinality(FailedCycles)
  BY DEF CyclesAreCounted, FailedCycles

----------------------------------------------------------------------------
(* Steps that are not about probes. *)
LEMMA SameProbes ==
  ASSUME UNCHANGED <<cadence, probe, result>>
  PROVE  /\ Sent' = Sent /\ OverCycles' = OverCycles /\ FailedCycles' = FailedCycles
         /\ \A c \in Cycle : WasSent(c)' = WasSent(c) /\ Missing(c)' = Missing(c)
<1>1. UNCHANGED <<cycles, ttl, probe, result>>
  BY DEF cadence
<1>2. Sent' = Sent /\ Tasks' = Tasks
  BY <1>1 DEF Sent, Tasks, In
<1>3. \A c \in Cycle : /\ WasSent(c)' = WasSent(c) /\ Missing(c)' = Missing(c)
                       /\ Joined(c)' = Joined(c)
  BY <1>1, <1>2 DEF WasSent, Missing, Back, Joined
<1>4. OverCycles' = OverCycles
  BY <1>1, <1>3 DEF OverCycles
<1>5. FailedCycles' = FailedCycles
  <2>1. \A c \in OverCycles : c \in Cycle
    BY DEF OverCycles
  <2>2. \A c \in OverCycles :
          (\A p \in WasSent(c) : result[p] \notin Ok)' <=> (\A p \in WasSent(c) : result[p] \notin Ok)
    BY <1>1, <1>3, <2>1
  <2> QED
    BY <1>4, <2>2 DEF FailedCycles
<1> QED
  BY <1>2, <1>3, <1>4, <1>5

LEMMA ProbesAside ==
  ASSUME TraceInv, UNCHANGED <<cadence, probe, result, tally>>,
         errors \subseteq errors', at' = "loop" => at = "loop",
         grace_over' => grace_over \/ at = "loop"
  PROVE  /\ PendingIsMissing' /\ AnswersCount' /\ RecordedOnce' /\ ErrorsAreNoted'
         /\ CyclesAreCounted'
<1>1. UNCHANGED <<cycles, ttl, probe, result, pending, completed, known, bound, had_ok, streak, recorded>>
  BY DEF cadence, tally
<1>2. PendingIsMissing'
  BY <1>1, SameProbes DEF TraceInv, PendingIsMissing
<1>3. AnswersCount'
  BY <1>1 DEF TraceInv, AnswersCount
<1>4. RecordedOnce'
  <2>1. \A p \in Probes : Records(p)' = Records(p)
    BY <1>1 DEF Records
  <2>2. \A r \in recorded : r[3] = "cancelled" => ~grace_over' /\ at' # "loop"
    BY DEF TraceInv, RecordedOnce
  <2>3. \A p \in Probes : IF probe'[p] = "joined" /\ result'[p] \in Ok
                          THEN Cardinality(Records(p)') = 1 ELSE Records(p)' = {}
    BY <1>1, <2>1 DEF TraceInv, RecordedOnce
  <2> QED
    BY <1>1, <2>2, <2>3 DEF RecordedOnce
<1>5. ErrorsAreNoted'
  BY <1>1 DEF TraceInv, ErrorsAreNoted
<1>6. CyclesAreCounted'
  BY <1>1, SameProbes DEF TraceInv, CyclesAreCounted, FailedCycles
<1> QED
  BY <1>2, <1>3, <1>4, <1>5, <1>6

(* The run stops: a status that is not completed. *)
LEMMA StopInv ==
  ASSUME TraceInv, at = "loop", NEW with \in {"Cancelled", "TimedOut", "PartialFailure"},
         NEW note \in Noted, Stop(with, note), UNCHANGED <<given, names>>
  PROVE  Completing' /\ NamesAreFound' /\ (at' = "collect") /\ (at # "loop" => at' # "loop")
         /\ errors' = errors \cup {note} /\ errors' \subseteq Noted
         /\ UNCHANGED <<grace_over, token, probe_token>> /\ run_token' = TRUE
         /\ status' = with
<1>1. /\ status' = with /\ errors' = errors \cup {note} /\ run_token' = TRUE /\ at' = "collect"
      /\ UNCHANGED <<token, probe_token, grace_over>>
      /\ UNCHANGED <<lookup, enriched, resolvers>>
  BY DEF Stop, given, names
<1>2. Completing'
  BY <1>1 DEF Completing
<1>3. NamesAreFound'
  BY <1>1 DEF TraceInv, NamesAreFound, Query
<1>4. errors' \subseteq Noted
  BY <1>1 DEF TraceInv, TraceTypes
<1> QED
  BY <1>1, <1>2, <1>3, <1>4

LEMMA cancelledInv == ASSUME TraceInv, cancelled \/ deadline PROVE TraceInv'
<1>1. /\ at = "loop" /\ UNCHANGED <<given, cadence, probe, result, tally, names>>
      /\ Stop("Cancelled", "run") \/ Stop("TimedOut", "run")
  BY DEF cancelled, deadline
<1>2. /\ Completing' /\ NamesAreFound' /\ at' = "collect"
      /\ errors' = errors \cup {"run"} /\ errors' \subseteq Noted
      /\ UNCHANGED <<grace_over, token, probe_token>> /\ run_token' = TRUE
      /\ status' \in {"Cancelled", "TimedOut"}
  BY <1>1, StopInv DEF Noted
<1>3. TraceTypes'
  BY <1>1, <1>2 DEF TraceInv, TraceTypes, given, cadence, tally, names
<1>4. /\ PendingIsMissing' /\ AnswersCount' /\ RecordedOnce' /\ ErrorsAreNoted'
      /\ CyclesAreCounted'
  BY <1>1, <1>2, ProbesAside
<1> QED
  BY <1>2, <1>3, <1>4 DEF TraceInv

LEMMA final_graceInv == ASSUME TraceInv, final_grace PROVE TraceInv'
<1>1. /\ at = "loop" /\ cycles = Cycles /\ grace_over' = TRUE /\ probe_token' = TRUE /\ at' = "collect"
      /\ UNCHANGED <<given, token, run_token, cadence, probe, result, tally, errors, names, status>>
  BY DEF final_grace
<1>2. TraceTypes'
  BY <1>1 DEF TraceInv, TraceTypes, given, cadence, tally, names
<1>3. Completing'
  BY <1>1 DEF Completing, cadence
<1>4. NamesAreFound'
  BY <1>1 DEF TraceInv, NamesAreFound, names, given, Query
<1>5. /\ PendingIsMissing' /\ AnswersCount' /\ RecordedOnce' /\ ErrorsAreNoted'
      /\ CyclesAreCounted'
  BY <1>1, ProbesAside
<1> QED
  BY <1>2, <1>3, <1>4, <1>5 DEF TraceInv

(* What is asked changes only the lookups. *)
LEMMA LookupInv ==
  ASSUME TraceInv, at = "enrich", UNCHANGED queryRest,
         NEW t \in DOMAIN lookup, NEW query \in Queries,
         query[1] = "answered" => query[2] = 0, lookup' = [lookup EXCEPT ![t] = query]
  PROVE  TraceInv'
<1>1. /\ UNCHANGED <<given, tokens, at, cadence, probe, result, tally, grace_over, errors, enriched, status>>
      /\ ~enriched
  BY DEF queryRest, TraceInv, NamesAreFound
<1>2. TraceTypes'
  BY <1>1 DEF TraceInv, TraceTypes, given, tokens, cadence, tally
<1>3. Completing'
  BY <1>1 DEF TraceInv, Completing, given, tokens, cadence, Tasks, In
<1>4. NamesAreFound'
  BY <1>1 DEF TraceInv, TraceTypes, NamesAreFound
<1>5. /\ PendingIsMissing' /\ AnswersCount' /\ RecordedOnce' /\ ErrorsAreNoted'
      /\ CyclesAreCounted'
  BY <1>1, ProbesAside
<1> QED
  BY <1>2, <1>3, <1>4, <1>5 DEF TraceInv

LEMMA askInv == ASSUME TraceInv, NEW t \in Ttl, ask(t) PROVE TraceInv'
<1>1. /\ at = "enrich" /\ UNCHANGED queryRest /\ t \in DOMAIN lookup
      /\ lookup' = [lookup EXCEPT ![t] = Query("ptr", 1, FALSE)]
  BY DEF ask
<1>2. Query("ptr", 1, FALSE) \in Queries /\ Query("ptr", 1, FALSE)[1] = "ptr"
  BY DEF Query, Queries
<1> QED
  BY <1>1, <1>2, LookupInv

LEMMA query_anyInv == ASSUME TraceInv, NEW t \in Ttl, query_any(t) PROVE TraceInv'
<1>1. /\ at = "enrich" /\ UNCHANGED queryRest /\ t \in DOMAIN lookup
      /\ lookup[t][1] \in {"ptr", "asn"}
  BY DEF query_any, Asking
<1>2. lookup[t] \in Queries /\ lookup \in [DOMAIN lookup -> Queries]
  BY <1>1 DEF TraceInv, TraceTypes
<1>3. ASSUME NEW bad \in BOOLEAN, Ends(t, bad) PROVE TraceInv'
  <2>1. PICK query \in {Query("asn", 1, bad), Query("answered", 0, bad)} :
          lookup' = [lookup EXCEPT ![t] = query]
    BY <1>3 DEF Ends
  <2>2. query \in Queries /\ (query[1] = "answered" => query[2] = 0)
    BY DEF Query, Queries
  <2> QED
    BY <1>1, <2>1, <2>2, LookupInv
<1>4. ASSUME lookup' = [lookup EXCEPT ![t][2] = @ + 1] PROVE TraceInv'
  <2> DEFINE query == <<lookup[t][1], lookup[t][2] + 1, lookup[t][3]>>
  <2>1. query \in Queries /\ query[1] # "answered"
    BY <1>1, <1>2 DEF Queries
  <2>2. [lookup[t] EXCEPT ![2] = @ + 1] = query
    BY <1>2 DEF Queries
  <2>3. lookup' = [lookup EXCEPT ![t] = query]
    BY <1>4, <2>2
  <2> HIDE DEF query
  <2> QED
    BY <1>1, <2>1, <2>3, LookupInv
<1>5. lookup[t][3] \in BOOLEAN
  BY <1>2 DEF Queries
<1> QED
  BY <1>3, <1>4, <1>5 DEF query_any

(* The end of the names, and of the run. *)
LEMMA NoResolverInv == ASSUME TraceInv, NoResolver PROVE TraceInv'
<1>1. /\ at = "enrich" /\ resolvers = 0 /\ at' = "finish"
      /\ UNCHANGED <<given, tokens, cadence, probe, result, tally, grace_over, lookup, status>>
      /\ IF needs_asn THEN errors' = errors \cup {"resolver"} /\ UNCHANGED enriched
         ELSE enriched' = TRUE /\ UNCHANGED errors
  BY DEF NoResolver, Note
<1>2. errors \subseteq errors' /\ errors' \subseteq Noted /\ enriched' \in BOOLEAN
  BY <1>1 DEF TraceInv, TraceTypes, Noted
<1>3. TraceTypes'
  BY <1>1, <1>2 DEF TraceInv, TraceTypes, given, tokens, cadence, tally
<1>4. Completing'
  BY <1>1 DEF TraceInv, Completing, given, tokens, cadence, Tasks, In
<1>5. NamesAreFound'
  BY <1>1 DEF TraceInv, NamesAreFound, given
<1>6. /\ PendingIsMissing' /\ AnswersCount' /\ RecordedOnce' /\ ErrorsAreNoted'
      /\ CyclesAreCounted'
  BY <1>1, <1>2, ProbesAside
<1> QED
  BY <1>3, <1>4, <1>5, <1>6 DEF TraceInv

LEMMA enrich_stoppedInv == ASSUME TraceInv, enrich_stopped PROVE TraceInv'
<1>1. /\ at = "enrich" /\ at' = "finish" /\ status' \in {"Cancelled", "TimedOut"}
      /\ errors' = errors \cup {"run"} /\ run_token' = TRUE
      /\ UNCHANGED <<given, token, probe_token, cadence, probe, result, tally, grace_over, names>>
  BY DEF enrich_stopped, Note
<1>2. errors \subseteq errors' /\ errors' \subseteq Noted
  BY <1>1 DEF TraceInv, TraceTypes, Noted
<1>3. TraceTypes'
  BY <1>1, <1>2 DEF TraceInv, TraceTypes, given, names, cadence, tally
<1>4. Completing'
  BY <1>1 DEF TraceInv, Completing, Tasks, In
<1>5. NamesAreFound'
  BY <1>1 DEF TraceInv, NamesAreFound, given, names
<1>6. /\ PendingIsMissing' /\ AnswersCount' /\ RecordedOnce' /\ ErrorsAreNoted'
      /\ CyclesAreCounted'
  BY <1>1, <1>2, ProbesAside
<1> QED
  BY <1>3, <1>4, <1>5, <1>6 DEF TraceInv

LEMMA enriched_allInv == ASSUME TraceInv, enriched_all PROVE TraceInv'
<1> DEFINE bad == \E t \in DOMAIN lookup : lookup[t][3]
<1>1. /\ at = "enrich" /\ at' = "finish"
      /\ \A t \in DOMAIN lookup : lookup[t][1] = "answered"
      /\ status' = IF token THEN "Cancelled" ELSE status
      /\ errors' = errors \cup ((IF token THEN {"run"} ELSE {}) \cup (IF bad THEN {"name"} ELSE {}))
      /\ UNCHANGED <<given, tokens, cadence, probe, result, tally, grace_over, lookup>>
  BY DEF enriched_all, Note
<1>2. /\ enriched' = (~token /\ ~bad)
      /\ \A t \in DOMAIN lookup : lookup[t][3] => bad
  BY DEF enriched_all
<1>3. ~bad => \A t \in DOMAIN lookup : lookup[t] = Query("answered", 0, FALSE)
  <2> SUFFICES ASSUME ~bad, NEW t \in DOMAIN lookup PROVE lookup[t] = Query("answered", 0, FALSE)
    OBVIOUS
  <2>1. lookup[t] \in Queries /\ lookup[t][1] = "answered" /\ lookup[t][2] = 0
    BY <1>1 DEF TraceInv, TraceTypes, NamesAreFound
  <2>2. lookup[t][3] = FALSE
    BY <1>2, <2>1 DEF Queries
  <2>3. lookup[t] = <<lookup[t][1], lookup[t][2], lookup[t][3]>>
    BY <2>1 DEF Queries
  <2> QED
    BY <2>1, <2>2, <2>3 DEF Query
<1> HIDE DEF bad
<1>4. errors \subseteq errors' /\ errors' \subseteq Noted /\ enriched' \in BOOLEAN
  <2>1. errors \subseteq errors' /\ errors' \subseteq Noted
    BY <1>1 DEF TraceInv, TraceTypes, Noted
  <2>2. enriched' \in BOOLEAN
    BY <1>2
  <2> QED
    BY <2>1, <2>2
<1>5. status' \in {"Completed", "Cancelled", "TimedOut", "PartialFailure"}
  BY <1>1 DEF TraceInv, TraceTypes
<1>6. TraceTypes'
  BY <1>1, <1>4, <1>5 DEF TraceInv, TraceTypes, given, tokens, cadence, tally
<1>7. status' = "Completed" => status = "Completed" /\ (enriched' \/ "name" \in errors')
  <2>1. status' = "Completed" => ~token /\ status = "Completed"
    BY <1>1
  <2>2. bad => "name" \in errors'
    BY <1>1
  <2> QED
    BY <1>2, <2>1, <2>2
<1>8. Completing'
  <2>1. at = "enrich" => Tasks = {}
    BY DEF TraceInv, Completing
  <2>2. Tasks' = Tasks
    BY <1>1 DEF Tasks, In
  <2>3. status = "Completed" => grace_over /\ cycles = Cycles
    BY <1>1 DEF TraceInv, Completing
  <2> QED
    BY <1>1, <1>7, <2>1, <2>2, <2>3 DEF Completing, cadence
<1>9. NamesAreFound'
  <2>1. enriched' => ~bad
    BY <1>2
  <2>2. lookup' = lookup /\ \A t \in DOMAIN lookup : lookup[t][1] = "answered" => lookup[t][2] = 0
    BY <1>1 DEF TraceInv, NamesAreFound
  <2> QED
    BY <1>1, <1>3, <2>1, <2>2 DEF NamesAreFound, Query
<1>10. /\ PendingIsMissing' /\ AnswersCount' /\ RecordedOnce' /\ ErrorsAreNoted'
       /\ CyclesAreCounted'
  BY <1>1, <1>4, ProbesAside
<1> QED
  BY <1>6, <1>8, <1>9, <1>10 DEF TraceInv

LEMMA finishInv == ASSUME TraceInv, finish PROVE TraceInv'
<1> DEFINE silent == IF status = "Completed" /\ Answered = {} THEN {"silent"} ELSE {}
           counted == IF needs_asn THEN errors' ELSE errors' \ {"name"}
<1>1. /\ at = "finish" /\ at' = "done" /\ errors' = errors \cup silent
      /\ status' = IF status = "Completed" /\ counted # {} THEN "PartialFailure" ELSE status
      /\ run_token' = TRUE
      /\ UNCHANGED <<given, token, probe_token, cadence, probe, result, tally, grace_over, names>>
  BY DEF finish
<1>2. errors \subseteq errors' /\ errors' \subseteq Noted
  BY <1>1 DEF TraceInv, TraceTypes, Noted
<1>3. status' \in {"Completed", "Cancelled", "TimedOut", "PartialFailure"}
  BY <1>1 DEF TraceInv, TraceTypes
<1>4. TraceTypes'
  BY <1>1, <1>2, <1>3 DEF TraceInv, TraceTypes, given, names, cadence, tally
<1>5. status' = "Completed" =>
        status = "Completed" /\ errors' \subseteq {"name"} /\ (needs_asn => errors' = {})
  BY <1>1
<1>6. Completing'
  <2>1. Tasks = {} /\ Tasks' = Tasks
    BY <1>1 DEF TraceInv, Completing, Tasks, In
  <2>2. status = "Completed" => grace_over /\ cycles = Cycles
    BY <1>1 DEF TraceInv, Completing
  <2>3. status = "Completed" /\ needs_asn => enriched \/ "resolver" \in errors \/ "name" \in errors
    BY <1>1 DEF TraceInv, Completing
  <2>4. UNCHANGED <<needs_asn, cycles, grace_over, enriched>>
    BY <1>1 DEF given, cadence, names
  <2>5. at' \notin {"loop", "finish"}
    BY <1>1
  <2> HIDE DEF silent, counted
  <2> QED
    BY <1>1, <1>2, <1>5, <2>1, <2>2, <2>3, <2>4 DEF Completing
<1>7. NamesAreFound'
  BY <1>1 DEF TraceInv, NamesAreFound, given, names
<1>8. /\ PendingIsMissing' /\ AnswersCount' /\ RecordedOnce' /\ ErrorsAreNoted'
      /\ CyclesAreCounted'
  BY <1>1, <1>2, ProbesAside
<1> QED
  BY <1>4, <1>6, <1>7, <1>8 DEF TraceInv

LEMMA CancelInv == ASSUME TraceInv, Cancel \/ UNCHANGED vars PROVE TraceInv'
<1>1. /\ token' \in BOOLEAN
      /\ UNCHANGED <<given, run_token, probe_token, at, cadence, probe, result, tally, grace_over,
                     errors, names, status>>
  BY DEF Cancel, vars, tokens, TraceInv, TraceTypes
<1>2. TraceTypes'
  BY <1>1 DEF TraceInv, TraceTypes, given, names, cadence, tally
<1>3. Completing'
  BY <1>1 DEF TraceInv, Completing, given, cadence, names, Tasks, In
<1>4. NamesAreFound'
  BY <1>1 DEF TraceInv, NamesAreFound, given, names
<1>5. /\ PendingIsMissing' /\ AnswersCount' /\ RecordedOnce' /\ ErrorsAreNoted'
      /\ CyclesAreCounted'
  BY <1>1, ProbesAside
<1> QED
  BY <1>2, <1>3, <1>4, <1>5 DEF TraceInv

----------------------------------------------------------------------------
(* The next probe is sent: one more is missing in the cycle that goes on. *)
LEMMA SentInv ==
  ASSUME TraceInv, at = "loop", cycles < Cycles,
         probe' = [probe EXCEPT ![<<cycles, ttl>>] = "running"],
         pending' = [pending EXCEPT ![cycles] = @ + 1],
         \/ cycles' = cycles + 1 /\ ttl' = FirstTtl
         \/ cycles' = cycles /\ ttl' = ttl + 1 /\ ttl # MaxTtl,
         UNCHANGED <<given, tokens, at, grace_over, errors, status,
                     result, completed, known, bound, had_ok, streak, recorded, names>>
  PROVE  TraceInv'
<1>1. TraceTypes /\ PendingIsMissing /\ CyclesAreCounted
  BY DEF TraceInv
<1>0. PICK new \in Probes : new = <<cycles, ttl>>
  BY <1>1, Bounds, ProbePair DEF TraceTypes
<1>2. /\ cycles \in Cycle /\ ttl \in Ttl /\ cycles \in Nat /\ ttl \in Nat /\ new \in Probes
      /\ new[1] = cycles /\ new[2] = ttl /\ probe' = [probe EXCEPT ![new] = "running"]
      /\ \A p \in Probes : p[1] = cycles /\ p[2] = ttl => p = new
  BY <1>0, <1>1, Bounds, ProbePair DEF TraceTypes
<1>3. UNCHANGED <<distance, needs_asn, resolvers, token, run_token, probe_token, lookup, enriched>>
  BY DEF given, tokens, names
<1>4. new \notin Sent
  BY <1>1, <1>2 DEF PendingIsMissing
<1>5. probe[new] = "none"
  BY <1>2, <1>4 DEF Sent
<1>6. /\ probe' \in [Probes -> Stages] /\ probe'[new] = "running"
      /\ \A p \in Probes : p # new => probe'[p] = probe[p]
  BY <1>1, <1>2 DEF TraceTypes, Stages
<1>7. Sent' = Sent \cup {new}
  BY <1>2, <1>6 DEF Sent
<1>8. \A c \in Cycle : /\ WasSent(c)' = IF c = cycles THEN WasSent(c) \cup {new} ELSE WasSent(c)
                       /\ Missing(c)' = IF c = cycles THEN Missing(c) \cup {new} ELSE Missing(c)
  <2>1. \A c \in Cycle : WasSent(c)' = IF c = cycles THEN WasSent(c) \cup {new} ELSE WasSent(c)
    BY <1>2, <1>7 DEF WasSent
  <2>2. ASSUME NEW p \in Sent PROVE Back(p)' <=> Back(p)
    <3>1. p \in Probes /\ p # new
      BY <1>4 DEF Sent
    <3>2. probe'[p] = probe[p] /\ result' = result
      BY <1>6, <3>1
    <3> QED
      BY <3>2 DEF Back
  <2>3. ~Back(new)'
    BY <1>6 DEF Back
  <2>4. \A c \in Cycle : WasSent(c) \subseteq Sent
    BY DEF WasSent
  <2>5. ASSUME NEW c \in Cycle
        PROVE  Missing(c)' = IF c = cycles THEN Missing(c) \cup {new} ELSE Missing(c)
    <3>1. Missing(c)' = {p \in WasSent(c)' : ~Back(p)'}
      BY DEF Missing
    <3>2. {p \in WasSent(c) : ~Back(p)'} = Missing(c)
      BY <2>2, <2>4 DEF Missing
    <3> QED
      BY <2>1, <2>3, <3>1, <3>2
  <2> QED
    BY <2>1, <2>5
<1>9. PendingIsMissing'
  <2>1. \A p \in Sent' : p[1] < cycles' \/ (p[1] = cycles' /\ p[2] < ttl')
    <3>1. \A p \in Sent : p[1] \in Nat /\ p[2] \in Nat
      BY ProbePair, Bounds DEF Sent
    <3> QED
      BY <1>1, <1>2, <1>7, <3>1 DEF PendingIsMissing
  <2>2. ASSUME NEW c \in Cycle PROVE pending'[c] = Cardinality(Missing(c)')
    <3>1. IsFiniteSet(Missing(c)) /\ new \notin Missing(c)
      BY <1>4, OverIsEmpty, ProbesAreFinite DEF Missing, WasSent
    <3>2. Cardinality(Missing(c) \cup {new}) = Cardinality(Missing(c)) + 1
      BY <3>1, FS_AddElement
    <3> QED
      BY <1>1, <1>2, <1>8, <3>2 DEF PendingIsMissing, TraceTypes
  <2> QED
    BY <2>1, <2>2 DEF PendingIsMissing
<1>10. \A c \in Cycle : c \in OverCycles' <=> c \in OverCycles
  <2> SUFFICES ASSUME NEW c \in Cycle PROVE c \in OverCycles' <=> c \in OverCycles
    OBVIOUS
  <2>1. c \in OverCycles <=> c < cycles /\ Missing(c) = {}
    BY OverIsEmpty DEF OverCycles
  <2>2. c \in OverCycles' <=> c < cycles' /\ Missing(c)' = {}
    <3>1. (WasSent(c) = Joined(c))' <=> Missing(c)' = {}
      BY DEF WasSent, Joined, Missing, Back, Sent
    <3> QED
      BY <3>1 DEF OverCycles
  <2>3. c \in Nat
    BY Bounds
  <2> QED
    BY <1>2, <1>8, <2>1, <2>2, <2>3
<1>11. OverCycles' = OverCycles
  BY <1>10 DEF OverCycles
<1>12. FailedCycles' = FailedCycles
  <2>1. \A c \in OverCycles : c \in Cycle /\ c # cycles
    BY <1>2, Bounds DEF OverCycles
  <2>2. \A c \in OverCycles : WasSent(c)' = WasSent(c)
    BY <1>8, <2>1
  <2> QED
    BY <1>11, <2>2 DEF FailedCycles
<1>13. CyclesAreCounted'
  BY <1>1, <1>11, <1>12 DEF CyclesAreCounted, FailedCycles
<1>14. TraceTypes'
  <2>1. cycles' \in 0..Cycles /\ ttl' \in Ttl
    <3>1. ttl \in FirstTtl..MaxTtl /\ ttl' \in {FirstTtl, ttl + 1} /\ cycles' \in {cycles, cycles + 1}
      BY <1>2 DEF Ttl
    <3>2. cycles' \in 0..Cycles
      BY <1>2, <3>1, Bounds
    <3>3. ttl' \in FirstTtl..MaxTtl
      BY <3>1, Bounds
    <3> QED
      BY <3>2, <3>3 DEF Ttl
  <2>2. pending' \in [Cycle -> Nat]
    BY <1>1, <1>2 DEF TraceTypes
  <2> QED
    BY <1>1, <1>3, <1>6, <2>1, <2>2 DEF TraceTypes
<1>15. AnswersCount'
  BY <1>6 DEF TraceInv, AnswersCount
<1>16. RecordedOnce'
  <2>1. \A p \in Probes : Records(p)' = Records(p)
    BY DEF Records
  <2>2. \A p \in Probes : probe'[p] = "joined" <=> probe[p] = "joined"
    BY <1>5, <1>6
  <2> QED
    BY <2>1, <2>2 DEF TraceInv, RecordedOnce
<1>17. ErrorsAreNoted'
  BY <1>6 DEF TraceInv, ErrorsAreNoted
<1>18. Completing'
  BY <1>3 DEF TraceInv, Completing
<1>19. NamesAreFound'
  BY <1>3 DEF TraceInv, NamesAreFound, Query
<1> QED
  BY <1>9, <1>13, <1>14, <1>15, <1>16, <1>17, <1>18, <1>19 DEF TraceInv

LEMMA dispatchInv == ASSUME TraceInv, dispatch PROVE TraceInv'
<1>1. /\ at = "loop" /\ cycles < Cycles
      /\ UNCHANGED <<given, result, completed, known, bound, had_ok, streak, recorded, names>>
  BY DEF dispatch
<1>2. CASE Cardinality(Tasks) >= MaxOutstandingProbes
  <2>1. Stop("PartialFailure", "limit") /\ UNCHANGED <<cadence, probe, result, tally, given, names>>
    BY <1>1, <1>2 DEF dispatch, tally
  <2>2. /\ Completing' /\ NamesAreFound' /\ at' = "collect"
        /\ errors' = errors \cup {"limit"} /\ errors' \subseteq Noted
        /\ UNCHANGED <<grace_over, token, probe_token>> /\ run_token' = TRUE
        /\ status' = "PartialFailure"
    BY <1>1, <2>1, StopInv DEF Noted
  <2>3. TraceTypes'
    BY <2>1, <2>2 DEF TraceInv, TraceTypes, given, cadence, tally, names
  <2>4. /\ PendingIsMissing' /\ AnswersCount' /\ RecordedOnce' /\ ErrorsAreNoted'
        /\ CyclesAreCounted'
    BY <1>1, <2>1, <2>2, ProbesAside
  <2> QED
    BY <2>2, <2>3, <2>4 DEF TraceInv
<1>3. CASE ~(Cardinality(Tasks) >= MaxOutstandingProbes)
  <2>1. /\ probe' = [probe EXCEPT ![<<cycles, ttl>>] = "running"]
        /\ pending' = [pending EXCEPT ![cycles] = @ + 1]
        /\ IF CycleEnds THEN cycles' = cycles + 1 /\ ttl' = FirstTtl
           ELSE ttl' = ttl + 1 /\ UNCHANGED cycles
        /\ UNCHANGED <<tokens, at, grace_over, errors, status>>
    BY <1>3 DEF dispatch
  <2>2. ttl = MaxTtl => CycleEnds
    BY DEF CycleEnds
  <2> QED
    BY <1>1, <2>1, <2>2, SentInv
<1> QED
  BY <1>2, <1>3

----------------------------------------------------------------------------
(* A probe comes back: one less is missing in its cycle. *)
LEMMA JoinStage ==
  ASSUME TraceInv, NEW p \in Probes, NEW what \in Results, Joins(p, what)
  PROVE  /\ probe[p] = "running" /\ probe'[p] = "joined" /\ result'[p] = what /\ p \in Sent
         /\ probe' \in [Probes -> Stages] /\ result' \in [Probes -> Results \cup {"none"}]
         /\ \A q \in Probes : q # p => probe'[q] = probe[q] /\ result'[q] = result[q]
         /\ Sent' = Sent /\ \A c \in Cycle : WasSent(c)' = WasSent(c)
         /\ what \in trace_probe(p)
<1>1. /\ probe[p] = "running" /\ probe' = [probe EXCEPT ![p] = "joined"]
      /\ result' = [result EXCEPT ![p] = what] /\ what \in trace_probe(p)
  BY DEF Joins
<1>2. probe \in [Probes -> Stages] /\ result \in [Probes -> Results \cup {"none"}]
  BY DEF TraceInv, TraceTypes
<1>3. /\ probe'[p] = "joined" /\ result'[p] = what
      /\ probe' \in [Probes -> Stages] /\ result' \in [Probes -> Results \cup {"none"}]
      /\ \A q \in Probes : q # p => probe'[q] = probe[q] /\ result'[q] = result[q]
  BY <1>1, <1>2 DEF Stages
<1>4. p \in Sent /\ Sent' = Sent
  BY <1>1, <1>3 DEF Sent
<1>5. \A c \in Cycle : WasSent(c)' = WasSent(c)
  BY <1>4 DEF WasSent
<1> QED
  BY <1>1, <1>3, <1>4, <1>5

LEMMA BackCounts ==
  ASSUME TraceInv, NEW p \in Probes, NEW what \in Results, Joins(p, what), what # "panic",
         count_cycle(p[1]), UNCHANGED cadence
  PROVE  /\ PendingIsMissing' /\ pending' \in [Cycle -> Nat] /\ completed' \in Nat
         /\ completed' = Cardinality(OverCycles')
         /\ FailedCycles \subseteq FailedCycles' /\ IsFiniteSet(FailedCycles')
         /\ Over(p[1]) => \A q \in WasSent(p[1]) : q # p => Back(q)
         /\ Over(p[1]) /\ (\A q \in WasSent(p[1]) : result'[q] \notin Ok) =>
              p[1] \in FailedCycles' /\ p[1] \notin FailedCycles
<1>1. /\ probe[p] = "running" /\ probe'[p] = "joined" /\ result'[p] = what /\ p \in Sent
      /\ probe' \in [Probes -> Stages] /\ result' \in [Probes -> Results \cup {"none"}]
      /\ \A q \in Probes : q # p => probe'[q] = probe[q] /\ result'[q] = result[q]
      /\ Sent' = Sent /\ \A c \in Cycle : WasSent(c)' = WasSent(c)
  BY JoinStage
<1>2. TraceTypes /\ PendingIsMissing /\ CyclesAreCounted
  BY DEF TraceInv
<1>3. PICK d \in Cycle : d = p[1]
  BY ProbePair
<1>4. d \in Nat /\ cycles \in Nat /\ cycles' = cycles /\ ttl' = ttl
  BY <1>2, Bounds DEF TraceTypes, cadence
<1>5. \A c \in Cycle : WasSent(c) \subseteq Sent /\ Sent \subseteq Probes
  BY DEF WasSent, Sent
<1>6. p \in WasSent(d) /\ p \in Missing(d) /\ \A c \in Cycle : c # d => p \notin WasSent(c)
  BY <1>1, <1>3 DEF WasSent, Missing, Back
<1>7. ASSUME NEW q \in Sent PROVE Back(q)' <=> (q = p \/ Back(q))
  <2>1. q \in Probes
    BY DEF Sent
  <2>2. CASE q = p
    BY <1>1, <2>2 DEF Back
  <2>3. CASE q # p
    BY <1>1, <2>1, <2>3 DEF Back
  <2> QED
    BY <2>2, <2>3
<1>8. \A c \in Cycle : Missing(c)' = IF c = d THEN Missing(c) \ {p} ELSE Missing(c)
  <2> SUFFICES ASSUME NEW c \in Cycle
               PROVE  Missing(c)' = IF c = d THEN Missing(c) \ {p} ELSE Missing(c)
    OBVIOUS
  <2>1. Missing(c)' = {q \in WasSent(c) : ~Back(q)'}
    BY <1>1 DEF Missing
  <2>2. {q \in WasSent(c) : ~Back(q)'} = {q \in WasSent(c) : ~Back(q)} \ {p}
    BY <1>5, <1>7
  <2>3. Missing(c)' = Missing(c) \ {p}
    BY <2>1, <2>2 DEF Missing
  <2> QED
    BY <1>6, <2>3 DEF Missing
<1>9. Cardinality(Missing(d) \ {p}) = Cardinality(Missing(d)) - 1 /\ IsFiniteSet(Missing(d))
      /\ Cardinality(Missing(d)) \in Nat
  BY <1>6, OverIsEmpty, ProbesAreFinite, FS_RemoveElement
<1>10. pending[d] = Cardinality(Missing(d)) /\ pending[d] # 0
  <2>1. Missing(d) # {}
    BY <1>6
  <2> QED
    BY <1>2, <1>9, <2>1, FS_EmptySet DEF PendingIsMissing
<1>11. pending' = [pending EXCEPT ![d] = @ - 1]
  BY <1>3 DEF count_cycle
<1>12. pending' \in [Cycle -> Nat] /\ \A c \in Cycle : pending'[c] = Cardinality(Missing(c)')
  <2>1. pending[d] - 1 \in Nat
    BY <1>9, <1>10
  <2>2. pending' \in [Cycle -> Nat]
    BY <1>2, <1>11, <2>1 DEF TraceTypes
  <2>3. \A c \in Cycle : pending'[c] = IF c = d THEN pending[c] - 1 ELSE pending[c]
    BY <1>2, <1>11 DEF TraceTypes
  <2>4. \A c \in Cycle : pending[c] = Cardinality(Missing(c))
    BY <1>2 DEF PendingIsMissing
  <2> QED
    BY <1>8, <1>9, <2>2, <2>3, <2>4
<1>13. PendingIsMissing'
  BY <1>1, <1>2, <1>4, <1>12 DEF PendingIsMissing
<1>14. Over(d) <=> d < cycles /\ Missing(d)' = {}
  <2>0. Cardinality(Missing(d)') = Cardinality(Missing(d)) - 1
    BY <1>8, <1>9
  <2>1. pending[d] = 1 <=> Cardinality(Missing(d)') = 0
    BY <1>9, <1>10, <2>0
  <2>2. IsFiniteSet(Missing(d)')
    BY <1>8, <1>9, FS_RemoveElement, FS_Subset
  <2> QED
    BY <2>1, <2>2, FS_EmptySet DEF Over
<1>15. \A c \in Cycle : /\ c \in OverCycles <=> c < cycles /\ Missing(c) = {}
                        /\ c \in OverCycles' <=> c < cycles /\ Missing(c)' = {}
  <2> SUFFICES ASSUME NEW c \in Cycle
               PROVE  /\ c \in OverCycles <=> c < cycles /\ Missing(c) = {}
                      /\ c \in OverCycles' <=> c < cycles /\ Missing(c)' = {}
    OBVIOUS
  <2>1. (WasSent(c) = Joined(c))' <=> Missing(c)' = {}
    BY DEF WasSent, Joined, Missing, Back, Sent
  <2> QED
    BY <1>4, <2>1, OverIsEmpty DEF OverCycles
<1>16. OverCycles \subseteq Cycle /\ OverCycles' \subseteq Cycle
  BY DEF OverCycles
<1>17. d \notin OverCycles
  BY <1>6, <1>15
<1>18. OverCycles' = IF Over(d) THEN OverCycles \cup {d} ELSE OverCycles
  BY <1>8, <1>14, <1>15, <1>16, <1>17
<1>19. completed = Cardinality(OverCycles) /\ IsFiniteSet(OverCycles)
       /\ Cardinality(OverCycles \cup {d}) = Cardinality(OverCycles) + 1
       /\ Cardinality(OverCycles) \in Nat
  BY <1>2, <1>16, <1>17, ProbesAreFinite, FS_AddElement DEF CyclesAreCounted
<1>20. completed' = Cardinality(OverCycles') /\ completed' \in Nat
  <2>1. completed' = IF Over(d) THEN completed + 1 ELSE completed
    BY <1>3 DEF count_cycle
  <2> QED
    BY <1>18, <1>19, <2>1
<1>21. \A c \in OverCycles : \A q \in WasSent(c) : q \in Probes /\ q # p
  BY <1>5, <1>6, <1>16, <1>17
<1>22. FailedCycles \subseteq FailedCycles'
  <2> SUFFICES ASSUME NEW c \in FailedCycles PROVE c \in FailedCycles'
    OBVIOUS
  <2>1. c \in OverCycles /\ c \in Cycle /\ \A q \in WasSent(c) : result[q] \notin Ok
    BY <1>16 DEF FailedCycles
  <2>2. \A q \in WasSent(c) : result'[q] = result[q]
    BY <1>1, <1>21, <2>1
  <2>3. c \in OverCycles' /\ WasSent(c)' = WasSent(c)
    BY <1>1, <1>18, <2>1
  <2> QED
    BY <2>1, <2>2, <2>3 DEF FailedCycles
<1>23. IsFiniteSet(FailedCycles')
  <2>1. FailedCycles' \subseteq OverCycles'
    BY DEF FailedCycles
  <2> QED
    BY <1>16, <2>1, ProbesAreFinite
<1>24. Over(d) => \A q \in WasSent(d) : q # p => Back(q)
  BY <1>8, <1>14 DEF Missing
<1>25. Over(d) /\ (\A q \in WasSent(d) : result'[q] \notin Ok) =>
         d \in FailedCycles' /\ d \notin FailedCycles
  <2>1. d \notin FailedCycles
    BY <1>17 DEF FailedCycles
  <2>2. WasSent(d)' = WasSent(d)
    BY <1>1
  <2> QED
    BY <1>18, <2>1, <2>2 DEF FailedCycles
<1> QED
  BY <1>3, <1>12, <1>13, <1>20, <1>22, <1>23, <1>24, <1>25

(* An answer is recorded once; an error leaves no record. *)
LEMMA BackRecords ==
  ASSUME TraceInv, NEW p \in Probes, NEW what \in Results, Joins(p, what), NEW said \in Ok,
         recorded' = IF what \in Ok THEN recorded \cup {<<p[1], p[2], said>>} ELSE recorded,
         said = "cancelled" => ~grace_over /\ at # "loop",
         UNCHANGED grace_over, at' = "loop" => at = "loop"
  PROVE  RecordedOnce' /\ recorded' \subseteq Cycle \X Ttl \X Ok
<1> DEFINE row == <<p[1], p[2], said>>
<1>1. /\ probe[p] = "running" /\ probe'[p] = "joined" /\ result'[p] = what
      /\ \A q \in Probes : q # p => probe'[q] = probe[q] /\ result'[q] = result[q]
  BY JoinStage
<1>2. /\ p[1] \in Cycle /\ p[2] \in Ttl /\ \A q \in Probes : q[1] = p[1] /\ q[2] = p[2] => q = p
  BY ProbePair
<1>3. row \in Cycle \X Ttl \X Ok /\ row[1] = p[1] /\ row[2] = p[2] /\ row[3] = said
  BY <1>2
<1>4. recorded \subseteq Cycle \X Ttl \X Ok /\ RecordedOnce
  BY DEF TraceInv, TraceTypes
<1>5. PICK new \in Cycle \X Ttl \X Ok : new = row
  BY <1>3
<1> HIDE DEF row
<1>6. recorded' = IF what \in Ok THEN recorded \cup {new} ELSE recorded
  BY <1>5 DEF row
<1>7. Records(p) = {}
  BY <1>1, <1>4 DEF RecordedOnce
<1>8. \A q \in Probes : q # p => Records(q)' = Records(q)
  BY <1>2, <1>3, <1>5, <1>6 DEF Records
<1>9. Records(p)' = IF what \in Ok THEN {new} ELSE {}
  BY <1>3, <1>5, <1>6, <1>7 DEF Records
<1>10. \A q \in Probes : IF probe'[q] = "joined" /\ result'[q] \in Ok
                         THEN Cardinality(Records(q)') = 1 ELSE Records(q)' = {}
  <2> SUFFICES ASSUME NEW q \in Probes
               PROVE  IF probe'[q] = "joined" /\ result'[q] \in Ok
                      THEN Cardinality(Records(q)') = 1 ELSE Records(q)' = {}
    OBVIOUS
  <2>1. CASE q = p
    BY <1>1, <1>9, <2>1, FS_Singleton
  <2>2. CASE q # p
    BY <1>1, <1>4, <1>8, <2>2 DEF RecordedOnce
  <2> QED
    BY <2>1, <2>2
<1>11. \A r \in recorded' : r[3] = "cancelled" => ~grace_over /\ at # "loop"
  BY <1>3, <1>4, <1>5, <1>6 DEF RecordedOnce
<1>12. recorded' \subseteq Cycle \X Ttl \X Ok
  BY <1>4, <1>6
<1> QED
  BY <1>10, <1>11, <1>12 DEF RecordedOnce

(* What came back otherwise is noted. *)
LEMMA BackErrors ==
  ASSUME TraceInv, NEW p \in Probes, NEW what \in Results, Joins(p, what),
         errors \subseteq errors', what = "panic" => "task" \in errors',
         what \in {"Io", "Permission"} => "probe" \in errors'
  PROVE  ErrorsAreNoted'
<1>1. /\ probe[p] = "running" /\ probe'[p] = "joined" /\ result'[p] = what
      /\ \A q \in Probes : q # p => probe'[q] = probe[q] /\ result'[q] = result[q]
  BY JoinStage
<1>2. "none" \notin Results
  BY DEF Results, Ok
<1>3. ErrorsAreNoted
  BY DEF TraceInv
<1> SUFFICES ASSUME NEW q \in Probes
             PROVE  /\ probe'[q] = "aborted" => "shutdown" \in errors'
                    /\ probe'[q] = "joined" =>
                         /\ result'[q] # "none"
                         /\ result'[q] = "panic" => "task" \in errors'
                         /\ result'[q] \in {"Io", "Permission"} => "probe" \in errors'
  BY DEF ErrorsAreNoted
<1>4. CASE q = p
  BY <1>1, <1>2, <1>4
<1>5. CASE q # p
  BY <1>1, <1>3, <1>5 DEF ErrorsAreNoted
<1> QED
  BY <1>4, <1>5

(* A task that panicked stays missing, and so does one that was given up. *)
LEMMA StillMissing ==
  ASSUME TraceInv, UNCHANGED <<cadence, tally>>,
         \A q \in Probes : /\ probe'[q] = "none" <=> probe[q] = "none"
                           /\ Back(q)' <=> Back(q)
                           /\ Back(q) => result'[q] = result[q]
  PROVE  PendingIsMissing' /\ CyclesAreCounted'
<1>1. UNCHANGED <<cycles, ttl, pending, completed, streak>>
  BY DEF cadence, tally
<1>2. Sent' = Sent /\ Sent \subseteq Probes
  BY DEF Sent
<1>3. \A c \in Cycle : /\ WasSent(c)' = WasSent(c) /\ WasSent(c) \subseteq Probes
                       /\ Missing(c)' = Missing(c)
  BY <1>2 DEF WasSent, Missing
<1>4. PendingIsMissing'
  BY <1>1, <1>2, <1>3 DEF TraceInv, PendingIsMissing
<1>5. \A c \in Cycle : (WasSent(c) = Joined(c))' <=> Missing(c)' = {}
  BY DEF WasSent, Joined, Missing, Back, Sent
<1>6. \A c \in Cycle : c \in OverCycles' <=> c \in OverCycles
  <2>1. \A c \in Cycle : c \in OverCycles <=> c < cycles /\ Missing(c) = {}
    BY OverIsEmpty DEF OverCycles
  <2>2. \A c \in Cycle : c \in OverCycles' <=> c < cycles' /\ Missing(c)' = {}
    BY <1>5 DEF OverCycles
  <2> QED
    BY <1>1, <1>3, <2>1, <2>2
<1>7. OverCycles' = OverCycles
  BY <1>6 DEF OverCycles
<1>8. \A c \in OverCycles : \A q \in WasSent(c) : result'[q] = result[q]
  <2>1. \A c \in OverCycles : c \in Cycle /\ Missing(c) = {}
    BY OverIsEmpty DEF OverCycles
  <2> QED
    BY <1>3, <2>1 DEF Missing
<1>9. FailedCycles' = FailedCycles
  <2>1. \A c \in OverCycles : c \in Cycle
    BY DEF OverCycles
  <2> QED
    BY <1>3, <1>7, <1>8, <2>1 DEF FailedCycles
<1>10. CyclesAreCounted'
  BY <1>1, <1>7, <1>9 DEF TraceInv, CyclesAreCounted, FailedCycles
<1> QED
  BY <1>4, <1>10

(* The loop joins a task. *)
LEMMA LoopResults ==
  ASSUME TraceInv, at = "loop", ~token, NEW p \in Probes, NEW what, what \in trace_probe(p)
  PROVE  what \in {"reply", "exceeded", "timeout", "Io", "Permission", "panic"}
<1>1. ~StopAsked
  BY DEF TraceInv, Completing, StopAsked
<1> QED
  BY <1>1 DEF trace_probe

LEMMA joinPanic ==
  ASSUME TraceInv, at = "loop", ~token, NEW p \in Probes, NEW what \in Results, Joins(p, what),
         what = "panic", Stop("PartialFailure", "task"), UNCHANGED <<tally, given, cadence, names>>
  PROVE  TraceInv'
<1>1. /\ probe[p] = "running" /\ probe'[p] = "joined" /\ result'[p] = what
      /\ probe' \in [Probes -> Stages] /\ result' \in [Probes -> Results \cup {"none"}]
      /\ \A q \in Probes : q # p => probe'[q] = probe[q] /\ result'[q] = result[q]
  BY JoinStage
<1>2. /\ Completing' /\ NamesAreFound' /\ at' = "collect"
      /\ errors' = errors \cup {"task"} /\ errors' \subseteq Noted
      /\ UNCHANGED <<grace_over, token, probe_token>> /\ run_token' = TRUE
      /\ status' = "PartialFailure"
  BY StopInv DEF Noted
<1>3. TraceTypes'
  BY <1>1, <1>2 DEF TraceInv, TraceTypes, given, cadence, tally, names
<1>4. AnswersCount'
  BY <1>2 DEF AnswersCount
<1>5. RecordedOnce'
  <2>1. recorded' = recorded /\ "panic" \notin Ok
    BY DEF tally, Ok
  <2>2. "timeout" \in Ok
    BY DEF Ok
  <2>3. recorded' = IF what \in Ok THEN recorded \cup {<<p[1], p[2], "timeout">>} ELSE recorded
    BY <2>1
  <2> QED
    BY <1>2, <2>2, <2>3, BackRecords
<1>6. ErrorsAreNoted'
  BY <1>2, BackErrors
<1>7. PendingIsMissing' /\ CyclesAreCounted'
  <2>1. \A q \in Probes : /\ probe'[q] = "none" <=> probe[q] = "none"
                          /\ Back(q)' <=> Back(q)
                          /\ Back(q) => result'[q] = result[q]
    BY <1>1 DEF Back
  <2> QED
    BY <2>1, StillMissing
<1> QED
  BY <1>2, <1>3, <1>4, <1>5, <1>6, <1>7 DEF TraceInv

LEMMA joinOk ==
  ASSUME TraceInv, at = "loop", ~token, NEW p \in Probes, NEW what \in Results, Joins(p, what),
         what \in Ok, count_cycle(p[1]), join_ok(p, what), UNCHANGED <<given, cadence, names>>
  PROVE  TraceInv'
<1>1. /\ probe[p] = "running" /\ probe'[p] = "joined" /\ result'[p] = what
      /\ probe' \in [Probes -> Stages] /\ result' \in [Probes -> Results \cup {"none"}]
      /\ \A q \in Probes : q # p => probe'[q] = probe[q] /\ result'[q] = result[q]
      /\ what \in trace_probe(p)
  BY JoinStage
<1>2. what \in {"reply", "exceeded", "timeout"} /\ what # "panic"
  BY <1>1, LoopResults DEF Ok
<1>3. /\ had_ok' = had_ok \cup {p[1]}
      /\ known' = IF what \in {"reply", "exceeded"} THEN known \cup {p[2]} ELSE known
      /\ bound' = IF what = "reply" THEN Lower(p[2]) ELSE bound
      /\ recorded' = recorded \cup {<<p[1], p[2], what>>}
      /\ streak' = IF Over(p[1]) THEN 0 ELSE streak
      /\ UNCHANGED <<at, grace_over, errors, status, token, run_token, probe_token>>
      /\ UNCHANGED <<distance, needs_asn, resolvers, cycles, ttl, lookup, enriched>>
  BY DEF join_ok, tokens, given, cadence, names
<1>4. /\ PendingIsMissing' /\ pending' \in [Cycle -> Nat] /\ completed' \in Nat
      /\ completed' = Cardinality(OverCycles')
      /\ FailedCycles \subseteq FailedCycles' /\ IsFiniteSet(FailedCycles')
  BY <1>2, BackCounts
<1>5. RecordedOnce' /\ recorded' \subseteq Cycle \X Ttl \X Ok
  <2>1. what # "cancelled" /\ recorded' = IF what \in Ok THEN recorded \cup {<<p[1], p[2], what>>}
                                          ELSE recorded
    BY <1>2, <1>3
  <2> QED
    BY <1>3, <2>1, BackRecords
<1>6. TraceTypes'
  <2>1. p[1] \in Cycle /\ p[2] \in Ttl /\ p[2] \in Nat
    BY ProbePair, Bounds
  <2>2. bound' \in Nat /\ known' \subseteq Ttl /\ had_ok' \subseteq Cycle /\ streak' \in Nat
    BY <1>3, <2>1 DEF TraceInv, TraceTypes, Lower
  <2> QED
    BY <1>1, <1>3, <1>4, <1>5, <2>2 DEF TraceInv, TraceTypes
<1>7. AnswersCount'
  BY <1>1, <1>3 DEF TraceInv, AnswersCount
<1>8. ErrorsAreNoted'
  BY <1>2, <1>3, BackErrors
<1>9. Completing'
  BY <1>3 DEF TraceInv, Completing
<1>10. NamesAreFound'
  BY <1>3 DEF TraceInv, NamesAreFound, Query
<1>11. CyclesAreCounted'
  <2>1. streak <= Cardinality(FailedCycles) /\ streak \in Nat
    BY Counted DEF TraceInv, TraceTypes
  <2>2. /\ Cardinality(FailedCycles) <= Cardinality(FailedCycles')
        /\ Cardinality(FailedCycles') \in Nat /\ Cardinality(FailedCycles) \in Nat
    BY <1>4, FS_Subset, FS_CardinalityType
  <2>3. streak' <= Cardinality(FailedCycles')
    BY <1>3, <2>1, <2>2
  <2> QED
    BY <1>4, <2>3 DEF CyclesAreCounted, FailedCycles
<1> QED
  BY <1>4, <1>5, <1>6, <1>7, <1>8, <1>9, <1>10, <1>11 DEF TraceInv

LEMMA joinError ==
  ASSUME TraceInv, at = "loop", ~token, NEW p \in Probes, NEW what \in Results, Joins(p, what),
         what \notin Ok, what # "panic", count_cycle(p[1]), join_error(p, what),
         UNCHANGED <<given, cadence, names>>
  PROVE  TraceInv'
<1> DEFINE failedCycle == Over(p[1]) /\ p[1] \notin had_ok
           row == IF failedCycle /\ what # "Permission" THEN streak + 1 ELSE streak
<1>1. /\ probe[p] = "running" /\ probe'[p] = "joined" /\ result'[p] = what
      /\ probe' \in [Probes -> Stages] /\ result' \in [Probes -> Results \cup {"none"}]
      /\ \A q \in Probes : q # p => probe'[q] = probe[q] /\ result'[q] = result[q]
      /\ what \in trace_probe(p)
  BY JoinStage
<1>2. what \in {"Io", "Permission"}
  BY <1>1, LoopResults DEF Ok
<1>3. /\ streak' = IF Over(p[1]) /\ p[1] \in had_ok /\ what # "Permission" THEN 0 ELSE row
      /\ \/ Stop("PartialFailure", "probe")
         \/ Note({"probe"}) /\ UNCHANGED <<tokens, at, grace_over, status>>
      /\ UNCHANGED <<had_ok, known, bound, recorded>>
      /\ UNCHANGED <<distance, needs_asn, resolvers, cycles, ttl, lookup, enriched>>
  BY DEF join_error, given, cadence, names
<1>4. /\ errors' = errors \cup {"probe"} /\ UNCHANGED <<token, probe_token, grace_over>>
      /\ at' \in {"loop", "collect"} /\ run_token' \in BOOLEAN
      /\ status' \in {"Completed", "PartialFailure"}
      /\ Completing' /\ NamesAreFound'
  <2>1. CASE Stop("PartialFailure", "probe")
    <3>1. UNCHANGED <<given, names>>
      OBVIOUS
    <3> QED
      BY <2>1, <3>1, StopInv DEF Noted
  <2>2. CASE Note({"probe"}) /\ UNCHANGED <<tokens, at, grace_over, status>>
    <3>1. /\ errors' = errors \cup {"probe"}
          /\ UNCHANGED <<token, run_token, probe_token, at, grace_over, status>>
      BY <2>2 DEF Note, tokens
    <3>2. Completing'
      BY <3>1, <1>3 DEF TraceInv, Completing
    <3>3. NamesAreFound'
      BY <3>1, <1>3 DEF TraceInv, NamesAreFound, Query
    <3>4. run_token' \in BOOLEAN /\ status = "Completed"
      BY <3>1 DEF TraceInv, TraceTypes, Completing
    <3> QED
      BY <3>1, <3>2, <3>3, <3>4
  <2> QED
    BY <1>3, <2>1, <2>2
<1>5. /\ PendingIsMissing' /\ pending' \in [Cycle -> Nat] /\ completed' \in Nat
      /\ completed' = Cardinality(OverCycles')
      /\ FailedCycles \subseteq FailedCycles' /\ IsFiniteSet(FailedCycles')
      /\ Over(p[1]) => \A q \in WasSent(p[1]) : q # p => Back(q)
      /\ Over(p[1]) /\ (\A q \in WasSent(p[1]) : result'[q] \notin Ok) =>
           p[1] \in FailedCycles' /\ p[1] \notin FailedCycles
  BY BackCounts
<1>6. failedCycle => \A q \in WasSent(p[1]) : result'[q] \notin Ok
  <2> SUFFICES ASSUME failedCycle, NEW q \in WasSent(p[1]) PROVE result'[q] \notin Ok
    OBVIOUS
  <2>1. q \in Probes /\ q[1] = p[1]
    BY DEF WasSent, Sent
  <2>2. CASE q = p
    BY <1>1, <2>2
  <2>3. CASE q # p
    <3>1. probe[q] = "joined"
      BY <1>5, <2>3 DEF Back
    <3>2. result[q] \notin Ok
      BY <2>1, <3>1 DEF TraceInv, AnswersCount
    <3> QED
      BY <1>1, <2>1, <2>3, <3>2
  <2> QED
    BY <2>2, <2>3
<1>7. CyclesAreCounted' /\ streak' \in Nat
  <2>1. streak <= Cardinality(FailedCycles) /\ streak \in Nat
    BY Counted DEF TraceInv, TraceTypes
  <2>2. /\ Cardinality(FailedCycles) <= Cardinality(FailedCycles')
        /\ Cardinality(FailedCycles') \in Nat /\ Cardinality(FailedCycles) \in Nat
        /\ IsFiniteSet(FailedCycles)
    BY <1>5, FS_Subset, FS_CardinalityType
  <2>3. failedCycle => streak + 1 <= Cardinality(FailedCycles')
    <3> SUFFICES ASSUME failedCycle PROVE streak + 1 <= Cardinality(FailedCycles')
      OBVIOUS
    <3>1. p[1] \in FailedCycles' /\ p[1] \notin FailedCycles
      BY <1>5, <1>6
    <3>2. FailedCycles \cup {p[1]} \subseteq FailedCycles'
      BY <1>5, <3>1
    <3>3. Cardinality(FailedCycles \cup {p[1]}) = Cardinality(FailedCycles) + 1
      BY <2>2, <3>1, FS_AddElement
    <3>4. Cardinality(FailedCycles \cup {p[1]}) <= Cardinality(FailedCycles')
      BY <1>5, <3>2, FS_Subset
    <3> QED
      BY <2>1, <2>2, <3>3, <3>4
  <2> HIDE DEF failedCycle
  <2>4. streak' <= Cardinality(FailedCycles') /\ streak' \in Nat
    BY <1>3, <2>1, <2>2, <2>3
  <2> QED
    BY <1>5, <2>4 DEF CyclesAreCounted, FailedCycles
<1>8. RecordedOnce'
  <2>1. "timeout" \in Ok /\ recorded' = recorded
    BY <1>3 DEF Ok
  <2> QED
    BY <1>4, <2>1, BackRecords
<1>9. TraceTypes'
  <2>1. errors' \subseteq Noted
    BY <1>4 DEF TraceInv, TraceTypes, Noted
  <2>2. UNCHANGED <<had_ok, known, bound, recorded, distance, needs_asn, resolvers, cycles, ttl,
                    lookup, enriched>>
    BY <1>3
  <2> HIDE DEF failedCycle, row
  <2> QED
    BY <1>1, <1>4, <1>5, <1>7, <2>1, <2>2 DEF TraceInv, TraceTypes
<1>10. AnswersCount'
  <2>1. had_ok' = had_ok
    BY <1>3
  <2> QED
    BY <1>1, <2>1 DEF TraceInv, AnswersCount
<1>11. ErrorsAreNoted'
  BY <1>4, BackErrors
<1> QED
  BY <1>4, <1>5, <1>7, <1>8, <1>9, <1>10, <1>11 DEF TraceInv

LEMMA joinInv == ASSUME TraceInv, NEW p \in Probes, join(p) PROVE TraceInv'
<1>1. at = "loop" /\ ~token /\ UNCHANGED <<given, cadence, names>>
  BY DEF join
<1>2. PICK what \in Results :
        /\ Joins(p, what)
        /\ IF what = "panic"
           THEN Stop("PartialFailure", "task") /\ UNCHANGED tally
           ELSE /\ count_cycle(p[1])
                /\ IF what \in Ok THEN join_ok(p, what) ELSE join_error(p, what)
  BY DEF join
<1>3. CASE what = "panic"
  BY <1>1, <1>2, <1>3, joinPanic
<1>4. CASE what # "panic" /\ what \in Ok
  BY <1>1, <1>2, <1>4, joinOk
<1>5. CASE what # "panic" /\ what \notin Ok
  BY <1>1, <1>2, <1>5, joinError
<1> QED
  BY <1>3, <1>4, <1>5

----------------------------------------------------------------------------
(* After the loop. *)
LEMMA collectInv == ASSUME TraceInv, NEW p \in Probes, collect(p) PROVE TraceInv'
<1>1. /\ at = "collect"
      /\ UNCHANGED <<given, tokens, at, cadence, known, bound, had_ok, streak, grace_over, names, status>>
  BY DEF collect
<1>2. PICK what \in Results :
        /\ Joins(p, what)
        /\ IF what = "panic" THEN Note({"task"}) /\ UNCHANGED <<pending, completed, recorded>>
           ELSE /\ count_cycle(p[1])
                /\ recorded' = IF what \in Ok
                               THEN recorded \cup {<<p[1], p[2], settle_sample(what)>>} ELSE recorded
                /\ Note(IF what \in Ok \cup {"Cancelled"} THEN {} ELSE {"probe"})
  BY DEF collect
<1>3. /\ probe[p] = "running" /\ probe'[p] = "joined" /\ result'[p] = what
      /\ probe' \in [Probes -> Stages] /\ result' \in [Probes -> Results \cup {"none"}]
      /\ \A q \in Probes : q # p => probe'[q] = probe[q] /\ result'[q] = result[q]
  BY <1>2, JoinStage
<1>4. UNCHANGED <<distance, needs_asn, resolvers, token, run_token, probe_token, cycles, ttl, lookup, enriched>>
  BY <1>1 DEF given, tokens, cadence, names
<1>5. "panic" \notin Ok /\ "timeout" \in Ok
  BY DEF Ok
<1>6. /\ errors \subseteq errors' /\ errors' \subseteq Noted
      /\ what = "panic" => "task" \in errors'
      /\ what \in {"Io", "Permission"} => "probe" \in errors'
  BY <1>2 DEF Note, TraceInv, TraceTypes, Noted, Ok
<1>7. /\ PendingIsMissing' /\ CyclesAreCounted'
      /\ pending' \in [Cycle -> Nat] /\ completed' \in Nat
  <2>1. CASE what = "panic"
    <3>1. UNCHANGED <<pending, completed, recorded>> /\ UNCHANGED <<cadence, tally>>
      BY <1>1, <1>2, <2>1 DEF tally
    <3>2. \A q \in Probes : /\ probe'[q] = "none" <=> probe[q] = "none"
                            /\ Back(q)' <=> Back(q)
                            /\ Back(q) => result'[q] = result[q]
      BY <1>3, <2>1 DEF Back
    <3> QED
      BY <3>1, <3>2, StillMissing DEF TraceInv, TraceTypes
  <2>2. CASE what # "panic"
    <3>1. /\ PendingIsMissing' /\ pending' \in [Cycle -> Nat] /\ completed' \in Nat
          /\ completed' = Cardinality(OverCycles')
          /\ FailedCycles \subseteq FailedCycles' /\ IsFiniteSet(FailedCycles')
      BY <1>1, <1>2, <2>2, BackCounts
    <3>2. streak <= Cardinality(FailedCycles) /\ streak \in Nat /\ streak' = streak
      BY <1>1, Counted DEF TraceInv, TraceTypes
    <3>3. /\ Cardinality(FailedCycles) <= Cardinality(FailedCycles')
          /\ Cardinality(FailedCycles') \in Nat /\ Cardinality(FailedCycles) \in Nat
      BY <3>1, FS_Subset, FS_CardinalityType
    <3>4. streak' <= Cardinality(FailedCycles')
      BY <3>2, <3>3
    <3> QED
      BY <3>1, <3>4 DEF CyclesAreCounted, FailedCycles
  <2> QED
    BY <2>1, <2>2
<1>8. RecordedOnce' /\ recorded' \subseteq Cycle \X Ttl \X Ok
  <2>1. PICK said \in Ok :
          /\ what \in Ok => said = settle_sample(what)
          /\ said = "cancelled" => ~grace_over
    BY <1>5 DEF settle_sample
  <2>2. recorded' = IF what \in Ok THEN recorded \cup {<<p[1], p[2], said>>} ELSE recorded
    BY <1>2, <1>5, <2>1
  <2> QED
    BY <1>1, <1>2, <2>1, <2>2, BackRecords
<1>9. ErrorsAreNoted'
  BY <1>2, <1>6, BackErrors
<1>10. TraceTypes'
  BY <1>1, <1>3, <1>4, <1>6, <1>7, <1>8 DEF TraceInv, TraceTypes
<1>11. AnswersCount'
  BY <1>1 DEF AnswersCount
<1>12. Completing'
  BY <1>1, <1>4 DEF TraceInv, Completing
<1>13. NamesAreFound'
  BY <1>1, <1>4 DEF TraceInv, NamesAreFound, Query
<1> QED
  BY <1>7, <1>8, <1>9, <1>10, <1>11, <1>12, <1>13 DEF TraceInv

LEMMA collectedInv == ASSUME TraceInv, collected PROVE TraceInv'
<1>1. /\ at = "collect" /\ probe' = [p \in Probes |-> IF p \in Tasks THEN "aborted" ELSE probe[p]]
      /\ errors' = errors \cup IF Tasks = {} THEN {} ELSE {"shutdown"}
      /\ at' = IF status = "Completed" THEN "enrich" ELSE "finish"
      /\ lookup' = [t \in Answered |-> Query("pending", 0, FALSE)]
      /\ needs_asn' \in BOOLEAN /\ resolvers' \in {0, Resolvers}
      /\ UNCHANGED <<distance, tokens, cadence, result, tally, grace_over, enriched, status>>
  BY DEF collected, Note
<1>2. UNCHANGED <<token, run_token, probe_token, cycles, ttl, pending, completed, known, bound,
                  had_ok, streak, recorded>>
  BY <1>1 DEF tokens, cadence, tally
<1>3. probe \in [Probes -> Stages] /\ ~enriched
  BY <1>1 DEF TraceInv, TraceTypes, NamesAreFound
<1>4. /\ probe' \in [Probes -> Stages]
      /\ \A p \in Probes : probe'[p] = IF probe[p] = "running" THEN "aborted" ELSE probe[p]
  BY <1>1, <1>3 DEF Stages, Tasks, In
<1>5. Tasks' = {}
  BY <1>4 DEF Tasks, In
<1>6. errors \subseteq errors' /\ errors' \subseteq Noted
  BY <1>1 DEF TraceInv, TraceTypes, Noted
<1>7. /\ DOMAIN lookup' \subseteq Ttl /\ lookup' \in [DOMAIN lookup' -> Queries]
      /\ \A t \in DOMAIN lookup' : lookup'[t][1] = "pending"
  <2>1. Query("pending", 0, FALSE) \in Queries /\ Query("pending", 0, FALSE)[1] = "pending"
    BY DEF Query, Queries
  <2>2. Answered \subseteq Ttl
    BY DEF Answered
  <2> QED
    BY <1>1, <2>1, <2>2
<1>8. TraceTypes'
  BY <1>1, <1>2, <1>4, <1>6, <1>7 DEF TraceInv, TraceTypes
<1>9. PendingIsMissing' /\ CyclesAreCounted'
  <2>1. \A q \in Probes : /\ probe'[q] = "none" <=> probe[q] = "none"
                          /\ Back(q)' <=> Back(q)
                          /\ Back(q) => result'[q] = result[q]
    BY <1>1, <1>4 DEF Back
  <2> QED
    BY <1>1, <2>1, StillMissing
<1>10. AnswersCount'
  BY <1>1 DEF AnswersCount
<1>11. RecordedOnce'
  <2>1. \A p \in Probes : Records(p)' = Records(p)
    BY <1>2 DEF Records
  <2>2. \A p \in Probes : probe'[p] = "joined" <=> probe[p] = "joined"
    BY <1>4
  <2> QED
    BY <1>1, <1>2, <2>1, <2>2 DEF TraceInv, RecordedOnce
<1>12. ErrorsAreNoted'
  <2> SUFFICES ASSUME NEW p \in Probes
               PROVE  /\ probe'[p] = "aborted" => "shutdown" \in errors'
                      /\ probe'[p] = "joined" =>
                           /\ result'[p] # "none"
                           /\ result'[p] = "panic" => "task" \in errors'
                           /\ result'[p] \in {"Io", "Permission"} => "probe" \in errors'
    BY DEF ErrorsAreNoted
  <2>1. probe'[p] = "aborted" => probe[p] = "aborted" \/ p \in Tasks
    BY <1>4 DEF Tasks, In
  <2>2. p \in Tasks => "shutdown" \in errors'
    BY <1>1
  <2> QED
    BY <1>1, <1>4, <1>6, <2>1, <2>2 DEF TraceInv, ErrorsAreNoted
<1>13. Completing'
  BY <1>1, <1>2, <1>5 DEF TraceInv, Completing
<1>14. NamesAreFound'
  BY <1>1, <1>3, <1>7 DEF NamesAreFound
<1> QED
  BY <1>8, <1>9, <1>10, <1>11, <1>12, <1>13, <1>14 DEF TraceInv

----------------------------------------------------------------------------
LEMMA TraceStart == TraceInit => TraceInv
<1> SUFFICES ASSUME TraceInit PROVE TraceInv
  OBVIOUS
<1>1. /\ distance \in Distances /\ needs_asn = FALSE /\ resolvers = 0
      /\ token = FALSE /\ run_token = FALSE /\ probe_token = FALSE
      /\ at = "loop" /\ cycles = 0 /\ ttl = FirstTtl
      /\ probe = [p \in Probes |-> "none"] /\ result = [p \in Probes |-> "none"]
      /\ pending = [c \in Cycle |-> 0] /\ completed = 0
      /\ known = {} /\ bound = 0 /\ had_ok = {} /\ streak = 0 /\ recorded = {}
      /\ grace_over = FALSE /\ errors = {} /\ status = "Completed"
      /\ lookup = <<>> /\ enriched = FALSE
  BY DEF TraceInit
<1>2. DOMAIN lookup = {} /\ lookup = [t \in {} |-> lookup[t]]
  BY <1>1
<1>3. TraceTypes
  BY <1>1, <1>2, Bounds DEF TraceTypes, Stages, Ttl
<1>4. Sent = {} /\ \A c \in Cycle : WasSent(c) = {} /\ Missing(c) = {}
  BY <1>1 DEF Sent, WasSent, Missing
<1>5. PendingIsMissing
  BY <1>1, <1>4, FS_EmptySet DEF PendingIsMissing
<1>6. AnswersCount /\ RecordedOnce /\ ErrorsAreNoted
  BY <1>1 DEF AnswersCount, RecordedOnce, Records, ErrorsAreNoted
<1>7. Completing
  BY <1>1 DEF Completing
<1>8. NamesAreFound
  BY <1>1, <1>2 DEF NamesAreFound
<1>9. CyclesAreCounted
  <2>1. OverCycles = {}
    BY <1>1, Bounds DEF OverCycles
  <2>2. FailedCycles = {}
    BY <2>1 DEF FailedCycles
  <2> QED
    BY <1>1, <2>1, <2>2, FS_EmptySet DEF CyclesAreCounted, FailedCycles
<1> QED
  BY <1>3, <1>5, <1>6, <1>7, <1>8, <1>9 DEF TraceInv

(* A completed run has noted no error that would tell of a probe that is missing. *)
LEMMA Completed == TraceInv => CompletedIsWhole
<1> SUFFICES ASSUME TraceInv, at = "done", status = "Completed"
             PROVE  /\ cycles = Cycles /\ completed = Cycles /\ Tasks = {} /\ In("aborted") = {}
                    /\ \A p \in Sent : result[p] # "Cancelled" =>
                         Cardinality({r \in recorded : r[1] = p[1] /\ r[2] = p[2]}) = 1
                    /\ \A r \in recorded : r[3] # "cancelled"
                    /\ errors \subseteq {"name"} /\ (needs_asn => enriched)
                    /\ enriched => \A t \in DOMAIN lookup :
                                     resolvers > 0 => lookup[t] = Query("answered", 0, FALSE)
  BY DEF CompletedIsWhole
<1>1. /\ cycles = Cycles /\ grace_over /\ Tasks = {}
      /\ errors \subseteq {"name"} /\ (needs_asn => errors = {}) /\ (needs_asn => enriched)
  BY DEF TraceInv, Completing
<1>2. In("aborted") = {}
  BY <1>1 DEF TraceInv, ErrorsAreNoted, In
<1>3. ASSUME NEW p \in Sent
      PROVE  /\ p \in Probes /\ probe[p] = "joined" /\ result[p] \in Ok \cup {"Cancelled"}
  <2>1. p \in Probes /\ probe[p] \in Stages /\ probe[p] # "none" /\ result[p] \in Results \cup {"none"}
    BY DEF Sent, TraceInv, TraceTypes
  <2>2. probe[p] = "joined"
    BY <1>1, <1>2, <2>1 DEF Stages, Tasks, In
  <2> QED
    BY <1>1, <2>1, <2>2 DEF TraceInv, ErrorsAreNoted, Results
<1>4. \A c \in Cycle : Missing(c) = {}
  BY <1>3 DEF Missing, Back, WasSent, Ok
<1>5. OverCycles = Cycle
  BY <1>1, <1>4, OverIsEmpty, Bounds DEF OverCycles
<1>6. completed = Cycles
  BY <1>5, Counted, ProbesAreFinite DEF TraceInv
<1>7. ASSUME NEW p \in Sent, result[p] # "Cancelled" PROVE Cardinality(Records(p)) = 1
  <2>1. p \in Probes /\ probe[p] = "joined" /\ result[p] \in Ok
    BY <1>3, <1>7
  <2> QED
    BY <2>1 DEF TraceInv, RecordedOnce
<1>8. \A r \in recorded : r[3] # "cancelled"
  BY <1>1 DEF TraceInv, RecordedOnce
<1>9. enriched => \A t \in DOMAIN lookup :
                    resolvers > 0 => lookup[t] = Query("answered", 0, FALSE)
  BY DEF TraceInv, NamesAreFound
<1> QED
  BY <1>1, <1>2, <1>6, <1>7, <1>8, <1>9 DEF Records

(* A trace is what it says, whenever its probes end. *)
THEOREM TraceInvariant == TraceSpec => []TraceInv
<1>1. TraceInv /\ [TraceNext]_vars => TraceInv'
  <2> SUFFICES ASSUME TraceInv, [TraceNext]_vars PROVE TraceInv'
    OBVIOUS
  <2>1. CASE Cancel \/ UNCHANGED vars
    BY <2>1, CancelInv
  <2>2. CASE cancelled \/ deadline
    BY <2>2, cancelledInv
  <2>3. CASE final_grace
    BY <2>3, final_graceInv
  <2>4. CASE dispatch
    BY <2>4, dispatchInv
  <2>5. CASE collected
    BY <2>5, collectedInv
  <2>6. CASE NoResolver
    BY <2>6, NoResolverInv
  <2>7. CASE enrich_stopped
    BY <2>7, enrich_stoppedInv
  <2>8. CASE enriched_all
    BY <2>8, enriched_allInv
  <2>9. CASE finish
    BY <2>9, finishInv
  <2>10. ASSUME NEW p \in Probes, join(p) \/ collect(p) PROVE TraceInv'
    BY <2>10, joinInv, collectInv
  <2>11. ASSUME NEW t \in Ttl, ask(t) \/ query_any(t) PROVE TraceInv'
    BY <2>11, askInv, query_anyInv
  <2> QED
    BY <2>1, <2>2, <2>3, <2>4, <2>5, <2>6, <2>7, <2>8, <2>9, <2>10, <2>11 DEF TraceNext, Run, Own, Answer
<1> QED
  BY <1>1, TraceStart, PTL DEF TraceSpec

(* The cycles that a trace counts were sent whole and came back, and one that *)
(* is completed has lost no probe of them.                                    *)
THEOREM TraceIsWholeHolds == TraceSpec => []TraceIsWhole
<1>1. TraceInv => TraceIsWhole
  BY Completed DEF TraceInv, TraceIsWhole
<1> QED
  BY <1>1, TraceInvariant, PTL
=============================================================================
