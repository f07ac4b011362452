----------------------------- MODULE PathTrace -----------------------------
(***************************************************************************)
(* execute_run of path-trace/lib.rs with its Cadence and its name lookups: *)
(* cycles of probes with growing TTL, each in a blocking task, sent at a   *)
(* pace and answered whenever an answer comes; then the lookup of names.   *)
(* Timers fire at any time; how long they run is left out.                 *)
(***************************************************************************)
EXTENDS Naturals, FiniteSets

CONSTANTS
  Cycles, FirstTtl, MaxTtl,  \* TraceSettings
  MaxUnknown,                \* a cycle ends after more than 12 silent hops
  MaxOutstandingProbes, MaxFailedCycles, MaxDnsQueries,
  Distances,                 \* bound: the TTLs the target may be at
  Resolvers                  \* bound: how many resolvers there are, if any

ASSUME TraceAssumption ==
  /\ {Cycles, FirstTtl, MaxOutstandingProbes, MaxFailedCycles, MaxDnsQueries} \subseteq Nat \ {0}
  /\ MaxTtl \in Nat /\ FirstTtl <= MaxTtl /\ Distances \subseteq Nat
  /\ MaxUnknown \in Nat /\ Resolvers \in Nat

VARIABLES
  distance,     \* the TTL the target is at; beyond MaxTtl it is not reached
  needs_asn,    \* an AS trace; told when it first matters, after the probes
  resolvers,    \* how many resolvers are known, likewise
  token,        \* the caller's cancellation
  run_token, probe_token,   \* cancelled by the run for its probes
  at,           \* "loop", "collect", "enrich", "finish" or "done"
  cycles, ttl,  \* Cadence: cycles sent, and the TTL of the next probe
  probe,        \* per probe: "none", "running", "joined" or "aborted"
  result,       \* per probe: what it came to
  pending,      \* per cycle: probes not joined
  completed,    \* completed_cycles
  known,        \* TTLs that answered
  bound,        \* destination_bound, or 0
  had_ok,       \* cycles with a probe that did not fail
  streak,       \* failed_cycle_streak
  recorded,     \* samples in the accumulators: <<cycle, ttl, status>>
  grace_over,   \* normal_grace_expired
  errors,       \* the kinds of errors noted
  lookup,       \* per hop that answered: its queries
  enriched,     \* enrichment_complete
  status        \* TraceRunStatus

cadence == <<cycles, ttl>>
tokens == <<token, run_token, probe_token>>
tally == <<pending, completed, known, bound, had_ok, streak, recorded>>
names == <<lookup, enriched>>
given == <<distance, needs_asn, resolvers>>
vars == <<given, tokens, at, cadence, probe, result, tally, grace_over, errors, names, status>>

Cycle == 0 .. Cycles - 1
Ttl == FirstTtl..MaxTtl
Probes == Cycle \X Ttl
In(stage) == {p \in Probes : probe[p] = stage}
Tasks == In("running")
Ok == {"reply", "exceeded", "timeout", "cancelled"}
Results == Ok \cup {"Io", "Permission", "Cancelled", "panic"}

TraceInit ==
  /\ distance \in Distances /\ needs_asn = FALSE /\ resolvers = 0
  /\ token = FALSE /\ run_token = FALSE /\ probe_token = FALSE
  /\ at = "loop" /\ cycles = 0 /\ ttl = FirstTtl
  /\ probe = [p \in Probes |-> "none"] /\ result = [p \in Probes |-> "none"]
  /\ pending = [c \in Cycle |-> 0] /\ completed = 0
  /\ known = {} /\ bound = 0 /\ had_ok = {} /\ streak = 0 /\ recorded = {}
  /\ grace_over = FALSE /\ errors = {} /\ status = "Completed"
  /\ lookup = <<>> /\ enriched = FALSE

Stop(with, note) ==
  /\ status' = with /\ errors' = errors \cup {note}
  /\ run_token' = TRUE /\ at' = "collect"
  /\ UNCHANGED <<token, probe_token, grace_over>>

Note(notes) == errors' = errors \cup notes

----------------------------------------------------------------------------
(* The probes, each in a thread.  A cancelled one was not sent or not answered. *)

StopAsked == token \/ run_token \/ probe_token

trace_probe(p) ==
  (IF p[2] >= distance THEN {"reply"} ELSE {"exceeded"})
    \cup {"timeout", "Io", "Permission", "panic"}
    \cup (IF StopAsked THEN {"cancelled", "Cancelled"} ELSE {})

----------------------------------------------------------------------------
(* The loop: cancellation, deadline and the end of the last grace come first. *)

cancelled ==
  /\ at = "loop" /\ token
  /\ Stop("Cancelled", "run")
  /\ UNCHANGED <<given, cadence, probe, result, tally, names>>

deadline ==
  /\ at = "loop" /\ ~token
  /\ Stop("TimedOut", "run")
  /\ UNCHANGED <<given, cadence, probe, result, tally, names>>

final_grace ==
  /\ at = "loop" /\ ~token /\ cycles = Cycles
  /\ grace_over' = TRUE /\ probe_token' = TRUE /\ at' = "collect"
  /\ UNCHANGED <<given, token, run_token, cadence, probe, result, tally, errors, names, status>>

(* Cadence.dispatched: the cycle ends at the target, after too many silent hops, *)
(* or at the last TTL.                                                           *)
Unknown == Cardinality({t \in FirstTtl .. ttl - 1 : t \notin known})
CycleEnds == (bound # 0 /\ bound <= ttl) \/ Unknown > MaxUnknown \/ ttl = MaxTtl

dispatch ==
  /\ at = "loop" /\ ~token /\ cycles < Cycles
  /\ IF Cardinality(Tasks) >= MaxOutstandingProbes
     THEN /\ Stop("PartialFailure", "limit")
          /\ UNCHANGED <<cadence, probe, pending>>
     ELSE /\ probe' = [probe EXCEPT ![<<cycles, ttl>>] = "running"]
          /\ pending' = [pending EXCEPT ![cycles] = @ + 1]
          /\ IF CycleEnds THEN cycles' = cycles + 1 /\ ttl' = FirstTtl
             ELSE ttl' = ttl + 1 /\ UNCHANGED cycles
          /\ UNCHANGED <<tokens, at, grace_over, errors, status>>
  /\ UNCHANGED <<given, result, completed, known, bound, had_ok, streak, recorded, names>>

(* What a joined task adds; a cycle is over when it was sent and nothing is pending. *)
Over(c) == c < cycles /\ pending[c] = 1
Lower(t) == IF bound = 0 \/ t < bound THEN t ELSE bound

(* Mutant: a cycle may be counted while it is being sent. *)
count_cycle_Early(c) ==
  /\ pending' = [pending EXCEPT ![c] = @ - 1]
  /\ completed' = IF pending[c] = 1 THEN completed + 1 ELSE completed

count_cycle(c) ==
  /\ pending' = [pending EXCEPT ![c] = @ - 1]
  /\ completed' = IF Over(c) THEN completed + 1 ELSE completed

join_ok(p, what) ==
  /\ had_ok' = had_ok \cup {p[1]}
  /\ known' = IF what \in {"reply", "exceeded"} THEN known \cup {p[2]} ELSE known
  /\ bound' = IF what = "reply" THEN Lower(p[2]) ELSE bound
  /\ recorded' = recorded \cup {<<p[1], p[2], what>>}
  /\ streak' = IF Over(p[1]) THEN 0 ELSE streak
  /\ UNCHANGED <<tokens, at, grace_over, errors, status>>

(* A lack of rights ends the run; so do MaxFailedCycles cycles that failed in a row. *)
join_error(p, what) ==
  LET failedCycle == Over(p[1]) /\ p[1] \notin had_ok
      row == IF failedCycle /\ what # "Permission" THEN streak + 1 ELSE streak
  IN  /\ streak' = IF Over(p[1]) /\ p[1] \in had_ok /\ what # "Permission" THEN 0 ELSE row
      /\ IF what = "Permission" \/ row >= MaxFailedCycles
         THEN Stop("PartialFailure", "probe")
         ELSE Note({"probe"}) /\ UNCHANGED <<tokens, at, grace_over, status>>
      /\ UNCHANGED <<had_ok, known, bound, recorded>>

(* A thread has ended and its task is joined. *)
Joins(p, what) ==
  /\ probe[p] = "running" /\ probe' = [probe EXCEPT ![p] = "joined"]
  /\ what \in trace_probe(p) /\ result' = [result EXCEPT ![p] = what]

join(p) ==
  /\ at = "loop" /\ ~token
  /\ \E what \in Results :
       /\ Joins(p, what)
       /\ IF what = "panic"
          THEN Stop("PartialFailure", "task") /\ UNCHANGED tally
          ELSE /\ count_cycle(p[1])
               /\ IF what \in Ok THEN join_ok(p, what) ELSE join_error(p, what)
  /\ UNCHANGED <<given, cadence, names>>

----------------------------------------------------------------------------
(* After the loop: what has ended in the meantime, for a quarter of a second. *)

(* A probe that the end of the normal grace broke off has timed out. *)
settle_sample(what) == IF grace_over /\ what = "cancelled" THEN "timeout" ELSE what

collect(p) ==
  /\ at = "collect"
  /\ \E what \in Results :
       /\ Joins(p, what)
       /\ IF what = "panic" THEN Note({"task"}) /\ UNCHANGED <<pending, completed, recorded>>
          ELSE /\ count_cycle(p[1])
               /\ recorded' = IF what \in Ok
                              THEN recorded \cup {<<p[1], p[2], settle_sample(what)>>} ELSE recorded
               /\ Note(IF what \in Ok \cup {"Cancelled"} THEN {} ELSE {"probe"})
  /\ UNCHANGED <<given, tokens, at, cadence, known, bound, had_ok, streak, grace_over, names, status>>

(* A query: "pending", then the kind that is asked, at which resolver, and whether *)
(* one before it failed; at last "answered".                                       *)
Query(kind, resolver, bad) == <<kind, resolver, bad>>
Answered == {t \in Ttl : \E c \in Cycle : \E what \in {"reply", "exceeded"} : <<c, t, what>> \in recorded}

(* Mutant: the tasks are waited for without PROBE_CLEANUP_GRACE. *)
collected_Waits ==
  /\ at = "collect" /\ Tasks = {}
  /\ at' = IF status = "Completed" THEN "enrich" ELSE "finish"
  /\ lookup' = [t \in Answered |-> Query("pending", 0, FALSE)]
  /\ needs_asn' \in BOOLEAN /\ resolvers' \in {0, Resolvers}
  /\ UNCHANGED <<distance, tokens, cadence, probe, result, tally, grace_over, errors, enriched, status>>

(* All are joined, or PROBE_CLEANUP_GRACE is over.  A thread that runs is not *)
(* stopped by abort_all.                                                      *)
collected ==
  /\ at = "collect"
  /\ probe' = [p \in Probes |-> IF p \in Tasks THEN "aborted" ELSE probe[p]]
  /\ Note(IF Tasks = {} THEN {} ELSE {"shutdown"})
  /\ at' = IF status = "Completed" THEN "enrich" ELSE "finish"
  /\ lookup' = [t \in Answered |-> Query("pending", 0, FALSE)]
  /\ needs_asn' \in BOOLEAN /\ resolvers' \in {0, Resolvers}
  /\ UNCHANGED <<distance, tokens, cadence, result, tally, grace_over, enriched, status>>

----------------------------------------------------------------------------
(* The names of the hops: a few queries at a time, each at one resolver after the *)
(* other; for an AS trace a second query follows the first.                       *)

NoResolver ==
  /\ at = "enrich" /\ resolvers = 0
  /\ at' = "finish"
  /\ IF needs_asn THEN Note({"resolver"}) /\ UNCHANGED enriched
     ELSE enriched' = TRUE /\ UNCHANGED errors
  /\ UNCHANGED <<given, tokens, cadence, probe, result, tally, grace_over, lookup, status>>

Asking(t) == t \in DOMAIN lookup /\ lookup[t][1] \in {"ptr", "asn"}
queryRest == <<given, tokens, at, cadence, probe, result, tally, grace_over, errors, enriched, status>>

ask(t) ==
  /\ at = "enrich" /\ resolvers > 0 /\ t \in DOMAIN lookup /\ lookup[t][1] = "pending"
  /\ Cardinality({u \in DOMAIN lookup : Asking(u)}) < MaxDnsQueries
  /\ lookup' = [lookup EXCEPT ![t] = Query("ptr", 1, FALSE)]
  /\ UNCHANGED queryRest

(* The query is answered or refused for good, or goes to the next resolver. *)
Ends(t, bad) ==
  lookup' = [lookup EXCEPT ![t] =
               IF @[1] = "ptr" /\ needs_asn THEN Query("asn", 1, bad)
               ELSE Query("answered", 0, bad)]

query_any(t) ==
  /\ at = "enrich" /\ Asking(t)
  /\ \/ Ends(t, lookup[t][3])
     \/ lookup[t][2] < resolvers /\ lookup' = [lookup EXCEPT ![t][2] = @ + 1]
     \/ (lookup[t][2] = resolvers \/ run_token \/ token) /\ Ends(t, TRUE)
  /\ UNCHANGED queryRest

enrich_stopped ==
  /\ at = "enrich" /\ resolvers > 0
  /\ \/ token /\ status' = "Cancelled"
     \/ status' = "TimedOut"
  /\ Note({"run"}) /\ run_token' = TRUE /\ at' = "finish"
  /\ UNCHANGED <<given, token, probe_token, cadence, probe, result, tally, grace_over, names>>

enriched_all ==
  /\ at = "enrich" /\ resolvers > 0
  /\ \A t \in DOMAIN lookup : lookup[t][1] = "answered"
  /\ LET bad == \E t \in DOMAIN lookup : lookup[t][3] IN
       /\ status' = IF token THEN "Cancelled" ELSE status
       /\ enriched' = (~token /\ ~bad)
       /\ Note((IF token THEN {"run"} ELSE {}) \cup (IF bad THEN {"name"} ELSE {}))
  /\ at' = "finish"
  /\ UNCHANGED <<given, tokens, cadence, probe, result, tally, grace_over, lookup>>

(* Names that were not found count only for an AS trace. *)
finish ==
  /\ at = "finish" /\ at' = "done"
  /\ LET all == errors \cup (IF status = "Completed" /\ Answered = {} THEN {"silent"} ELSE {})
         counted == IF needs_asn THEN all ELSE all \ {"name"}
     IN  /\ errors' = all
         /\ status' = IF status = "Completed" /\ counted # {} THEN "PartialFailure" ELSE status
  /\ run_token' = TRUE
  /\ UNCHANGED <<given, token, probe_token, cadence, probe, result, tally, grace_over, names>>

Cancel ==
  /\ ~token /\ at # "done"
  /\ token' = TRUE
  /\ UNCHANGED <<given, run_token, probe_token, at, cadence, probe, result, tally, grace_over,
                 errors, names, status>>

----------------------------------------------------------------------------
(* The run's own steps, its timers among them. *)
Own ==
  \/ cancelled \/ deadline \/ final_grace \/ dispatch \/ collected
  \/ NoResolver \/ enrich_stopped \/ enriched_all \/ finish
  \/ \E t \in Ttl : ask(t)

(* A thread ends, or a resolver answers or is given up: perhaps never. *)
Answer ==
  \/ \E p \in Probes : join(p) \/ collect(p)
  \/ \E t \in Ttl : query_any(t)

Run == Own \/ Answer

TraceNext == Run \/ Cancel

TraceSpec == TraceInit /\ [][TraceNext]_vars /\ WF_vars(Own)

----------------------------------------------------------------------------
Sent == {p \in Probes : probe[p] # "none"}
Joined(c) == {p \in Sent : p[1] = c /\ probe[p] = "joined" /\ result[p] # "panic"}
WasSent(c) == {p \in Sent : p[1] = c}
OverCycles == {c \in Cycle : c < cycles /\ WasSent(c) = Joined(c)}

(* The cycles counted as completed are those that were sent whole and whose   *)
(* probes all came back, each of them once, in whatever order they end; and   *)
(* the run stops for failures only when as many whole cycles have failed      *)
(* (lib.rs:459-493, 539-543).                                                 *)
CyclesAreCounted ==
  /\ completed = Cardinality(OverCycles)
  /\ streak <= Cardinality({c \in OverCycles : \A p \in WasSent(c) : result[p] \notin Ok})

(* A completed run sent every cycle to its end and lost no probe: each that   *)
(* was sent is in the statistics, as answered or as lost and never as broken  *)
(* off; no error was noted but a missing name (lib.rs:445-643, 746-757).      *)
CompletedIsWhole ==
  at = "done" /\ status = "Completed" =>
    /\ cycles = Cycles /\ completed = Cycles /\ Tasks = {} /\ In("aborted") = {}
    /\ \A p \in Sent : result[p] # "Cancelled" =>
         Cardinality({r \in recorded : r[1] = p[1] /\ r[2] = p[2]}) = 1
    /\ \A r \in recorded : r[3] # "cancelled"
    /\ errors \subseteq {"name"} /\ (needs_asn => enriched)
    /\ enriched => \A t \in DOMAIN lookup : resolvers > 0 => lookup[t] = Query("answered", 0, FALSE)

(* A run ends although its threads may never end and its resolvers may never  *)
(* answer: the timers of the loop, of the collection and of the lookups break *)
(* the wait for them (lib.rs:445-462, 535-570, 601-627).                      *)
TraceEnds == <>(at = "done")

(* What a trace reports: its cycles, and all of them when it completed. *)
TraceIsWhole == CyclesAreCounted /\ CompletedIsWhole
============================================================================
