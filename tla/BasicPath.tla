----------------------------- MODULE BasicPath -----------------------------
(***************************************************************************)
(* execute_item of path-basic/lib.rs: ping, trace, path statistics and a   *)
(* TCP connection to one host, the first three in blocking threads whose   *)
(* probes PacedRunner paces.  The caller may cancel at any time, or drop   *)
(* the call and leave the thread behind.                                   *)
(***************************************************************************)
EXTENDS PacedRunner, Functions

CONSTANTS PingCount, MaxHops, PathpingProbes   \* BasicSettings, as small

ASSUME BasicAssumption ==
  /\ {PingCount, MaxHops, PathpingProbes} \subseteq Nat \ {0}
  /\ PingCount <= Jobs /\ MaxHops * PathpingProbes <= Jobs

VARIABLES
  skip,        \* skip_pathping
  stage,       \* where execute_item is
  cancelled,   \* its local flag
  failed,      \* failed_stages
  ping,        \* what the pings came to
  hops,        \* what the hops of the trace came to
  statistics,  \* what the probes of the path statistics came to, or "none"
  tcp_ok,
  status,      \* BasicRunResult.status
  dropped      \* the caller dropped the call

itemVars == <<skip, stage, cancelled, failed, ping, hops, statistics, tcp_ok, status>>
vars == <<token, scoped, dropped, runnerVars, itemVars>>

Outcomes == [n \in 1..Len(completed) |-> outcome[completed[n]]]
Has(results, what) == \E n \in 1..Len(results) : results[n] = what
Reached == Has(hops, "reply")

BasicInit ==
  /\ RunnerInit
  /\ token = FALSE /\ scoped = FALSE /\ dropped = FALSE
  /\ skip \in BOOLEAN
  /\ stage = "resolve" /\ cancelled = FALSE /\ failed = <<>>
  /\ ping = <<>> /\ hops = <<>> /\ statistics = <<"none">>
  /\ tcp_ok = FALSE /\ status = "none"

Idle == UNCHANGED runnerVars
Callers == UNCHANGED <<token, scoped, dropped>>

(* The stage is over; the flag is brought up to date before the next. *)
Next_stage(wanted) ==
  LET now == cancelled' \/ token
  IN  stage' = IF now THEN "judge" ELSE wanted

record_stage_error(name, error) ==
  /\ cancelled' = (cancelled \/ token \/ error = "Cancelled")
  /\ failed' = Append(failed, name)
record_none == cancelled' = (cancelled \/ token) /\ UNCHANGED failed

----------------------------------------------------------------------------
resolve_target ==
  /\ stage = "resolve"
  /\ \/ ~token /\ stage' = "ping" /\ Begin("sequential", PingCount) /\ UNCHANGED status
     \/ stage' = "error" /\ status' = (IF token THEN "Cancelled" ELSE "Dns") /\ Idle
  /\ UNCHANGED <<skip, cancelled, failed, ping, hops, statistics, tcp_ok>> /\ Callers

(* ping_with_probe: a cancelled run keeps the samples it has. *)
ping_ends ==
  /\ stage = "ping" /\ at = "returned"
  /\ IF failure = "none" \/ (failure = "Cancelled" /\ completed # <<>>)
     THEN ping' = Outcomes /\ record_none
     ELSE record_stage_error("Ping", failure) /\ UNCHANGED ping
  /\ Next_stage("trace")
  /\ UNCHANGED <<skip, hops, statistics, tcp_ok, status>> /\ Idle /\ Callers

(* trace_scoped: one hop after the other, until the target answers. *)
hop ==
  /\ stage = "trace" /\ ~Reached /\ Len(hops) < MaxHops /\ ~Has(hops, "cancelled")
  /\ \E what \in {"reply", "timeout"} \cup (IF CallerCancelled THEN {"cancelled"} ELSE {}) :
       hops' = Append(hops, what)
  /\ UNCHANGED <<skip, stage, cancelled, failed, ping, statistics, tcp_ok, status>>
  /\ Idle /\ Callers

AfterTrace == IF skip THEN "tcp" ELSE "pathping"
BeginStatistics ==
  IF stage' = "pathping" THEN Begin("concurrent", PathpingProbes * Len(hops)) ELSE Idle

(* The call gets the hops. *)
trace_ends ==
  /\ stage = "trace" /\ ~dropped
  /\ Reached \/ Len(hops) = MaxHops \/ (token /\ hops # <<>>)
  /\ record_none /\ Next_stage(AfterTrace) /\ BeginStatistics
  /\ UNCHANGED <<skip, ping, hops, statistics, tcp_ok, status>> /\ Callers

(* A cancellation before the first hop or an error at any hop loses the hops. *)
trace_fails ==
  /\ stage = "trace" /\ ~dropped /\ ~Reached /\ Len(hops) < MaxHops
  /\ \E error \in {"Error"} \cup (IF token /\ hops = <<>> THEN {"Cancelled"} ELSE {}) :
       record_stage_error("Tracert", error)
  /\ hops' = <<>>
  /\ LET now == cancelled' IN
       /\ stage' = IF now THEN "judge" ELSE AfterTrace
       /\ IF ~now /\ ~skip THEN Begin("concurrent", 0) ELSE Idle
  /\ UNCHANGED <<skip, ping, statistics, tcp_ok, status>> /\ Callers

(* measure_hops_with_probe: as for the pings. *)
pathping_ends ==
  /\ stage = "pathping" /\ at = "returned"
  /\ IF failure = "none" \/ (failure = "Cancelled" /\ completed # <<>>)
     THEN statistics' = Outcomes /\ record_none
     ELSE record_stage_error("Pathping", failure) /\ UNCHANGED statistics
  /\ Next_stage("tcp")
  /\ UNCHANGED <<skip, ping, hops, tcp_ok, status>> /\ Idle /\ Callers

test_tcp ==
  /\ stage = "tcp"
  /\ \/ tcp_ok' \in BOOLEAN /\ record_none
     \/ /\ \E error \in {"Error"} \cup (IF token THEN {"Cancelled"} ELSE {}) :
             record_stage_error("Tcp", error)
        /\ UNCHANGED tcp_ok
  /\ stage' = "judge"
  /\ UNCHANGED <<skip, ping, hops, statistics, status>> /\ Idle /\ Callers

Outcome(name, bad) == IF bad /\ ~Has(failed, name) THEN <<name>> ELSE <<>>

(* Mutant: an outcome is added to a stage that has failed already. *)
judge_Twice ==
  /\ stage = "judge" /\ stage' = "status"
  /\ cancelled' = (cancelled \/ token)
  /\ failed' = IF cancelled' THEN failed
               ELSE failed \o (IF Has(ping, "reply") THEN <<>> ELSE <<"Ping">>)
                           \o (IF tcp_ok THEN <<>> ELSE <<"Tcp">>)
  /\ UNCHANGED <<skip, ping, hops, statistics, tcp_ok, status>> /\ Idle /\ Callers

(* The last part of execute_item: stages that ended well without an answer. *)
judge ==
  /\ stage = "judge" /\ stage' = "status"
  /\ cancelled' = (cancelled \/ token)
  /\ failed' = IF cancelled' THEN failed
               ELSE failed \o Outcome("Ping", ~Has(ping, "reply"))
                           \o Outcome("Tracert", ~Reached)
                           \o Outcome("Pathping", statistics # <<"none">> /\ ~Has(statistics, "reply"))
                           \o Outcome("Tcp", ~tcp_ok)
  /\ UNCHANGED <<skip, ping, hops, statistics, tcp_ok, status>> /\ Idle /\ Callers

(* The token is read once more for the status. *)
conclude ==
  /\ stage = "status" /\ stage' = "done"
  /\ status' = IF cancelled \/ token THEN "Cancelled"
               ELSE IF failed = <<>> THEN "Completed" ELSE "PartialFailure"
  /\ UNCHANGED <<skip, cancelled, failed, ping, hops, statistics, tcp_ok>> /\ Idle /\ Callers

----------------------------------------------------------------------------
(* The caller. *)
Cancel ==
  /\ ~token /\ stage \notin {"done", "error"}
  /\ token' = TRUE
  /\ UNCHANGED <<scoped, dropped, runnerVars, itemVars>>

(* The guard of run_blocking_probe cancels the thread that goes on. *)
Drop ==
  /\ ~dropped /\ stage \notin {"done", "error"}
  /\ dropped' = TRUE /\ scoped' = TRUE
  /\ UNCHANGED <<token, runnerVars, itemVars>>

Call == ~dropped /\ (resolve_target \/ ping_ends \/ trace_ends \/ trace_fails \/ pathping_ends
                      \/ test_tcp \/ judge \/ conclude)
Threads == (Runner \/ Workers) /\ UNCHANGED itemVars /\ Callers

BasicNext == Call \/ Threads \/ hop \/ Cancel \/ Drop

(* The task and its threads are scheduled; a probe has a timeout. *)
BasicSpec ==
  /\ BasicInit /\ [][BasicNext]_vars
  /\ WF_vars(Call) /\ WF_vars(hop) /\ WF_vars(Runner /\ UNCHANGED itemVars /\ Callers)
  /\ \A j \in Job : WF_vars(probe(j) /\ UNCHANGED itemVars /\ Callers)

----------------------------------------------------------------------------
Failed_in(name) == Has(failed, name)

(* A result that is not marked as cancelled is whole: each stage made every   *)
(* probe it planned or reports that it failed, no sample was broken off, and  *)
(* a completed one had an answer in every stage (path-basic/lib.rs:250-396).  *)
ResultIsWhole ==
  stage = "done" /\ status # "Cancelled" =>
    /\ Len(ping) = PingCount \/ Failed_in("Ping")
    /\ Reached \/ Failed_in("Tracert")
    /\ skip \/ Failed_in("Pathping") \/ Len(statistics) = PathpingProbes * Len(hops)
    /\ ~\E results \in {ping, hops, statistics} : Has(results, "cancelled")
    /\ (status = "Completed") = (failed = <<>>)
    /\ status = "Completed" => Has(ping, "reply") /\ tcp_ok /\ (skip \/ Has(statistics, "reply"))

(* A stage is reported as failed once, whatever way it fails, and the item    *)
(* as cancelled only if it was (path-basic/lib.rs:343-396, 444-458).          *)
FailuresAreDistinct ==
  /\ IsInjective(failed)
  /\ status = "Cancelled" => token

(* The call ends, and whether it ends or is dropped its threads do too        *)
(* (path-basic/lib.rs:423-442).                                               *)
PathEnds ==
  /\ <>(stage \in {"done", "error"} \/ dropped)
  /\ <>[](Unjoined = {})

(* What an item reports: all of its stages, and each failure once. *)
ReportIsWhole == ResultIsWhole /\ FailuresAreDistinct
============================================================================
