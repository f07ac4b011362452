--------------------------- MODULE HelperService ---------------------------
(***************************************************************************)
(* The privileged helper: the HelperServer of helper/src/server.rs inside  *)
(* the Linux service of helper/src/platform/linux.rs, its clients, and     *)
(* the processes that remove it.                                           *)
(*                                                                         *)
(* A connection carries one signed operation and is dropped by its client  *)
(* to give up.  CancelRun, PrepareRemoval and AbortRemoval come on         *)
(* connections of their own; the service answers each without a pause, so  *)
(* they are single steps here.  An operation's native work runs on a       *)
(* blocking thread that outlives the future awaiting it and may be slow to *)
(* notice a cancellation.                                                  *)
(***************************************************************************)
EXTENDS Naturals, FiniteSets

CONSTANTS
  Conns,       \* connections that carry an operation
  RunIds,      \* the runs the operations belong to
  Requests,    \* the run ids the operations may have been sent with
  Removers,    \* processes that remove the helper
  NoConn,      \* nobody
  Removal,     \* the removal reservation, as a holder of the permit
  MaxPending,  \* MAX_PENDING_CANCELLATIONS
  MaxStarts    \* bound: how often the service is started

ASSUME HelperAssumption ==
  /\ Requests \subseteq [Conns -> RunIds]
  /\ {NoConn, Removal} \cap Conns = {} /\ NoConn # Removal
  /\ MaxPending \in Nat /\ MaxStarts \in Nat \ {0}

VARIABLES
  RunOf,        \* the run id in each operation's request
  up,           \* the service process listens
  starts,       \* how often it was started
  stopping,     \* its shutdown token is cancelled
  permit,       \* holder of Service.admission, a semaphore of one
  active,       \* AdmissionState.active: whose token each run id leads to
  pending,      \* AdmissionState.pending_cancellations
  quarantined,  \* AdmissionState.quarantined
  token,        \* the operation's cancellation token
  closed,       \* the connection is gone or told to stop
  server,       \* where the service is with each connection
  work,         \* the operation's native work
  client,       \* where each client is
  remover,      \* where each remover is
  prepared,     \* the start of the service that reserved the slot for each remover; 0 if none
  undone        \* the removers whose reservation another one has taken back

admissionVars == <<active, pending, quarantined>>
processVars   == <<up, starts, stopping>>
removalVars   == <<remover, prepared, undone>>
vars == <<processVars, permit, admissionVars, token, closed, server, work,
          client, removalVars>>

----------------------------------------------------------------------------
ServerStep == {"none", "arrived", "permitted", "running", "cleanup", "expired",
               "completing", "dropping", "returning", "over"}
ClientStep == {"idle", "waiting", "cancelling", "grace", "done"}
RemoverStep == {"idle", "prepare", "stop", "polling", "abort", "done"}

(* Between a successful admit and the drop of its ActiveRunGuard. *)
Admitted == {"running", "cleanup", "expired", "completing", "dropping"}
InService == Admitted \cup {"arrived", "permitted", "returning"}

Working == {c \in Conns : work[c] = "running"}

(* A new service process. *)
Fresh ==
  /\ permit' = NoConn
  /\ active' = [i \in RunIds |-> NoConn]
  /\ pending' = {}
  /\ quarantined' = FALSE
  /\ stopping' = FALSE

HelperInit ==
  /\ RunOf \in Requests
  /\ up = TRUE /\ starts = 1 /\ stopping = FALSE
  /\ permit = NoConn
  /\ active = [i \in RunIds |-> NoConn]
  /\ pending = {} /\ quarantined = FALSE
  /\ token = [c \in Conns |-> FALSE]
  /\ closed = [c \in Conns |-> FALSE]
  /\ server = [c \in Conns |-> "none"]
  /\ work = [c \in Conns |-> "none"]
  /\ client = [c \in Conns |-> "idle"]
  /\ remover = [m \in Removers |-> "idle"]
  /\ prepared = [m \in Removers |-> 0] /\ undone = {}

At(c, step) == server[c] = step
Goto(c, step) == server' = [server EXCEPT ![c] = step]

----------------------------------------------------------------------------
(* Service.handle, for an operation. *)

TryPermit(c) ==
  /\ At(c, "arrived")
  /\ IF permit = NoConn
     THEN permit' = c /\ Goto(c, "permitted")
     ELSE UNCHANGED permit /\ Goto(c, "over")
  /\ UNCHANGED <<processVars, admissionVars, token, closed, work, client, removalVars>>

(* HelperServer.handle before admit: authorization, verify, replay, validate. *)
Reject(c) ==
  /\ At(c, "permitted")
  /\ Goto(c, "returning")
  /\ UNCHANGED <<processVars, permit, admissionVars, token, closed, work, client, removalVars>>

(* Mutant: a cancellation that came first is forgotten. *)
cancelled_before_Forgotten(i) == FALSE

(* A cancellation of this run came before its operation. *)
cancelled_before(i) == i \in pending

(* AdmissionState lets one run in, behind the permit once more. *)
idle == \A i \in RunIds : active[i] = NoConn

(* The quarantine first, then a cancellation that came before, then the active *)
(* run.  The token is a child of the connection's; dispatch starts the work.   *)
admit(c) ==
  /\ At(c, "permitted")
  /\ \/ /\ quarantined \/ (~cancelled_before(RunOf[c]) /\ ~idle)
        /\ Goto(c, "returning")
        /\ UNCHANGED <<active, pending, token, work>>
     \/ /\ ~quarantined /\ cancelled_before(RunOf[c])
        /\ pending' = pending \ {RunOf[c]}
        /\ token' = [token EXCEPT ![c] = TRUE]
        /\ Goto(c, "returning")
        /\ UNCHANGED <<active, work>>
     \/ /\ ~quarantined /\ ~cancelled_before(RunOf[c]) /\ idle
        /\ active' = [active EXCEPT ![RunOf[c]] = c]
        /\ token' = [token EXCEPT ![c] = closed[c]]
        /\ work' = [work EXCEPT ![c] = "running"]
        /\ Goto(c, "running")
        /\ UNCHANGED pending
  /\ UNCHANGED <<processVars, permit, quarantined, closed, client, removalVars>>

(* The native work ends when it ends, cancelled or not, awaited or not. *)
WorkEnds(c) ==
  /\ up
  /\ work[c] = "running"
  /\ work' = [work EXCEPT ![c] = "over"]
  /\ UNCHANGED <<processVars, permit, admissionVars, token, closed, server,
                 client, removalVars>>

(* The select! of HelperServer.handle: the result, or the lost connection and *)
(* the wait for a cleanup, which ends or runs into its timeout.               *)
Disconnected(c) ==
  /\ At(c, "running") /\ closed[c]
  /\ token' = [token EXCEPT ![c] = TRUE]
  /\ Goto(c, "cleanup")
  /\ UNCHANGED <<processVars, permit, admissionVars, closed, work, client, removalVars>>

Finished(c) ==
  /\ server[c] \in {"running", "cleanup"}
  /\ work[c] = "over"
  /\ Goto(c, "completing")
  /\ UNCHANGED <<processVars, permit, admissionVars, token, closed, work, client, removalVars>>

(* Mutant: the cleanup is waited for as long as it takes. *)
CleanupTimesOut_Never(c) == FALSE

CleanupTimesOut(c) ==
  /\ At(c, "cleanup")
  /\ work[c] = "running"
  /\ Goto(c, "expired")
  /\ UNCHANGED <<processVars, permit, admissionVars, token, closed, work, client, removalVars>>

(* ActiveRunGuard.complete removes the run and unlocks; dropping the guard     *)
(* cancels the token and removes the run again.  An unfinished guard          *)
(* quarantines the helper.                                                    *)
complete(c) ==
  /\ At(c, "completing")
  /\ active' = [active EXCEPT ![RunOf[c]] = NoConn]
  /\ Goto(c, "dropping")
  /\ UNCHANGED <<processVars, permit, pending, quarantined, token, closed, work,
                 client, removalVars>>

(* Mutant: an unfinished guard is dropped like a finished one. *)
drop_guard_NoQuarantine(c) ==
  /\ server[c] \in {"dropping", "expired"}
  /\ token' = [token EXCEPT ![c] = TRUE]
  /\ active' = [active EXCEPT ![RunOf[c]] = NoConn]
  /\ Goto(c, "returning")
  /\ UNCHANGED <<processVars, permit, pending, quarantined, closed, work,
                 client, removalVars>>

(* Mutant: the quarantine is set from this guard alone. *)
drop_guard_Overwrites(c) ==
  /\ server[c] \in {"dropping", "expired"}
  /\ token' = [token EXCEPT ![c] = TRUE]
  /\ active' = [active EXCEPT ![RunOf[c]] = NoConn]
  /\ quarantined' = At(c, "expired")
  /\ Goto(c, "returning")
  /\ UNCHANGED <<processVars, permit, pending, closed, work, client, removalVars>>

drop_guard(c) ==
  /\ server[c] \in {"dropping", "expired"}
  /\ token' = [token EXCEPT ![c] = TRUE]
  /\ active' = [active EXCEPT ![RunOf[c]] = NoConn]
  /\ quarantined' = (quarantined \/ At(c, "expired"))
  /\ Goto(c, "returning")
  /\ UNCHANGED <<processVars, permit, pending, closed, work, client, removalVars>>

(* serve_connection stops an operation at OPERATION_TIMEOUT. *)
OperationTimesOut(c) ==
  /\ server[c] \in {"permitted", "running"} /\ ~closed[c]
  /\ closed' = [closed EXCEPT ![c] = TRUE]
  /\ UNCHANGED <<processVars, permit, admissionVars, token, server, work, client, removalVars>>

(* The permit goes, and the reply. *)
Return(c) ==
  /\ At(c, "returning")
  /\ permit' = NoConn
  /\ Goto(c, "over")
  /\ UNCHANGED <<processVars, admissionVars, token, closed, work, client, removalVars>>

Serve(c) ==
  \/ TryPermit(c) \/ Reject(c) \/ admit(c) \/ Disconnected(c) \/ Finished(c)
  \/ CleanupTimesOut(c) \/ complete(c) \/ drop_guard(c) \/ OperationTimesOut(c)
  \/ Return(c)

----------------------------------------------------------------------------
(* HelperServer.cancel_run: the active run, or a note for the one to come; a  *)
(* full table of notes quarantines the helper.                                *)
cancel_run(i) ==
  \/ /\ active[i] # NoConn
     /\ token' = [token EXCEPT ![active[i]] = TRUE]
     /\ UNCHANGED admissionVars
  \/ /\ active[i] = NoConn /\ Cardinality(pending) >= MaxPending
     /\ quarantined' = TRUE
     /\ UNCHANGED <<active, pending, token>>
  \/ /\ active[i] = NoConn /\ Cardinality(pending) < MaxPending
     /\ pending' = pending \cup {i}
     /\ UNCHANGED <<active, quarantined, token>>

(* A note is dropped after PENDING_CANCELLATION_TTL, 300 s: long after the     *)
(* cancelling client's grace and the reading of its request, 10 s and 5 s.    *)
ExpirePending(i) ==
  /\ up
  /\ i \in pending
  /\ \A c \in Conns :
       RunOf[c] = i => client[c] # "grace" /\ server[c] \notin {"arrived", "permitted"}
  /\ pending' = pending \ {i}
  /\ UNCHANGED <<processVars, permit, active, quarantined, token, closed, server, work,
                 client, removalVars>>

----------------------------------------------------------------------------
(* The client of an operation: exchange and roundtrip. *)

Send(c) ==
  /\ client[c] = "idle"
  /\ IF up /\ ~stopping THEN client' = [client EXCEPT ![c] = "waiting"] /\ Goto(c, "arrived")
                        ELSE client' = [client EXCEPT ![c] = "done"] /\ UNCHANGED server
  /\ UNCHANGED <<processVars, permit, admissionVars, token, closed, work, removalVars>>

(* The user cancels; the answer is not looked at until CancelRun is answered. *)
UserCancels(c) ==
  /\ client[c] = "waiting"
  /\ client' = [client EXCEPT ![c] = "cancelling"]
  /\ UNCHANGED <<processVars, permit, admissionVars, token, closed, server, work,
                 removalVars>>

CancelRun(c) ==
  /\ up /\ ~stopping
  /\ client[c] = "cancelling"
  /\ cancel_run(RunOf[c])
  /\ client' = [client EXCEPT ![c] = "grace"]
  /\ UNCHANGED <<processVars, permit, closed, server, work, removalVars>>

(* The deadline, a failed CancelRun, the end of the grace period or the end of *)
(* the client: the connection is dropped.                                      *)
GiveUp(c) ==
  /\ client[c] \in {"waiting", "cancelling", "grace"}
  /\ client' = [client EXCEPT ![c] = "done"]
  /\ closed' = [closed EXCEPT ![c] = TRUE]
  /\ UNCHANGED <<processVars, permit, admissionVars, token, server, work, removalVars>>

Receive(c) ==
  /\ client[c] \in {"waiting", "grace"}
  /\ At(c, "over")
  /\ client' = [client EXCEPT ![c] = "done"]
  /\ UNCHANGED <<processVars, permit, admissionVars, token, closed, server, work,
                 removalVars>>

Client(c) == Send(c) \/ UserCancels(c) \/ CancelRun(c) \/ GiveUp(c) \/ Receive(c)

----------------------------------------------------------------------------
(* The service process: its shutdown, its end by itself or by a crash, and a   *)
(* start by the service manager.                                               *)

StopUnit ==
  /\ stopping' = up
  /\ closed' = [c \in Conns |-> closed[c] \/ (up /\ server[c] \in InService)]
  /\ UNCHANGED <<up, starts>>

Exit ==
  /\ up /\ up' = FALSE
  /\ Fresh
  /\ server' = [c \in Conns |-> IF server[c] \in InService THEN "over" ELSE server[c]]
  /\ work' = [c \in Conns |-> IF work[c] = "running" THEN "over" ELSE work[c]]
  /\ UNCHANGED <<starts, token, closed, client, removalVars>>

StartUnit ==
  /\ ~up /\ starts < MaxStarts
  /\ up' = TRUE /\ starts' = starts + 1
  /\ UNCHANGED <<stopping, permit, admissionVars, token, closed, server, work,
                 client, removalVars>>

----------------------------------------------------------------------------
(* remove(), in a process of its own. *)

RemoverGoto(m, step) == remover' = [remover EXCEPT ![m] = step]
serviceVars == <<admissionVars, token, server, work, client>>

CheckStatus(m) ==
  /\ remover[m] = "idle"
  /\ RemoverGoto(m, IF up /\ ~stopping THEN "prepare" ELSE "stop")
  /\ UNCHANGED <<processVars, permit, closed, serviceVars, prepared, undone>>

(* Mutant: the reservation does not ask for the permit. *)
PrepareRemoval_Unchecked(m) ==
  /\ remover[m] = "prepare"
  /\ permit' = Removal
  /\ prepared' = [prepared EXCEPT ![m] = starts] /\ undone' = undone \ {m}
  /\ RemoverGoto(m, "stop")
  /\ UNCHANGED <<processVars, closed, serviceVars>>

(* An existing reservation is good enough, whoever made it. *)
PrepareRemoval(m) ==
  /\ remover[m] = "prepare"
  /\ IF up /\ permit \in {NoConn, Removal}
     THEN /\ permit' = Removal
          /\ prepared' = [prepared EXCEPT ![m] = starts] /\ undone' = undone \ {m}
          /\ RemoverGoto(m, "stop")
     ELSE UNCHANGED <<permit, prepared, undone>> /\ RemoverGoto(m, "done")
  /\ UNCHANGED <<processVars, closed, serviceVars>>

(* Who reserved nothing takes nothing back. *)
AfterFailure(m) == IF prepared[m] # 0 THEN "abort" ELSE "done"

(* The service manager stops the unit, or denies it. *)
RequestStop(m) ==
  /\ remover[m] = "stop"
  /\ \/ StopUnit /\ RemoverGoto(m, "polling")
     \/ RemoverGoto(m, AfterFailure(m)) /\ UNCHANGED <<processVars, closed>>
  /\ UNCHANGED <<permit, serviceVars, prepared, undone>>

(* Until the socket is gone, for ten seconds. *)
Poll(m) ==
  /\ remover[m] = "polling"
  /\ RemoverGoto(m, IF up THEN AfterFailure(m) ELSE "done")
  /\ UNCHANGED <<processVars, permit, closed, serviceVars, prepared, undone>>

(* It takes the reservation back for everyone who counts on it. *)
AbortRemoval(m) ==
  /\ remover[m] = "abort"
  /\ undone' = (undone \cup {n \in Removers : prepared[n] # 0}) \ {m}
  /\ permit' = IF permit = Removal THEN NoConn ELSE permit
  /\ prepared' = [prepared EXCEPT ![m] = 0]
  /\ RemoverGoto(m, "done")
  /\ UNCHANGED <<processVars, closed, serviceVars>>

(* A remover that ends early takes nothing back. *)
RemoverEnds(m) ==
  /\ remover[m] \notin {"idle", "done"}
  /\ RemoverGoto(m, "done")
  /\ prepared' = [prepared EXCEPT ![m] = 0]
  /\ UNCHANGED <<processVars, permit, closed, serviceVars, undone>>

Remove(m) ==
  CheckStatus(m) \/ PrepareRemoval(m) \/ RequestStop(m) \/ Poll(m) \/ AbortRemoval(m)
  \/ RemoverEnds(m)

----------------------------------------------------------------------------
HelperNext ==
  /\ UNCHANGED RunOf
  /\ \/ \E c \in Conns : Serve(c) \/ WorkEnds(c) \/ Client(c)
     \/ \E i \in RunIds : ExpirePending(i)
     \/ \E m \in Removers : Remove(m)
     \/ Exit \/ StartUnit

(* The service's tasks go on, and so do a cancelling client's timers. *)
HelperFairness ==
  /\ \A c \in Conns : WF_vars(Serve(c))
  /\ \A c \in Conns : WF_vars(CancelRun(c) \/ (client[c] # "waiting" /\ GiveUp(c)))

HelperSpec == HelperInit /\ [][HelperNext]_<<vars, RunOf>> /\ HelperFairness
----------------------------------------------------------------------------
HelperTypeOK ==
  /\ RunOf \in Requests
  /\ up \in BOOLEAN /\ stopping \in BOOLEAN /\ starts \in 1..MaxStarts
  /\ permit \in Conns \cup {NoConn, Removal}
  /\ active \in [RunIds -> Conns \cup {NoConn}]
  /\ pending \subseteq RunIds /\ Cardinality(pending) <= MaxPending
  /\ quarantined \in BOOLEAN
  /\ token \in [Conns -> BOOLEAN] /\ closed \in [Conns -> BOOLEAN]
  /\ server \in [Conns -> ServerStep]
  /\ work \in [Conns -> {"none", "running", "over"}]
  /\ client \in [Conns -> ClientStep]
  /\ remover \in [Removers -> RemoverStep]
  /\ prepared \in [Removers -> 0..MaxStarts] /\ undone \subseteq Removers

(* One operation's native work runs at a time, orphans of a connection that   *)
(* was dropped included (server.rs:22, 122-153 and the quarantine of 61-71).  *)
OneOperation == \A c, d \in Working : c = d

(* An entry of active is the run being served: without that a run could be    *)
(* cancelled by nobody, or its completion let another in (server.rs:49-71).   *)
ActiveIsServed ==
  \A c \in Conns : server[c] \in {"running", "cleanup", "completing"} => active[RunOf[c]] = c

(* No work starts in a quarantined helper, and the quarantine lasts as long   *)
(* as the process (server.rs:131-135).                                        *)
QuarantineHolds ==
  [][ (quarantined /\ up') => quarantined' /\ Working' \subseteq Working ]_vars

(* While a remover counts on its reservation the slot is held for it and no   *)
(* operation is admitted, unless another remover has taken the reservation    *)
(* back: two that overlap share one, and the first to abort releases it for   *)
(* both.  Then an operation may begin and the second one stops the service    *)
(* under it, against deployment/helper/linux/README.md:31-33 (linux.rs:459-   *)
(* 480).                                                                      *)
ReservationHolds ==
  \A m \in Removers \ undone : up /\ prepared[m] = starts => permit = Removal

(* An operation whose cancellation was answered before it was admitted never  *)
(* starts, whichever connection the service gets to first, when no other      *)
(* operation has its run id (server.rs:136-139, 167-174).                     *)
CancelledNeverStarts ==
  [][ \A c \in Conns :
        /\ client[c] = "grace" /\ work[c] = "none"
        /\ \A d \in Conns \ {c} : RunOf[d] # RunOf[c]
        => work'[c] = "none" ]_vars

(* Every cancelled request ends, and the service is done with it: the work    *)
(* ended or the helper is quarantined (server.rs:106-117, linux.rs:262-272).   *)
CancelResolves ==
  \A c \in Conns :
    client[c] = "cancelling" ~> (client[c] = "done" /\ server[c] \notin InService)

(* What admission and removal rely on is so: the table, and the reservation   *)
(* up to what another remover takes back (server.rs:49-71; linux.rs:459-480). *)
AdmissionHolds == HelperTypeOK /\ ActiveIsServed /\ ReservationHolds
============================================================================
