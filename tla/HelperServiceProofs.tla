------------------------ MODULE HelperServiceProofs ------------------------
(***************************************************************************)
(* Proofs about the helper's admission, for any connections, run ids,      *)
(* removers, starts and limit of early cancellations.                      *)
(*                                                                         *)
(* The permit is held by the one connection that is being served, and      *)
(* native work that nobody waits for any more has quarantined the helper.  *)
(***************************************************************************)
EXTENDS HelperService, FiniteSetTheorems, TLAPS

vars_all == <<vars, RunOf>>

(* From the permit to its return. *)
Served == {"permitted", "running", "cleanup", "expired", "completing", "dropping",
           "returning"}

Ranges ==
  /\ RunOf \in [Conns -> RunIds]
  /\ active \in [RunIds -> Conns \cup {NoConn}]
  /\ pending \subseteq RunIds
  /\ server \in [Conns -> ServerStep]
  /\ work \in [Conns -> {"none", "running", "over"}]
  /\ client \in [Conns -> ClientStep]

(* The connection being served holds the permit. *)
PermitIsServed == \A c \in Conns : server[c] \in Served => permit = c

(* Work goes on under the eyes of its connection, or in a quarantined helper. *)
WorkIsWatched ==
  \A c \in Conns :
    work[c] = "running" => server[c] \in {"running", "cleanup", "expired"} \/ quarantined

(* Nothing is served before it is sent. *)
UnsentIsUnknown ==
  \A c \in Conns : client[c] = "idle" => server[c] = "none" /\ work[c] = "none"

HInv ==
  /\ Ranges /\ PermitIsServed /\ WorkIsWatched /\ UnsentIsUnknown
  /\ OneOperation /\ ActiveIsServed

----------------------------------------------------------------------------
(* At first no connection is served and no work goes on (server.rs:74-81). *)
LEMMA HelperInitInv == HelperInit => HInv
BY HelperAssumption DEF HelperInit, HInv, Ranges, PermitIsServed, WorkIsWatched, OneOperation,
   ActiveIsServed, UnsentIsUnknown, Working, Served, ServerStep, ClientStep

(* A step that moves no connection, starts no work and lifts no quarantine. *)
LEMMA Aside ==
  ASSUME HInv, UNCHANGED <<RunOf, active, server>>, pending' \subseteq RunIds,
         quarantined => quarantined',
         work' \in [Conns -> {"none", "running", "over"}],
         client' \in [Conns -> ClientStep],
         \A c \in Conns :
           /\ work'[c] = "running" => work[c] = "running"
           /\ work[c] = "none" => work'[c] = "none"
           /\ client'[c] = "idle" => client[c] = "idle",
         permit' = permit \/ permit \notin Conns
  PROVE  HInv'
<1>1. Ranges'
  BY DEF HInv, Ranges
<1>2. PermitIsServed'
  BY DEF HInv, PermitIsServed
<1>3. WorkIsWatched'
  BY DEF HInv, WorkIsWatched
<1>4. UnsentIsUnknown'
  BY DEF HInv, UnsentIsUnknown
<1>5. OneOperation'
  BY DEF HInv, OneOperation, Working
<1>6. ActiveIsServed'
  BY DEF HInv, ActiveIsServed
<1> QED
  BY <1>1, <1>2, <1>3, <1>4, <1>5, <1>6 DEF HInv

(* A step that moves one connection, which has been sent, starts no work and  *)
(* changes no entry of a connection other than the one that holds the permit. *)
LEMMA Moves ==
  ASSUME HInv, NEW c \in Conns, NEW step \in ServerStep,
         UNCHANGED <<RunOf, work, client>>, pending' \subseteq RunIds,
         server' = [server EXCEPT ![c] = step],
         server[c] # "none",
         quarantined => quarantined',
         active' \in [RunIds -> Conns \cup {NoConn}],
         permit' = permit \/ permit \notin Conns \/ permit = c,
         step \in Served => permit' = c,
         work[c] = "running" => step \in {"running", "cleanup", "expired"} \/ quarantined',
         step \in {"running", "cleanup", "completing"} => active'[RunOf[c]] = c,
         active' # active => permit = c
  PROVE  HInv'
<1> USE DEF HInv
<1>1. Ranges'
  BY DEF Ranges
<1>2. PermitIsServed'
  BY DEF Ranges, PermitIsServed
<1>3. WorkIsWatched'
  BY DEF Ranges, WorkIsWatched
<1>4. UnsentIsUnknown'
  BY DEF Ranges, UnsentIsUnknown
<1>5. OneOperation'
  BY DEF OneOperation, Working
<1>6. ActiveIsServed'
  BY DEF Ranges, ActiveIsServed, PermitIsServed, Served
<1> QED
  BY <1>1, <1>2, <1>3, <1>4, <1>5, <1>6

----------------------------------------------------------------------------
(* The service, connection by connection. *)

(* Taking the permit and giving it back (linux.rs:483-489). *)
LEMMA PermitInv == ASSUME HInv, NEW c \in Conns, UNCHANGED RunOf, TryPermit(c) \/ Return(c)
                   PROVE  HInv'
<1>1. CASE TryPermit(c)
  <2>1. PICK step \in {"permitted", "over"} :
          /\ server' = [server EXCEPT ![c] = step]
          /\ step = "permitted" => permit' = c
    BY <1>1 DEF TryPermit, Goto
  <2>2. permit' = permit \/ permit \notin Conns
    BY <1>1, HelperAssumption DEF TryPermit
  <2> QED
    BY <1>1, <2>1, <2>2, Moves
    DEF TryPermit, At, admissionVars, processVars, removalVars, HInv, Ranges, WorkIsWatched,
        Served, ServerStep
<1>2. CASE Return(c)
  BY <1>2, Moves
  DEF Return, At, Goto, admissionVars, processVars, removalVars, HInv, Ranges, PermitIsServed,
      WorkIsWatched, Served, ServerStep
<1> QED
  BY <1>1, <1>2

(* A request that is refused before its admission (server.rs:89-101). *)
LEMMA RejectInv == ASSUME HInv, NEW c \in Conns, UNCHANGED RunOf, Reject(c) PROVE HInv'
BY Moves
DEF Reject, At, Goto, admissionVars, processVars, removalVars, HInv, Ranges, PermitIsServed,
    WorkIsWatched, Served, ServerStep

(* The three ends of the wait for an operation (server.rs:106-117). *)
LEMMA SelectInv ==
  ASSUME HInv, NEW c \in Conns, UNCHANGED RunOf,
         Disconnected(c) \/ Finished(c) \/ CleanupTimesOut(c)
  PROVE  HInv'
<1>1. CASE Disconnected(c)
  BY <1>1, Moves
  DEF Disconnected, At, Goto, admissionVars, processVars, removalVars, HInv, Ranges,
      PermitIsServed, ActiveIsServed, Served, ServerStep
<1>2. CASE Finished(c)
  BY <1>2, Moves
  DEF Finished, At, Goto, admissionVars, processVars, removalVars, HInv, Ranges,
      PermitIsServed, ActiveIsServed, Served, ServerStep
<1>3. CASE CleanupTimesOut(c)
  BY <1>3, Moves
  DEF CleanupTimesOut, At, Goto, admissionVars, processVars, removalVars, HInv, Ranges,
      PermitIsServed, ActiveIsServed, Served, ServerStep
<1> QED
  BY <1>1, <1>2, <1>3

(* The guard, completed or not: what it removes is its own entry or none. *)
LEMMA GuardInv ==
  ASSUME HInv, NEW c \in Conns, UNCHANGED RunOf, complete(c) \/ drop_guard(c)
  PROVE  HInv'
<1>1. permit = c
  BY DEF complete, drop_guard, At, HInv, PermitIsServed, Served
<1>2. active' \in [RunIds -> Conns \cup {NoConn}]
  BY DEF complete, drop_guard, HInv, Ranges
<1>3. CASE complete(c)
  BY <1>1, <1>2, <1>3, Moves
  DEF complete, At, Goto, processVars, removalVars, HInv, Ranges, WorkIsWatched, ServerStep
<1>4. CASE drop_guard(c)
  BY <1>1, <1>2, <1>4, Moves
  DEF drop_guard, At, Goto, processVars, removalVars, HInv, Ranges, WorkIsWatched, ServerStep
<1> QED
  BY <1>3, <1>4

(* Work starts only beside none: what runs elsewhere would hold the permit. *)
LEMMA AdmitInv == ASSUME HInv, NEW c \in Conns, UNCHANGED RunOf, admit(c) PROVE HInv'
<1> USE DEF HInv
<1>1. permit = c /\ permit' = c /\ server[c] = "permitted" /\ UNCHANGED <<quarantined, client>>
  BY DEF admit, At, PermitIsServed, Served
<1>2. CASE UNCHANGED <<active, work>> /\ server' = [server EXCEPT ![c] = "returning"]
           /\ pending' \subseteq pending
  BY <1>1, <1>2, Moves DEF Ranges, WorkIsWatched, Served, ServerStep
<1>3. CASE work' = [work EXCEPT ![c] = "running"] /\ ~quarantined
           /\ active' = [active EXCEPT ![RunOf[c]] = c]
           /\ server' = [server EXCEPT ![c] = "running"] /\ UNCHANGED pending
  <2>1. \A d \in Conns : work[d] # "running"
    BY <1>1, <1>3 DEF PermitIsServed, WorkIsWatched, Served
  <2>2. \A d \in Conns : server[d] \in Served => d = c
    BY <1>1 DEF PermitIsServed
  <2>3. Ranges' /\ PermitIsServed' /\ WorkIsWatched' /\ UnsentIsUnknown'
    BY <1>1, <1>3, <2>1
    DEF Ranges, PermitIsServed, WorkIsWatched, UnsentIsUnknown, ServerStep
  <2>4. OneOperation'
    BY <1>3, <2>1 DEF OneOperation, Working, Ranges
  <2>5. ActiveIsServed'
    BY <1>3, <2>2 DEF ActiveIsServed, Ranges, Served
  <2> QED
    BY <2>3, <2>4, <2>5
<1> QED
  BY <1>2, <1>3 DEF admit, Goto

(* The native work ends; the deadline of an operation. *)
LEMMA WorkInv ==
  ASSUME HInv, NEW c \in Conns, UNCHANGED RunOf, WorkEnds(c) \/ OperationTimesOut(c)
  PROVE  HInv'
BY Aside
DEF WorkEnds, OperationTimesOut, admissionVars, processVars, removalVars, HInv, Ranges

(* The client moves nothing of the service but what it sends and cancels     *)
(* (client's exchange and roundtrip; server.rs:155-175).                      *)
LEMMA ClientInv ==
  ASSUME HInv, NEW c \in Conns, UNCHANGED RunOf, Client(c)
  PROVE  HInv'
<1>1. CASE Send(c)
  <2> USE <1>1 DEF HInv
  <2>1. server[c] = "none" /\ work[c] = "none"
    BY DEF Send, UnsentIsUnknown
  <2>2. UNCHANGED <<permit, active, pending, quarantined, work>>
    BY DEF Send, admissionVars
  <2>3. client' = [client EXCEPT ![c] = IF up /\ ~stopping THEN "waiting" ELSE "done"]
    BY DEF Send
  <2>4. server' = IF up /\ ~stopping THEN [server EXCEPT ![c] = "arrived"] ELSE server
    BY DEF Send, Goto
  <2>5. Ranges' /\ UnsentIsUnknown'
    BY <2>2, <2>3, <2>4 DEF Ranges, UnsentIsUnknown, ServerStep, ClientStep
  <2>6. PermitIsServed' /\ WorkIsWatched'
    BY <2>1, <2>2, <2>4 DEF Ranges, PermitIsServed, WorkIsWatched, Served
  <2>7. OneOperation' /\ ActiveIsServed'
    BY <2>2, <2>4 DEF Ranges, OneOperation, ActiveIsServed, Working
  <2> QED
    BY <2>5, <2>6, <2>7
<1>2. CASE UserCancels(c)
  BY <1>2, Aside
  DEF UserCancels, admissionVars, processVars, removalVars, HInv, Ranges, ClientStep
<1>3. CASE CancelRun(c)
  BY <1>3, Aside
  DEF CancelRun, cancel_run, admissionVars, processVars, removalVars, HInv, Ranges, ClientStep
<1>4. CASE GiveUp(c)
  BY <1>4, Aside
  DEF GiveUp, admissionVars, processVars, removalVars, HInv, Ranges, ClientStep
<1>5. CASE Receive(c)
  BY <1>5, Aside
  DEF Receive, admissionVars, processVars, removalVars, HInv, Ranges, ClientStep
<1> QED
  BY <1>1, <1>2, <1>3, <1>4, <1>5 DEF Client

(* A note expires, the unit starts: nobody moves. *)
LEMMA IdleInv ==
  ASSUME HInv, UNCHANGED RunOf,
         StartUnit \/ \E i \in RunIds : ExpirePending(i)
  PROVE  HInv'
BY Aside
DEF StartUnit, ExpirePending, admissionVars, processVars, removalVars, HInv, Ranges

(* With the process go its work, its permit and its connections. *)
LEMMA ExitInv == ASSUME HInv, UNCHANGED RunOf, Exit PROVE HInv'
<1> USE DEF HInv
<1>1. \A c \in Conns : work'[c] # "running" /\ server'[c] \notin InService
  BY DEF Exit, Ranges, InService, Admitted
<1>2. Ranges'
  BY DEF Exit, Fresh, Ranges, ServerStep
<1>3. UnsentIsUnknown'
  BY DEF Exit, Ranges, UnsentIsUnknown, InService, Admitted
<1>4. PermitIsServed' /\ WorkIsWatched' /\ OneOperation' /\ ActiveIsServed'
  BY <1>1 DEF PermitIsServed, WorkIsWatched, OneOperation, ActiveIsServed, Working, Served,
     InService, Admitted
<1> QED
  BY <1>2, <1>3, <1>4

(* A remover takes the permit from nobody and gives back only its own. *)
LEMMA RemoveInv == ASSUME HInv, NEW m \in Removers, UNCHANGED RunOf, Remove(m) PROVE HInv'
<1>1. permit' = permit \/ permit \notin Conns
  BY HelperAssumption
  DEF Remove, CheckStatus, PrepareRemoval, RequestStop, Poll, AbortRemoval, RemoverEnds
<1>2. UNCHANGED <<active, pending, quarantined, server, work, client>>
  BY DEF Remove, CheckStatus, PrepareRemoval, RequestStop, Poll, AbortRemoval, RemoverEnds,
     serviceVars, admissionVars
<1> QED
  BY <1>1, <1>2, Aside DEF HInv, Ranges

(* Every step keeps the invariant (server.rs:83-175, linux.rs:446-491). *)
LEMMA HelperStepInv == HInv /\ [HelperNext]_vars_all => HInv'
<1> SUFFICES ASSUME HInv, [HelperNext]_vars_all PROVE HInv'
  OBVIOUS
<1>1. CASE UNCHANGED vars_all
  BY <1>1, Aside DEF vars_all, vars, admissionVars, HInv, Ranges
<1>2. ASSUME NEW c \in Conns, UNCHANGED RunOf, Serve(c) PROVE HInv'
  BY <1>2, PermitInv, RejectInv, AdmitInv, SelectInv, GuardInv, WorkInv DEF Serve
<1>3. ASSUME NEW c \in Conns, UNCHANGED RunOf, WorkEnds(c) PROVE HInv'
  BY <1>3, WorkInv
<1>4. ASSUME NEW c \in Conns, UNCHANGED RunOf, Client(c) PROVE HInv'
  BY <1>4, ClientInv
<1>5. ASSUME NEW m \in Removers, UNCHANGED RunOf, Remove(m) PROVE HInv'
  BY <1>5, RemoveInv
<1> QED
  BY <1>1, <1>2, <1>3, <1>4, <1>5, IdleInv, ExitInv DEF HelperNext

(* The invariant of the helper's admission (server.rs:83-153, linux.rs:445-492). *)
THEOREM HelperInvariance == HelperSpec => []HInv
<1>1. HelperInit => HInv
  BY HelperInitInv
<1>2. HInv /\ [HelperNext]_vars_all => HInv'
  BY HelperStepInv
<1> QED
  BY <1>1, <1>2, PTL DEF HelperSpec, vars_all

(* One native operation at a time, orphans of a dropped connection included   *)
(* (server.rs:22, 61-71, 122-153).                                            *)
THEOREM OneOperationHolds == HelperSpec => []OneOperation
BY HelperInvariance, PTL DEF HInv

(* An entry of the active table is the run being served (server.rs:49-71).    *)
THEOREM ActiveIsServedHolds == HelperSpec => []ActiveIsServed
BY HelperInvariance, PTL DEF HInv

----------------------------------------------------------------------------
StaysQuarantined == (quarantined /\ up') => quarantined' /\ Working' \subseteq Working

(* Only admit starts work, and it asks for the quarantine first; only the end *)
(* of the process lifts it (server.rs:61-71, 131-135).                        *)
LEMMA QuarantineStep == HInv /\ [HelperNext]_vars_all => StaysQuarantined
<1> SUFFICES ASSUME HInv, [HelperNext]_vars_all, quarantined, up'
             PROVE  quarantined' /\ Working' \subseteq Working
  BY DEF StaysQuarantined
<1>1. CASE UNCHANGED vars_all
  BY <1>1 DEF vars_all, vars, admissionVars, Working
<1>2. ASSUME NEW c \in Conns, Serve(c) PROVE quarantined' /\ UNCHANGED work
  BY <1>2
  DEF Serve, TryPermit, Reject, admit, Disconnected, Finished, CleanupTimesOut, complete,
      drop_guard, OperationTimesOut, Return, admissionVars
<1>3. ASSUME NEW c \in Conns, WorkEnds(c) PROVE quarantined' /\ Working' \subseteq Working
  BY <1>3 DEF WorkEnds, Working, admissionVars, HInv, Ranges
<1>4. ASSUME NEW c \in Conns, Client(c) PROVE quarantined' /\ UNCHANGED work
  BY <1>4
  DEF Client, Send, UserCancels, CancelRun, cancel_run, GiveUp, Receive, admissionVars
<1>5. ASSUME NEW m \in Removers, Remove(m) PROVE quarantined' /\ UNCHANGED work
  BY <1>5
  DEF Remove, CheckStatus, PrepareRemoval, RequestStop, Poll, AbortRemoval, RemoverEnds,
      serviceVars, admissionVars
<1>6. CASE StartUnit \/ \E i \in RunIds : ExpirePending(i)
  BY <1>6 DEF StartUnit, ExpirePending, Working, admissionVars
<1>7. CASE Exit
  BY <1>7 DEF Exit
<1> QED
  BY <1>1, <1>2, <1>3, <1>4, <1>5, <1>6, <1>7 DEF HelperNext, Working

(* No work starts in a quarantined helper, and the quarantine lasts as long   *)
(* as the process (server.rs:131-135).                                        *)
THEOREM QuarantineHoldsAlways == HelperSpec => QuarantineHolds
<1>1. HInv /\ [HelperNext]_vars_all => [StaysQuarantined]_vars
  BY QuarantineStep
<1> QED
  BY <1>1, HelperInvariance, PTL
  DEF HelperSpec, QuarantineHolds, StaysQuarantined, vars_all

----------------------------------------------------------------------------
(* Every operation of the service, its clients and its removers, by what it   *)
(* does to the notes of cancellations to come.                                *)
NotesKept == IsFiniteSet(pending) /\ Cardinality(pending) <= MaxPending

LEMMA NotesStep ==
  ASSUME HInv, NotesKept, [HelperNext]_vars_all PROVE NotesKept'
<1>1. ASSUME pending' \subseteq pending PROVE NotesKept'
  BY <1>1, FS_Subset, FS_CardinalityType, HelperAssumption DEF NotesKept
<1>2. CASE UNCHANGED vars_all
  BY <1>1, <1>2 DEF vars_all, vars, admissionVars
<1>3. ASSUME NEW c \in Conns, Serve(c) \/ WorkEnds(c) PROVE NotesKept'
  BY <1>1, <1>3
  DEF Serve, WorkEnds, TryPermit, Reject, admit, Disconnected, Finished, CleanupTimesOut,
      complete, drop_guard, OperationTimesOut, Return, admissionVars
<1>4. ASSUME NEW c \in Conns, CancelRun(c) PROVE NotesKept'
  <2>1. CASE UNCHANGED pending
    BY <1>1, <2>1
  <2>2. CASE Cardinality(pending) < MaxPending /\ pending' = pending \cup {RunOf[c]}
    <3>1. IsFiniteSet(pending) /\ Cardinality(pending) \in Nat
      BY FS_CardinalityType DEF NotesKept
    <3>2. /\ IsFiniteSet(pending \cup {RunOf[c]})
          /\ \/ Cardinality(pending \cup {RunOf[c]}) = Cardinality(pending)
             \/ Cardinality(pending \cup {RunOf[c]}) = Cardinality(pending) + 1
      BY <3>1, FS_AddElement
    <3> QED
      BY <2>2, <3>1, <3>2, HelperAssumption DEF NotesKept
  <2> QED
    BY <1>4, <2>1, <2>2 DEF CancelRun, cancel_run, admissionVars
<1>5. ASSUME NEW c \in Conns, Client(c) PROVE NotesKept'
  BY <1>1, <1>4, <1>5 DEF Client, Send, UserCancels, GiveUp, Receive, admissionVars
<1>6. ASSUME NEW m \in Removers, Remove(m) PROVE NotesKept'
  BY <1>1, <1>6
  DEF Remove, CheckStatus, PrepareRemoval, RequestStop, Poll, AbortRemoval, RemoverEnds,
      serviceVars, admissionVars
<1>7. CASE StartUnit \/ Exit \/ \E i \in RunIds : ExpirePending(i)
  BY <1>1, <1>7 DEF StartUnit, ExpirePending, Exit, Fresh, admissionVars
<1> QED
  BY <1>2, <1>3, <1>5, <1>6, <1>7 DEF HelperNext

----------------------------------------------------------------------------
(* A reservation belongs to a start of the service that has been.             *)
Reserved ==
  /\ up \in BOOLEAN /\ stopping \in BOOLEAN /\ starts \in 1..MaxStarts
  /\ permit \in Conns \cup {NoConn, Removal}
  /\ quarantined \in BOOLEAN
  /\ token \in [Conns -> BOOLEAN] /\ closed \in [Conns -> BOOLEAN]
  /\ remover \in [Removers -> RemoverStep]
  /\ prepared \in [Removers -> 0..MaxStarts]
  /\ \A m \in Removers : prepared[m] <= starts
  /\ undone \subseteq Removers
  /\ ReservationHolds

(* The service takes the permit from nobody and returns what it holds.        *)
LEMMA ServeReserved ==
  ASSUME HInv, Reserved, NEW c \in Conns, Serve(c) \/ WorkEnds(c) PROVE Reserved'
<1>1. UNCHANGED <<up, starts, stopping, remover, prepared, undone>>
  BY DEF Serve, WorkEnds, TryPermit, Reject, admit, Disconnected, Finished, CleanupTimesOut,
     complete, drop_guard, OperationTimesOut, Return, processVars, removalVars
<1>2. permit' = permit \/ (permit \in Conns /\ permit' = NoConn) \/ (permit = NoConn /\ permit' = c)
  BY DEF HInv, PermitIsServed, Served, At,
     Serve, WorkEnds, TryPermit, Reject, admit, Disconnected, Finished, CleanupTimesOut,
     complete, drop_guard, OperationTimesOut, Return
<1>3. quarantined' \in BOOLEAN /\ closed' \in [Conns -> BOOLEAN]
  BY DEF Reserved, Serve, WorkEnds, TryPermit, Reject, admit, Disconnected, Finished,
     CleanupTimesOut, complete, drop_guard, OperationTimesOut, Return, admissionVars
<1>4. token' \in [Conns -> BOOLEAN]
  BY DEF Reserved, Serve, WorkEnds, TryPermit, Reject, admit, Disconnected, Finished,
     CleanupTimesOut, complete, drop_guard, OperationTimesOut, Return
<1>5. ReservationHolds'
  BY <1>1, <1>2, HelperAssumption DEF Reserved, ReservationHolds
<1> QED
  BY <1>1, <1>2, <1>3, <1>4, <1>5 DEF Reserved

LEMMA ClientReserved ==
  ASSUME HInv, Reserved, NEW c \in Conns, Client(c) PROVE Reserved'
<1>1. UNCHANGED <<up, starts, stopping, permit, remover, prepared, undone>>
  BY DEF Client, Send, UserCancels, CancelRun, GiveUp, Receive, processVars, removalVars
<1>2. token' \in [Conns -> BOOLEAN] /\ closed' \in [Conns -> BOOLEAN] /\ quarantined' \in BOOLEAN
  BY DEF Reserved, Client, Send, UserCancels, CancelRun, cancel_run, GiveUp, Receive,
     admissionVars
<1> QED
  BY <1>1, <1>2 DEF Reserved, ReservationHolds

LEMMA ProcessReserved ==
  ASSUME HInv, Reserved, StartUnit \/ Exit \/ \E i \in RunIds : ExpirePending(i)
  PROVE  Reserved'
<1>1. CASE StartUnit
  <2>1. starts' = starts + 1 /\ starts' \in 1..MaxStarts /\ UNCHANGED <<prepared, undone>>
    BY <1>1, HelperAssumption DEF StartUnit, Reserved, removalVars
  <2>2. \A m \in Removers : prepared'[m] <= starts' /\ prepared'[m] # starts'
    BY <2>1, HelperAssumption DEF Reserved
  <2> QED
    BY <1>1, <2>1, <2>2 DEF StartUnit, Reserved, ReservationHolds, removalVars, admissionVars
<1>2. CASE Exit
  BY <1>2 DEF Exit, Fresh, Reserved, ReservationHolds, removalVars
<1>3. CASE \E i \in RunIds : ExpirePending(i)
  BY <1>3 DEF ExpirePending, Reserved, ReservationHolds, removalVars, processVars
<1> QED
  BY <1>1, <1>2, <1>3

(* A remover gives back what it prepared, and undoes what others count on     *)
(* (linux.rs:213-244, 459-480).                                               *)
LEMMA RemoveReserved ==
  ASSUME HInv, Reserved, NEW m \in Removers, Remove(m) PROVE Reserved'
<1>1. UNCHANGED <<up, starts, quarantined, token>>
  BY DEF Remove, CheckStatus, PrepareRemoval, RequestStop, StopUnit, Poll, AbortRemoval,
     RemoverEnds, serviceVars, admissionVars, processVars
<1>2. stopping' \in BOOLEAN /\ closed' \in [Conns -> BOOLEAN]
  BY DEF Reserved, Remove, CheckStatus, PrepareRemoval, RequestStop, StopUnit, Poll, AbortRemoval,
     RemoverEnds, processVars
<1>3. remover' \in [Removers -> RemoverStep]
  BY DEF Reserved, RemoverStep, Remove, CheckStatus, PrepareRemoval, RequestStop, Poll,
     AbortRemoval, RemoverEnds, RemoverGoto, AfterFailure
<1>4. \/ UNCHANGED <<permit, prepared, undone>>
      \/ permit' = Removal /\ prepared' = [prepared EXCEPT ![m] = starts] /\ undone' = undone \ {m}
      \/ UNCHANGED <<permit, undone>> /\ prepared' = [prepared EXCEPT ![m] = 0]
      \/ /\ prepared' = [prepared EXCEPT ![m] = 0]
         /\ permit' \in {permit, NoConn}
         /\ undone' = (undone \cup {n \in Removers : prepared[n] # 0}) \ {m}
  BY DEF Remove, CheckStatus, PrepareRemoval, RequestStop, Poll, AbortRemoval, RemoverEnds
<1>5. undone' \subseteq Removers
  BY <1>4 DEF Reserved
<1>6. prepared' \in [Removers -> 0..MaxStarts] /\ \A n \in Removers : prepared'[n] <= starts
  BY <1>4, HelperAssumption DEF Reserved
<1>7. ReservationHolds'
  <2>1. starts # 0
    BY DEF Reserved
  <2> QED
    BY <1>1, <1>4, <2>1 DEF Reserved, ReservationHolds
<1>8. permit' \in Conns \cup {NoConn, Removal}
  BY <1>4 DEF Reserved
<1> QED
  BY <1>1, <1>2, <1>3, <1>5, <1>6, <1>7, <1>8 DEF Reserved

(* What admission and removal rely on, for any number of removers: the table  *)
(* of active runs, the notes within their limit, and a reservation that holds *)
(* for each remover until another one takes it back (server.rs:49-71,         *)
(* 155-175; linux.rs:459-480).                                                *)
THEOREM AdmissionHoldsAlways == HelperSpec => []AdmissionHolds
<1> DEFINE All == HInv /\ NotesKept /\ Reserved /\ RunOf \in Requests
<1>1. HelperInit => All
  <2> SUFFICES ASSUME HelperInit PROVE All
    OBVIOUS
  <2>1. NotesKept
    BY FS_EmptySet, HelperAssumption DEF HelperInit, NotesKept
  <2>2. starts \in 1..MaxStarts /\ \A m \in Removers : prepared[m] = 0
    BY HelperAssumption DEF HelperInit
  <2>3. prepared \in [Removers -> 0..MaxStarts] /\ (\A m \in Removers : prepared[m] <= starts)
        /\ undone = {}
    BY <2>2, HelperAssumption DEF HelperInit
  <2>4. ReservationHolds
    BY <2>2 DEF ReservationHolds
  <2>5. Reserved
    BY <2>2, <2>3, <2>4 DEF HelperInit, Reserved, RemoverStep
  <2> QED
    BY <2>1, <2>5, HelperInitInv DEF HelperInit
<1>2. All /\ [HelperNext]_vars_all => All'
  <2> SUFFICES ASSUME All, [HelperNext]_vars_all PROVE All'
    OBVIOUS
  <2>1. RunOf' = RunOf
    BY DEF HelperNext, vars_all
  <2>2. ASSUME UNCHANGED vars_all PROVE Reserved'
    BY <2>2 DEF Reserved, ReservationHolds, vars_all, vars, processVars, removalVars, admissionVars
  <2>3. ASSUME HelperNext PROVE Reserved'
    BY <2>3, ServeReserved, ClientReserved, ProcessReserved, RemoveReserved DEF HelperNext
  <2>4. Reserved'
    BY <2>2, <2>3
  <2> QED
    BY <2>1, <2>4, HelperStepInv, NotesStep
<1>3. All => AdmissionHolds
  BY DEF HInv, Ranges, NotesKept, Reserved, AdmissionHolds, HelperTypeOK
<1> HIDE DEF All
<1> QED
  BY <1>1, <1>2, <1>3, PTL DEF HelperSpec, vars_all

----------------------------------------------------------------------------
(* No other operation has the run id of this one. *)
Alone(c) == \A d \in Conns \ {c} : RunOf[d] # RunOf[c]

(* A cancelled operation without work, which no other operation can use up    *)
(* the note of.                                                               *)
ToldOff(c) == client[c] = "grace" /\ work[c] = "none" /\ Alone(c)

(* What was sent was taken in; what was admitted has work; an entry of the    *)
(* table is its operation's; a cancellation that was answered is noted until  *)
(* its operation has been turned away.                                        *)
CancelTold ==
  /\ \A c \in Conns : client[c] \in {"waiting", "cancelling", "grace"} => server[c] # "none"
  /\ \A c \in Conns : server[c] \in Admitted => work[c] # "none"
  /\ \A i \in RunIds, d \in Conns : active[i] = d => RunOf[d] = i /\ work[d] # "none"
  /\ \A c \in Conns : ToldOff(c) =>
       server[c] \in {"returning", "over"} \/ quarantined \/ RunOf[c] \in pending

NeverStarts == \A c \in Conns : ToldOff(c) => work'[c] = "none"

(* A step that cancels nothing and admits nobody. *)
LEMMA ToldAside ==
  ASSUME HInv, CancelTold, UNCHANGED <<RunOf, active>>,
         quarantined => quarantined',
         \A c \in Conns :
           /\ work'[c] = "none" <=> work[c] = "none"
           /\ client[c] = "idle" => client'[c] \in {"idle", "done"} \/ server'[c] # "none"
           /\ client[c] = "done" => client'[c] = "done"
           /\ client'[c] = "grace" => client[c] = "grace"
           /\ server[c] # "none" => server'[c] # "none"
           /\ server'[c] \in Admitted => server[c] \in Admitted
           /\ server[c] \in {"returning", "over"} => server'[c] \in {"returning", "over"}
           /\ client[c] = "grace" /\ RunOf[c] \in pending => RunOf[c] \in pending'
  PROVE  CancelTold'
<1> USE DEF CancelTold
<1>1. \A c \in Conns : client'[c] \in {"waiting", "cancelling", "grace"} => server'[c] # "none"
  BY DEF HInv, Ranges, ClientStep
<1>2. \A c \in Conns : server'[c] \in Admitted => work'[c] # "none"
  OBVIOUS
<1>3. \A i \in RunIds, d \in Conns : active'[i] = d => RunOf'[d] = i /\ work'[d] # "none"
  OBVIOUS
<1>4. \A c \in Conns : ToldOff(c)' =>
        server'[c] \in {"returning", "over"} \/ quarantined' \/ RunOf'[c] \in pending'
  BY DEF ToldOff, Alone
<1> QED
  BY <1>1, <1>2, <1>3, <1>4

(* The service admits nobody that was turned away, and keeps the note until   *)
(* it has turned the operation away (server.rs:122-153).                      *)
LEMMA ServeTold ==
  ASSUME HInv, CancelTold, NEW c \in Conns, UNCHANGED RunOf, Serve(c) \/ WorkEnds(c)
  PROVE  CancelTold' /\ NeverStarts
<1> USE DEF Admitted
<1>1. CASE TryPermit(c) \/ Reject(c) \/ Disconnected(c) \/ Finished(c) \/ CleanupTimesOut(c)
           \/ OperationTimesOut(c) \/ Return(c)
  <2>1. UNCHANGED <<admissionVars, work, client>>
    BY <1>1 DEF TryPermit, Reject, Disconnected, Finished, CleanupTimesOut, OperationTimesOut,
       Return
  <2>2. PICK step \in ServerStep :
          /\ server' = [server EXCEPT ![c] = step]
          /\ server[c] # "none" \/ step = server[c]
          /\ step = "none" => server[c] = "none"
          /\ step \in Admitted => server[c] \in Admitted
          /\ server[c] \in {"returning", "over"} => step \in {"returning", "over"}
    <3>1. CASE OperationTimesOut(c)
      <4>1. server' = [server EXCEPT ![c] = server[c]]
        BY <3>1 DEF OperationTimesOut, HInv, Ranges
      <4> QED
        BY <4>1 DEF HInv, Ranges
    <3> QED
      BY <1>1, <3>1
      DEF TryPermit, Reject, Disconnected, Finished, CleanupTimesOut, Return, At, Goto, ServerStep
  <2>3. CancelTold'
    BY <2>1, <2>2, ToldAside DEF admissionVars, HInv, Ranges, ClientStep
  <2> QED
    BY <2>1, <2>3 DEF NeverStarts, ToldOff
<1>2. CASE complete(c) \/ drop_guard(c)
  <2>1. UNCHANGED <<pending, work, client>> /\ (quarantined => quarantined')
    <3>1. UNCHANGED <<pending, work, client>>
      BY <1>2 DEF complete, drop_guard
    <3>2. ASSUME quarantined PROVE quarantined'
      BY <1>2, <3>2 DEF complete, drop_guard
    <3> QED
      BY <3>1, <3>2
  <2>2. server[c] \in Admitted /\ work[c] # "none"
    BY <1>2 DEF complete, drop_guard, At, CancelTold
  <2>3. PICK step \in {"dropping", "returning"} : server' = [server EXCEPT ![c] = step]
    BY <1>2 DEF complete, drop_guard, Goto
  <2>4. \A i \in RunIds, d \in Conns : active'[i] = d => active[i] = d
    BY <1>2, HelperAssumption DEF complete, drop_guard, HInv, Ranges
  <2>5. CancelTold'
    BY <2>1, <2>2, <2>3, <2>4 DEF CancelTold, ToldOff, Alone, HInv, Ranges
  <2> QED
    BY <2>1, <2>5 DEF NeverStarts, ToldOff
<1>3. CASE admit(c)
  <2>1. UNCHANGED <<quarantined, client>> /\ server[c] = "permitted"
    BY <1>3 DEF admit, At
  <2>2. CASE /\ server' = [server EXCEPT ![c] = "returning"]
             /\ UNCHANGED <<active, work>> /\ pending' \in {pending, pending \ {RunOf[c]}}
    <3>1. \A d \in Conns \ {c} : Alone(d) /\ RunOf[d] \in pending => RunOf[d] \in pending'
      BY <2>2 DEF Alone
    <3>2. CancelTold'
      BY <2>1, <2>2, <3>1 DEF CancelTold, ToldOff, Alone, HInv, Ranges
    <3> QED
      BY <2>2, <3>2 DEF NeverStarts, ToldOff
  <2>3. CASE /\ ~quarantined /\ RunOf[c] \notin pending /\ UNCHANGED pending
             /\ active' = [active EXCEPT ![RunOf[c]] = c]
             /\ work' = [work EXCEPT ![c] = "running"]
             /\ server' = [server EXCEPT ![c] = "running"]
    <3>1. ~ToldOff(c)
      BY <2>1, <2>3 DEF CancelTold
    <3>2. CancelTold'
      BY <2>1, <2>3, <3>1 DEF CancelTold, ToldOff, Alone, HInv, Ranges
    <3> QED
      BY <2>3, <3>1, <3>2 DEF NeverStarts, ToldOff, HInv, Ranges
  <2> QED
    BY <1>3, <2>2, <2>3 DEF admit, Goto, cancelled_before
<1>4. CASE WorkEnds(c)
  <2>1. CancelTold'
    BY <1>4, ToldAside DEF WorkEnds, admissionVars, HInv, Ranges
  <2> QED
    BY <1>4, <2>1 DEF WorkEnds, NeverStarts, ToldOff, HInv, Ranges
<1> QED
  BY <1>1, <1>2, <1>3, <1>4 DEF Serve

(* A cancellation finds its own operation at work, leaves a note for it, or   *)
(* quarantines the helper (server.rs:155-175).                                *)
LEMMA ClientTold ==
  ASSUME HInv, CancelTold, NEW c \in Conns, UNCHANGED RunOf, Client(c)
  PROVE  CancelTold' /\ NeverStarts
<1>1. UNCHANGED <<work, active>>
  BY DEF Client, Send, UserCancels, CancelRun, cancel_run, GiveUp, Receive, admissionVars
<1>2. NeverStarts
  BY <1>1 DEF NeverStarts, ToldOff
<1>3. CASE Send(c)
  <2>1. UNCHANGED admissionVars /\ client[c] = "idle" /\ server[c] = "none"
    BY <1>3 DEF Send, HInv, UnsentIsUnknown
  <2>2. \/ client' = [client EXCEPT ![c] = "waiting"] /\ server' = [server EXCEPT ![c] = "arrived"]
        \/ client' = [client EXCEPT ![c] = "done"] /\ UNCHANGED server
    BY <1>3 DEF Send, Goto
  <2> QED
    BY <1>1, <1>2, <2>1, <2>2, ToldAside DEF admissionVars, HInv, Ranges, Admitted
<1>4. CASE UserCancels(c) \/ GiveUp(c) \/ Receive(c)
  <2>1. UNCHANGED <<admissionVars, server>>
    BY <1>4 DEF UserCancels, GiveUp, Receive
  <2>2. /\ client[c] # "idle" /\ client[c] # "done"
        /\ \E step \in {"cancelling", "done"} : client' = [client EXCEPT ![c] = step]
    BY <1>4 DEF UserCancels, GiveUp, Receive
  <2> QED
    BY <1>1, <1>2, <2>1, <2>2, ToldAside DEF admissionVars, HInv, Ranges
<1>5. CASE CancelRun(c)
  <2>1. /\ UNCHANGED server /\ client[c] = "cancelling"
        /\ client' = [client EXCEPT ![c] = "grace"]
        /\ RunOf[c] \in RunIds /\ active[RunOf[c]] \in Conns \cup {NoConn}
    BY <1>5 DEF CancelRun, HInv, Ranges
  <2>2. pending \subseteq pending' /\ (quarantined => quarantined')
    BY <1>5 DEF CancelRun, cancel_run, admissionVars
  <2>3. \/ active[RunOf[c]] # NoConn
        \/ quarantined' \/ RunOf[c] \in pending'
    BY <1>5 DEF CancelRun, cancel_run
  <2>4. ToldOff(c)' => active[RunOf[c]] = NoConn
    BY <1>1, <2>1 DEF CancelTold, ToldOff, Alone
  <2>5. \A d \in Conns \ {c} : ToldOff(d)' => ToldOff(d)
    BY <1>1, <2>1 DEF ToldOff, Alone
  <2>6. CancelTold'
    BY <1>1, <2>1, <2>2, <2>3, <2>4, <2>5 DEF CancelTold, HInv, Ranges
  <2> QED
    BY <1>2, <2>6
<1> QED
  BY <1>2, <1>3, <1>4, <1>5 DEF Client

(* A note outlives the grace period of its client; with the process go the    *)
(* connections that it knew (server.rs:167-174, linux.rs:262-272).            *)
LEMMA ProcessTold ==
  ASSUME HInv, CancelTold, UNCHANGED RunOf,
         StartUnit \/ Exit \/ \E i \in RunIds : ExpirePending(i)
  PROVE  CancelTold' /\ NeverStarts
<1>1. CASE StartUnit
  BY <1>1, ToldAside DEF StartUnit, NeverStarts, ToldOff, admissionVars, HInv, Ranges
<1>2. CASE Exit
  <2>1. UNCHANGED client /\ \A c \in Conns : work'[c] = "none" <=> work[c] = "none"
    BY <1>2 DEF Exit, HInv, Ranges
  <2>2. \A c \in Conns : server'[c] = IF server[c] \in InService THEN "over" ELSE server[c]
    BY <1>2 DEF Exit
  <2>3. \A i \in RunIds : active'[i] = NoConn
    BY <1>2 DEF Exit, Fresh
  <2>4. \A c \in Conns : client[c] \in {"waiting", "cancelling", "grace"} => server'[c] = "over"
    BY <2>2 DEF CancelTold, InService, Admitted, HInv, Ranges, ServerStep
  <2>5. \A c \in Conns : server'[c] \notin Admitted
    BY <2>2 DEF InService, Admitted
  <2>6. \A i \in RunIds, d \in Conns : active'[i] # d
    BY <2>3, HelperAssumption
  <2>7. CancelTold'
    BY <2>1, <2>4, <2>5, <2>6 DEF CancelTold, ToldOff
  <2> QED
    BY <2>1, <2>7 DEF NeverStarts, ToldOff
<1>3. CASE \E i \in RunIds : ExpirePending(i)
  <2>1. PICK i \in RunIds : ExpirePending(i)
    BY <1>3
  <2>2. \A c \in Conns : client[c] = "grace" /\ RunOf[c] \in pending => RunOf[c] \in pending'
    BY <2>1 DEF ExpirePending
  <2>3. UNCHANGED <<active, quarantined, server, work, client>>
    BY <2>1 DEF ExpirePending
  <2> QED
    BY <2>2, <2>3, ToldAside DEF NeverStarts, ToldOff, HInv, Ranges
<1> QED
  BY <1>1, <1>2, <1>3

LEMMA HelperStepTold ==
  HInv /\ CancelTold /\ [HelperNext]_vars_all => CancelTold' /\ NeverStarts
<1> SUFFICES ASSUME HInv, CancelTold, [HelperNext]_vars_all PROVE CancelTold' /\ NeverStarts
  OBVIOUS
<1>1. CASE UNCHANGED vars_all
  BY <1>1, ToldAside DEF vars_all, vars, admissionVars, NeverStarts, ToldOff, HInv, Ranges
<1>2. ASSUME NEW m \in Removers, UNCHANGED RunOf, Remove(m) PROVE CancelTold' /\ NeverStarts
  <2>1. UNCHANGED <<active, pending, quarantined, server, work, client>>
    BY <1>2 DEF Remove, CheckStatus, PrepareRemoval, RequestStop, Poll, AbortRemoval, RemoverEnds,
       serviceVars, admissionVars
  <2> QED
    BY <1>2, <2>1, ToldAside DEF NeverStarts, ToldOff, HInv, Ranges
<1> QED
  BY <1>1, <1>2, ServeTold, ClientTold, ProcessTold DEF HelperNext

(* An operation whose cancellation was answered before it was admitted never  *)
(* starts, whichever connection the service gets to first                     *)
(* (server.rs:136-139, 167-174).                                              *)
THEOREM CancelledNeverStartsHolds == HelperSpec => CancelledNeverStarts
<1>1. HelperInit => CancelTold
  BY HelperAssumption DEF HelperInit, CancelTold, ToldOff, Admitted
<1>2. HInv /\ CancelTold /\ [HelperNext]_vars_all => CancelTold' /\ [NeverStarts]_vars
  BY HelperStepTold
<1>3. NeverStarts =>
        \A c \in Conns :
          /\ client[c] = "grace" /\ work[c] = "none"
          /\ \A d \in Conns \ {c} : RunOf[d] # RunOf[c]
          => work'[c] = "none"
  BY DEF NeverStarts, ToldOff, Alone
<1> QED
  BY <1>1, <1>2, <1>3, HelperInvariance, PTL DEF HelperSpec, CancelledNeverStarts, vars_all
============================================================================
