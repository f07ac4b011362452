--------------------------- MODULE WindowsProofs ----------------------------
(***************************************************************************)
(* The helper on Windows and its protocol: the registered service, one     *)
(* request over the pipe, and the cache of frames that were taken.         *)
(***************************************************************************)
EXTENDS WindowsHelper, WindowsExchange, ReplayCache, FiniteSetTheorems, SequenceTheorems,
        WellFoundedInduction, TLAPS

----------------------------------------------------------------------------
(***************************************************************************)
(* Proofs about the Windows helper, for any number of programs and users.  *)
(*                                                                         *)
(* A reservation in force is the permit of the service, so that no         *)
(* operation has it. And as long as elevated processes run one after the   *)
(* other, none of them is at a step that changes the owner or the key of   *)
(* a service that runs.                                                    *)
(***************************************************************************)

Ended == {"none", "ok", "error"}

(* Where a process writes or removes a record, or has the service stopped. *)
Changing ==
  {"write owner", "fill owner", "write key", "fill key", "await stop", "delete", "purge",
   "remove key", "remove clients", "remove owner", "remove root"}
Steps == {"root", "clients", "check owner", "install", "start", "open", "stop"} \cup Changing

HelperRanges ==
  /\ elevated \in [Callers -> Ended \cup Steps]
  /\ call \in [Callers -> [register : BOOLEAN, user : Users]]
  /\ reserved \in [Callers -> BOOLEAN]

(* PrepareRemoval takes the permit, and nothing but an abort or the end of the *)
(* service gives it back.                                                      *)
ReservedIsHeld == \A c \in Callers : reserved[c] => permit = "removal"

OneElevated ==
  ~overlapped => \A c, d \in Callers : elevated[c] \notin Ended /\ elevated[d] \notin Ended => c = d

ChangesAreQuiet ==
  ~overlapped => \A c \in Callers : elevated[c] \in Changing => scm # "running"

ServedIsRead == scm = "running" => served.user \in Users /\ served.secret \in Secrets

WindowsInv ==
  /\ HelperRanges /\ ReservedIsHeld /\ OneElevated /\ ChangesAreQuiet /\ ServedIsRead
  /\ ServedIsRecorded

LEMMA KeysAreSecrets == \A s \in Secrets : s # NoKey
<1>1. Cardinality(Callers) \in Nat
  BY HelperAssumption, FS_CardinalityType
<1> QED
  BY <1>1 DEF Secrets, NoKey

----------------------------------------------------------------------------
(* Nothing is installed and nobody has asked. *)
LEMMA WindowsInitInv == WindowsInit => WindowsInv
BY DEF WindowsInit, WindowsInv, HelperRanges, ReservedIsHeld, OneElevated, ChangesAreQuiet,
   ServedIsRead, ServedIsRecorded, Ended, Changing

(* A step of a client program that leaves its elevated process alone. *)
LEMMA ClientInv ==
  ASSUME WindowsInv, NEW c \in Callers,
         \/ register(c) \/ remove(c) \/ PrepareRemoval(c) \/ awaited(c) \/ abort(c)
         \/ wait_for_status(c)
  PROVE  WindowsInv'
<1>1. UNCHANGED <<files, scm, doomed, served, call, elevated, overlapped>>
  BY DEF register, remove, PrepareRemoval, awaited, abort, wait_for_status, Kept, service, files
<1>2. reserved' \in [Callers -> BOOLEAN] /\ ReservedIsHeld'
  <2>1. CASE UNCHANGED <<permit, reserved>>
    BY <2>1 DEF WindowsInv, HelperRanges, ReservedIsHeld
  <2>2. CASE permit' = "removal" /\ permit = "free" /\ Confirmed(c)
    BY <2>2 DEF WindowsInv, HelperRanges, ReservedIsHeld, Confirmed
  <2>3. CASE permit' = "removal" /\ permit = "free" /\ reserved' = reserved
    BY <2>3 DEF WindowsInv, HelperRanges, ReservedIsHeld
  <2>4. CASE reserved' = [d \in Callers |-> FALSE]
    BY <2>4 DEF ReservedIsHeld
  <2> QED
    BY <2>1, <2>2, <2>3, <2>4 DEF register, remove, PrepareRemoval, awaited, abort,
       wait_for_status, service
<1>3. OneElevated' /\ ChangesAreQuiet' /\ ServedIsRead' /\ ServedIsRecorded'
  BY <1>1 DEF WindowsInv, OneElevated, ChangesAreQuiet, ServedIsRead, ServedIsRecorded,
     registered_owner, files
<1> QED
  BY <1>1, <1>2, <1>3 DEF WindowsInv, HelperRanges

(* The elevated process starts: with another one running they overlap. *)
LEMMA ElevateInv == ASSUME WindowsInv, NEW c \in Callers, elevate(c) PROVE WindowsInv'
<1>1. UNCHANGED <<files, service, call, reserved>>
  BY DEF elevate, Kept
<1>2. CASE UNCHANGED <<elevated, overlapped>>
  BY <1>1, <1>2 DEF WindowsInv, HelperRanges, ReservedIsHeld, OneElevated, ChangesAreQuiet,
     ServedIsRead, ServedIsRecorded, registered_owner, files, service
<1>3. ASSUME NEW label \in {"root", "open"}, Run(c, label),
             overlapped' = (overlapped \/ \E d \in Callers : elevated[d] \notin Ended)
      PROVE  WindowsInv'
  <2>1. \A d \in Callers : elevated'[d] = IF d = c THEN label ELSE elevated[d]
    BY <1>3 DEF WindowsInv, HelperRanges, Run
  <2>2. HelperRanges'
    BY <1>1, <1>3 DEF WindowsInv, HelperRanges, Run, Steps
  <2>3. OneElevated' /\ ChangesAreQuiet'
    BY <1>1, <1>3, <2>1 DEF WindowsInv, OneElevated, ChangesAreQuiet, Changing, Ended, service
  <2>4. ReservedIsHeld' /\ ServedIsRead' /\ ServedIsRecorded'
    BY <1>1, <1>3 DEF WindowsInv, ReservedIsHeld, ServedIsRead, ServedIsRecorded,
       registered_owner, files, service
  <2> QED
    BY <2>2, <2>3, <2>4 DEF WindowsInv
<1> QED
  BY <1>2, <1>3 DEF elevate, Ended

(* A step of an elevated process: under a service that runs it goes nowhere  *)
(* where it changes a record, and leaves the records as that service has     *)
(* read them.                                                                *)
LEMMA ElevatedInv ==
  ASSUME WindowsInv, NEW c \in Callers, elevated[c] \notin Ended,
         NEW label \in Ended \cup Steps, Run(c, label), Elevated, permit' = permit,
         scm' = "running" => served'.user \in Users /\ served'.secret \in Secrets,
         scm' = "running" /\ ~overlapped =>
           /\ label \notin Changing
           /\ owner' = served'.user /\ root' = served'.user /\ clients' = served'.user
           /\ key' = served'.secret
  PROVE  WindowsInv'
<1>1. \A d \in Callers : elevated'[d] = IF d = c THEN label ELSE elevated[d]
  BY DEF WindowsInv, HelperRanges, Run
<1>2. HelperRanges' /\ ReservedIsHeld'
  BY DEF WindowsInv, HelperRanges, ReservedIsHeld, Run, Elevated
<1>3. OneElevated'
  BY <1>1 DEF WindowsInv, OneElevated, Elevated
<1>4. ChangesAreQuiet'
  <2> SUFFICES ASSUME ~overlapped, NEW d \in Callers, elevated'[d] \in Changing
               PROVE  scm' # "running"
    BY DEF ChangesAreQuiet, Elevated
  <2>1. CASE d = c
    BY <1>1, <2>1
  <2>2. CASE d # c
    <3>1. elevated[d] \in Changing /\ elevated[d] \notin Ended
      BY <1>1, <2>2 DEF Changing, Ended
    <3> QED
      BY <2>2, <3>1 DEF WindowsInv, OneElevated
  <2> QED
    BY <2>1, <2>2
<1>5. ServedIsRead' /\ ServedIsRecorded'
  BY DEF ServedIsRead, ServedIsRecorded, registered_owner, Elevated
<1> QED
  BY <1>2, <1>3, <1>4, <1>5 DEF WindowsInv

(* Registering again for whom it runs finds every record (windows.rs:597-645). *)
LEMMA InstallInv == ASSUME WindowsInv, NEW c \in Callers, install(c) PROVE WindowsInv'
<1>1. User(c) \in Users
  BY DEF WindowsInv, HelperRanges, User
<1>2. scm = "running" /\ ~overlapped =>
        /\ served.user \in Users /\ served.secret \in Secrets /\ key # NoKey
        /\ owner = served.user /\ root = served.user /\ clients = served.user
        /\ key = served.secret /\ elevated[c] \notin Changing
  BY KeysAreSecrets DEF WindowsInv, ServedIsRead, ServedIsRecorded, ChangesAreQuiet,
     registered_owner
<1>3. CASE create_root(c)
  BY <1>1, <1>2, <1>3, HelperAssumption, ElevatedInv DEF create_root, WindowsInv, ServedIsRead,
     service, Ended, Steps, Changing
<1>4. CASE create_clients(c)
  BY <1>1, <1>2, <1>4, HelperAssumption, ElevatedInv DEF create_clients, WindowsInv, ServedIsRead,
     service, Ended, Steps, Changing
<1>5. CASE create_owner(c)
  BY <1>2, <1>5, ElevatedInv DEF create_owner, WindowsInv, ServedIsRead, service, Ended, Steps,
     Changing
<1>6. CASE fill_owner(c)
  BY <1>2, <1>6, ElevatedInv DEF fill_owner, WindowsInv, ServedIsRead, service, Ended, Steps,
     Changing
<1>7. CASE check_owner(c)
  BY <1>2, <1>7, ElevatedInv DEF check_owner, WindowsInv, ServedIsRead, service, files, Ended,
     Steps, Changing
<1>8. CASE create_key(c)
  BY <1>2, <1>8, ElevatedInv DEF create_key, WindowsInv, ServedIsRead, service, Ended, Steps,
     Changing
<1>9. CASE fill_key(c)
  BY <1>2, <1>9, ElevatedInv DEF fill_key, WindowsInv, ServedIsRead, service, Ended, Steps,
     Changing
<1>10. CASE CreateService(c)
  BY <1>2, <1>10, ElevatedInv DEF CreateService, WindowsInv, ServedIsRead, files, Ended, Steps,
     Changing
<1>11. CASE StartService(c)
  <2>1. elevated[c] \notin Ended /\ Run(c, "ok") /\ Elevated /\ permit' = permit
          /\ "ok" \in Ended \cup Steps /\ "ok" \notin Changing
    BY <1>11 DEF StartService, service, Ended, Steps, Changing
  <2>2. UNCHANGED <<owner, root, clients, key>>
    BY <1>11 DEF StartService, files
  <2>3. CASE scm = "running" /\ UNCHANGED service
    BY <1>2, <2>1, <2>2, <2>3, ElevatedInv DEF service, WindowsInv, ServedIsRead
  <2>4. CASE /\ key \in Secrets /\ owner \in Users /\ registered_owner(owner)
             /\ served' = [user |-> owner, secret |-> key]
    <3>1. /\ served'.user = owner /\ served'.secret = key /\ root = owner /\ clients = owner
          /\ owner \in Users /\ key \in Secrets
      BY <2>4 DEF registered_owner
    <3> QED
      BY <2>1, <2>2, <3>1, ElevatedInv
  <2> QED
    BY <1>11, <2>3, <2>4 DEF StartService
<1> QED
  BY <1>3, <1>4, <1>5, <1>6, <1>7, <1>8, <1>9, <1>10, <1>11 DEF install

(* The files are removed once the service has stopped (windows.rs:713-748). *)
LEMMA UninstallInv ==
  ASSUME WindowsInv, NEW c \in Callers, uninstall(c) \/ elevated_fails(c) PROVE WindowsInv'
<1>1. scm = "running" /\ ~overlapped =>
        /\ owner = served.user /\ root = served.user /\ clients = served.user
        /\ key = served.secret /\ elevated[c] \notin Changing
  BY DEF WindowsInv, ServedIsRecorded, ChangesAreQuiet, registered_owner
<1>2. CASE open_service(c)
  BY <1>1, <1>2, ElevatedInv DEF open_service, WindowsInv, ServedIsRead, files, service, Ended,
     Steps, Changing
<1>3. CASE ControlStop(c)
  BY <1>1, <1>3, ElevatedInv DEF ControlStop, WindowsInv, ServedIsRead, files, Ended, Steps,
     Changing
<1>4. CASE wait_service_state(c)
  BY <1>1, <1>4, ElevatedInv DEF wait_service_state, WindowsInv, ServedIsRead, files, service,
     Ended, Steps, Changing
<1>5. CASE DeleteService(c)
  BY <1>1, <1>5, ElevatedInv DEF DeleteService, WindowsInv, ServedIsRead, files, Ended, Steps,
     Changing
<1>6. CASE purge_state(c)
  BY <1>1, <1>6, ElevatedInv DEF purge_state, WindowsInv, ServedIsRead, files, service, Ended,
     Steps, Changing
<1>7. CASE remove_key(c)
  BY <1>1, <1>7, ElevatedInv DEF remove_key, WindowsInv, ServedIsRead, service, Ended, Steps,
     Changing
<1>8. CASE remove_clients(c)
  BY <1>1, <1>8, ElevatedInv DEF remove_clients, WindowsInv, ServedIsRead, service, Ended, Steps,
     Changing
<1>9. CASE remove_owner(c)
  BY <1>1, <1>9, ElevatedInv DEF remove_owner, WindowsInv, ServedIsRead, service, Ended, Steps,
     Changing
<1>10. CASE remove_root(c)
  BY <1>1, <1>10, ElevatedInv DEF remove_root, WindowsInv, ServedIsRead, service, Ended, Steps,
     Changing
<1>11. CASE elevated_fails(c)
  BY <1>1, <1>11, ElevatedInv DEF elevated_fails, WindowsInv, ServedIsRead, files, service, Ended,
     Steps, Changing
<1> QED
  BY <1>2, <1>3, <1>4, <1>5, <1>6, <1>7, <1>8, <1>9, <1>10, <1>11 DEF uninstall

(* What it serves needs its permit free, and what it held goes with it. *)
LEMMA ServiceInv ==
  ASSUME WindowsInv, Operation \/ operation_ends \/ service_ends PROVE WindowsInv'
<1>1. CASE Operation \/ operation_ends
  <2>1. /\ UNCHANGED <<files, scm, served, call, elevated, reserved, overlapped>>
        /\ permit # "removal"
    BY <1>1 DEF Operation, operation_ends
  <2> QED
    BY <2>1 DEF WindowsInv, HelperRanges, ReservedIsHeld, OneElevated, ChangesAreQuiet,
       ServedIsRead, ServedIsRecorded, registered_owner, files
<1>2. CASE service_ends
  BY <1>2 DEF service_ends, WindowsInv, HelperRanges, ReservedIsHeld, OneElevated,
     ChangesAreQuiet, ServedIsRead, ServedIsRecorded
<1> QED
  BY <1>1, <1>2

LEMMA WindowsStepInv == WindowsInv /\ [WindowsNext]_windows_vars => WindowsInv'
<1> SUFFICES ASSUME WindowsInv, [WindowsNext]_windows_vars PROVE WindowsInv'
  OBVIOUS
<1>1. CASE UNCHANGED windows_vars
  BY <1>1 DEF windows_vars, files, service, WindowsInv, HelperRanges, ReservedIsHeld, OneElevated,
     ChangesAreQuiet, ServedIsRead, ServedIsRecorded, registered_owner
<1> QED
  BY <1>1, ClientInv, ElevateInv, InstallInv, UninstallInv, ServiceInv DEF WindowsNext

LEMMA WindowsInvariance == WindowsSpec => []WindowsInv
BY WindowsInitInv, WindowsStepInv, PTL DEF WindowsSpec

(* A running service has the owner and the key on disk, as long as elevated    *)
(* processes do not overlap (windows.rs:597-645, 713-748).                     *)
THEOREM ServedIsRecordedHolds == WindowsSpec => []ServedIsRecorded
<1>1. WindowsInv => ServedIsRecorded
  BY DEF WindowsInv
<1> QED
  BY <1>1, WindowsInvariance, PTL

(* A removal with a reservation in force stops no operation, whatever any      *)
(* number of other programs ask for (windows.rs:127-155, 299-325).             *)
THEOREM RemovalSparesOperationHolds == WindowsSpec => RemovalSparesOperation
<1>1. WindowsInv =>
        \A c \in Callers :
          elevated[c] = "stop" /\ scm = "running" /\ scm' = "stopping" /\ elevated'[c] = "await stop"
            => (reserved[c] => permit # "operation")
  BY DEF WindowsInv, ReservedIsHeld
<1> QED
  BY <1>1, WindowsInvariance, PTL DEF RemovalSparesOperation

----------------------------------------------------------------------------
(***************************************************************************)
(* Proof, for any timeouts and any length of a run, that the Windows       *)
(* service stops what a client that has gone asked for.                    *)
(*                                                                         *)
(* Each stage is left in time, because time does not pass what is due: the *)
(* request is read within FRAME_TIMEOUT, the end of a closed pipe is read  *)
(* at once, and the clean-up is given up after SERVER_CLEANUP_GRACE.       *)
(***************************************************************************)

ExchangeRanges ==
  /\ clock \in 0..Horizon /\ served_at \in 0..clock
  /\ left \in 0..clock \cup {Never}
  /\ asker \in {"idle", "header", "cancel", "grace", "done"}
  /\ serving \in {"none", "asked", "running", "cleanup", "closing", "over"}

(* The service does nothing before the request, and a pipe is closed once. *)
PipeIsUsedOnce ==
  /\ asker = "idle" => serving = "none"
  /\ left # Never <=> asker = "done"

(* A client that goes before its request is read goes after it was written. *)
AskedIsRead ==
  serving = "asked" =>
    /\ clock - served_at <= FRAME_TIMEOUT
    /\ left # Never => served_at <= left

RunningIsRead == serving = "running" /\ left # Never => clock - left <= FRAME_TIMEOUT

CleanupIsBounded ==
  serving = "cleanup" =>
    /\ left # Never /\ served_at - left <= FRAME_TIMEOUT
    /\ clock - served_at <= SERVER_CLEANUP_GRACE

ExchangeInv ==
  ExchangeRanges /\ PipeIsUsedOnce /\ AskedIsRead /\ RunningIsRead /\ CleanupIsBounded

LEMMA Constants ==
  /\ FRAME_TIMEOUT \in Nat /\ SERVER_CLEANUP_GRACE \in Nat /\ Horizon \in Nat
  /\ Never = Horizon + 1
BY ExchangeAssumption DEF Never

----------------------------------------------------------------------------
LEMMA ExchangeInitInv == ExchangeInit => ExchangeInv
BY Constants DEF ExchangeInit, ExchangeInv, ExchangeRanges, PipeIsUsedOnce, AskedIsRead,
   RunningIsRead, CleanupIsBounded

(* What the client does (windows.rs:71-200): it asks, and goes at most once. *)
LEMMA ClientStepInv ==
  ASSUME ExchangeInv,
         \/ request \/ read_header \/ header_times_out \/ caller_cancels \/ turn_to_cancel
         \/ cancel_acknowledged \/ cancel_lost \/ grace_ends
  PROVE  ExchangeInv'
<1>1. CASE request
  BY <1>1, Constants DEF request, Closes, ExchangeInv, ExchangeRanges, PipeIsUsedOnce, AskedIsRead,
     RunningIsRead, CleanupIsBounded
<1>2. CASE read_header \/ header_times_out \/ cancel_lost \/ grace_ends
  <2>1. /\ asker \in {"header", "grace", "cancel"} /\ asker' = "done" /\ left' = clock
        /\ UNCHANGED <<clock, serving, served_at>>
    BY <1>2 DEF read_header, header_times_out, cancel_lost, grace_ends, Closes, HeaderDue, GraceDue,
       Polled, Service_side
  <2> QED
    BY <2>1, Constants DEF ExchangeInv, ExchangeRanges, PipeIsUsedOnce, AskedIsRead, RunningIsRead,
       CleanupIsBounded
<1>3. CASE caller_cancels \/ turn_to_cancel \/ cancel_acknowledged
  <2>1. /\ asker \in {"header", "cancel"} /\ asker' \in {"header", "cancel", "grace"}
        /\ UNCHANGED <<clock, serving, served_at, left>>
    BY <1>3 DEF caller_cancels, turn_to_cancel, cancel_acknowledged, Service_side
  <2> QED
    BY <2>1, Constants DEF ExchangeInv, ExchangeRanges, PipeIsUsedOnce, AskedIsRead, RunningIsRead,
       CleanupIsBounded
<1> QED
  BY <1>1, <1>2, <1>3

(* What the service does (windows.rs:331-418): each stage begins now. *)
LEMMA ServiceStepInv ==
  ASSUME ExchangeInv,
         \/ accept \/ operation_returns \/ disconnected \/ stopped_by_service \/ cleaned_up
         \/ operation_times_out
  PROVE  ExchangeInv'
<1>1. UNCHANGED <<clock, asker, left>> /\ served_at' = clock
  BY DEF accept, operation_returns, disconnected, stopped_by_service, cleaned_up,
     operation_times_out, ServiceStep, Client_side
<1>2. \/ serving = "asked" /\ serving' = "running"
      \/ serving = "running" /\ left # Never /\ serving' = "cleanup"
      \/ /\ serving \in {"asked", "running", "cleanup", "closing"}
         /\ serving' \in {"closing", "over"}
  BY DEF accept, operation_returns, disconnected, pipe_closed, stopped_by_service, cleaned_up,
     operation_times_out, DeadlineDue, ServiceStep
<1>3. ExchangeRanges' /\ PipeIsUsedOnce'
  BY <1>1, <1>2, Constants DEF ExchangeInv, ExchangeRanges, PipeIsUsedOnce
<1>4. AskedIsRead'
  BY <1>2 DEF AskedIsRead
<1>5. RunningIsRead'
  BY <1>1, <1>2, Constants DEF ExchangeInv, ExchangeRanges, AskedIsRead, RunningIsRead
<1>6. CleanupIsBounded'
  BY <1>1, <1>2, Constants DEF ExchangeInv, ExchangeRanges, RunningIsRead, CleanupIsBounded
<1> QED
  BY <1>3, <1>4, <1>5, <1>6 DEF ExchangeInv

(* Time waits for whatever is due. *)
LEMMA PassTicksInv == ASSUME ExchangeInv, PassTicks PROVE ExchangeInv'
<1>1. /\ clock' = clock + 1 /\ clock < Horizon /\ asker # "idle"
      /\ UNCHANGED <<asker, left, serving, served_at>>
  BY DEF PassTicks, Client_side, Service_side
<1>2. /\ serving = "asked" => clock - served_at < FRAME_TIMEOUT
      /\ serving = "cleanup" => clock - served_at < SERVER_CLEANUP_GRACE
      /\ serving = "running" => left = Never
  BY Constants DEF PassTicks, Due, CleanupDue, pipe_closed, Waited, ExchangeInv, ExchangeRanges
<1> QED
  BY <1>1, <1>2, Constants DEF ExchangeInv, ExchangeRanges, PipeIsUsedOnce, AskedIsRead,
     RunningIsRead, CleanupIsBounded

LEMMA ExchangeStepInv == ExchangeInv /\ [ExchangeNext]_exchange_vars => ExchangeInv'
<1> SUFFICES ASSUME ExchangeInv, [ExchangeNext]_exchange_vars PROVE ExchangeInv'
  OBVIOUS
<1>1. CASE UNCHANGED exchange_vars
  BY <1>1 DEF exchange_vars, ExchangeInv, ExchangeRanges, PipeIsUsedOnce, AskedIsRead, RunningIsRead,
     CleanupIsBounded
<1> QED
  BY <1>1, ClientStepInv, ServiceStepInv, PassTicksInv DEF ExchangeNext

(* An operation of a client that has gone is over within the time it takes to  *)
(* read the request and to clean up (windows.rs:376-418).                      *)
THEOREM LeftIsStoppedHolds == ExchangeSpec => []LeftIsStopped
<1>1. ExchangeInv => LeftIsStopped
  BY Constants DEF ExchangeInv, ExchangeRanges, RunningIsRead, CleanupIsBounded, LeftIsStopped, Waited
<1> QED
  BY <1>1, ExchangeInitInv, ExchangeStepInv, PTL DEF ExchangeSpec

----------------------------------------------------------------------------
(***************************************************************************)
(* Proof, for any frames, capacity, validity and skew, that a signed frame *)
(* is carried out once, while the machine's clock is not set back.         *)
(*                                                                         *)
(* A frame that was taken is in the cache or is too old to be verified:    *)
(* the queue is in the order the entries were seen, so what leaves it at   *)
(* the front has expired, and NONCE_TTL covers the validity of a frame and *)
(* the skew of the clock that signed it. The machine's clock is since as   *)
(* far ahead of the monotonic one as it was, or further.                   *)
(***************************************************************************)

CacheRanges ==
  /\ time \in Nat /\ offset \in Int
  /\ DOMAIN issued \subseteq Frames /\ \A f \in DOMAIN issued : issued[f] \in Int
  /\ queue \in Seq(Frames)
  /\ DOMAIN entries = {queue[i] : i \in 1..Len(queue)}
  /\ \A g \in DOMAIN entries : entries[g] \in 0..time
  /\ taken \in [Frames -> Nat] /\ exposed \subseteq Frames
  /\ \A f \in Frames \ exposed : taken[f] \in {0, 1}

(* In the order they came. *)
QueueIsSorted ==
  \A i, j \in 1..Len(queue) : i <= j => entries[queue[i]] <= entries[queue[j]]

(* What was taken is remembered for as long as its frame could be verified. *)
TakenIsKnown ==
  \A f \in Frames \ exposed : taken[f] = 1 =>
    /\ f \in DOMAIN issued
    /\ f \in DOMAIN entries => issued[f] <= entries[f] + offset + CLOCK_SKEW
    /\ f \notin DOMAIN entries => issued[f] < Wall - FRAME_VALIDITY

CacheInv == CacheRanges /\ QueueIsSorted /\ TakenIsKnown /\ ~crowded

LEMMA Times ==
  /\ MAX_NONCES \in Nat /\ FRAME_VALIDITY \in Nat /\ CLOCK_SKEW \in Nat /\ NONCE_TTL \in Nat
  /\ FRAME_VALIDITY + CLOCK_SKEW <= NONCE_TTL
  /\ Offsets \subseteq Int
BY CacheAssumption

----------------------------------------------------------------------------
(* The loop of accept stops (protocol.rs:301-311): a longest expired start exists. *)
LEMMA StaleIsFound ==
  ASSUME queue \in Seq(Frames)
  PROVE  /\ Stale \in 0..Len(queue)
         /\ \A i \in 1..Stale : Expired(queue[i])
         /\ Stale < Len(queue) => ~Expired(queue[Stale + 1])
<1> DEFINE Stops == {m \in Nat : m >= Len(queue) \/ ~Expired(queue[m + 1])}
<1>1. Len(queue) \in Nat
  OBVIOUS
<1>2. Len(queue) \in Stops /\ Stops \subseteq Nat
  BY <1>1
<1>3. PICK n \in Nat : n \in Stops /\ \A y \in Stops : y >= n
  <2> HIDE DEF Stops
  <2>1. PICK n \in Stops : \A y \in Stops : ~(<<y, n>> \in OpToRel(<, Nat))
    BY <1>2, NatLessThanWellFounded, WFMin
  <2>2. ASSUME NEW y \in Stops, y < n PROVE FALSE
    <3>1. <<y, n>> \in Nat \X Nat
      BY <1>2
    <3>2. <<y, n>> \in OpToRel(<, Nat)
      BY <2>2, <3>1 DEF OpToRel
    <3> QED
      BY <2>1, <3>2
  <2>3. \A y \in Stops : y >= n
    <3> SUFFICES ASSUME NEW y \in Stops PROVE y >= n
      OBVIOUS
    <3>1. y \in Nat /\ n \in Nat /\ ~(y < n)
      BY <1>2, <2>2
    <3> QED
      BY <3>1
  <2> QED
    BY <1>2, <2>3
<1>4. \A m \in Nat : m \in Stops <=> m >= Len(queue) \/ ~Expired(queue[m + 1])
  OBVIOUS
<1> HIDE DEF Stops
<1>5. n \in 0..Len(queue)
  BY <1>1, <1>2, <1>3
<1>6. \A i \in 1..n : Expired(queue[i])
  <2> SUFFICES ASSUME NEW i \in 1..n PROVE Expired(queue[i])
    OBVIOUS
  <2>1. i - 1 \in Nat /\ ~(i - 1 >= n) /\ (i - 1) + 1 = i
    BY <1>5
  <2>2. i - 1 \notin Stops
    BY <1>3, <2>1
  <2> QED
    BY <1>4, <2>1, <2>2
<1>7. n < Len(queue) => ~Expired(queue[n + 1])
  <2>1. n < Len(queue) => ~(n >= Len(queue))
    BY <1>1
  <2> QED
    BY <1>3, <1>4, <2>1
<1> QED
  BY <1>5, <1>6, <1>7 DEF Stale

----------------------------------------------------------------------------
(* Nothing was signed and nothing is remembered. *)
LEMMA CacheInitInv == CacheInit => CacheInv
<1> SUFFICES ASSUME CacheInit PROVE CacheInv
  OBVIOUS
<1>1. queue = <<>> /\ queue \in Seq(Frames) /\ Len(queue) = 0 /\ 1..Len(queue) = {}
  BY DEF CacheInit
<1>2. DOMAIN entries = {}
  BY DEF CacheInit
<1>3. /\ DOMAIN issued = {} /\ taken \in [Frames -> Nat] /\ exposed = {} /\ offset = 0
      /\ \A f \in Frames : taken[f] = 0
  BY DEF CacheInit
<1>4. CacheRanges
  BY <1>1, <1>2, <1>3 DEF CacheInit, CacheRanges
<1> QED
  BY <1>1, <1>3, <1>4 DEF CacheInit, CacheInv, QueueIsSorted, TakenIsKnown

LEMMA SignInv == ASSUME CacheInv, NEW f \in Frames, sign(f) PROVE CacheInv'
<1>1. /\ f \notin DOMAIN issued
      /\ UNCHANGED <<time, offset, entries, queue, taken, exposed, crowded>>
  BY DEF sign
<1>2. PICK skew \in -CLOCK_SKEW..CLOCK_SKEW :
        issued' = [g \in DOMAIN issued \cup {f} |-> IF g = f THEN Wall + skew ELSE issued[g]]
  BY DEF sign
<1>3. /\ DOMAIN issued' = DOMAIN issued \cup {f}
      /\ \A g \in DOMAIN issued : issued'[g] = issued[g]
      /\ issued'[f] \in Int
  BY <1>1, <1>2, Times DEF CacheInv, CacheRanges, Wall
<1>4. CacheRanges' /\ QueueIsSorted' /\ ~crowded'
  BY <1>1, <1>3 DEF CacheInv, CacheRanges, QueueIsSorted
<1>5. TakenIsKnown'
  BY <1>1, <1>3 DEF CacheInv, TakenIsKnown, Wall
<1> QED
  BY <1>4, <1>5 DEF CacheInv

LEMMA TickInv == ASSUME CacheInv, Tick PROVE CacheInv'
<1>1. /\ time \in Nat /\ offset \in Int /\ time' = time + 1
      /\ UNCHANGED <<offset, issued, entries, queue, taken, exposed, crowded>>
  BY DEF Tick, CacheInv, CacheRanges
<1>2. CacheRanges'
  <2>1. \A g \in DOMAIN entries : entries[g] \in 0..time'
    BY <1>1 DEF CacheInv, CacheRanges
  <2> QED
    BY <1>1, <2>1 DEF CacheInv, CacheRanges
<1>3. TakenIsKnown'
  <2>1. \A f \in DOMAIN issued : issued[f] < Wall - FRAME_VALIDITY => issued[f] < Wall' - FRAME_VALIDITY
    BY <1>1, Times DEF CacheInv, CacheRanges, Wall
  <2> QED
    BY <1>1, <2>1 DEF CacheInv, TakenIsKnown
<1> QED
  BY <1>1, <1>2, <1>3 DEF CacheInv, QueueIsSorted

(* Set forward, the machine's clock leaves an old frame old; set back, it exposes *)
(* what was taken.                                                                *)
LEMMA ClockIsSetInv == ASSUME CacheInv, clock_is_set PROVE CacheInv'
<1>1. PICK o \in Offsets :
        /\ offset' = o
        /\ exposed' = IF o < offset THEN {f \in Frames : taken[f] > 0} ELSE exposed
  BY DEF clock_is_set
<1>2. UNCHANGED <<time, issued, entries, queue, taken, crowded>>
  BY DEF clock_is_set
<1>3. time \in Nat /\ offset \in Int /\ offset' \in Int
  BY <1>1, Times DEF CacheInv, CacheRanges
<1>4. CASE offset' < offset
  <2>1. exposed' = {f \in Frames : taken[f] > 0}
    BY <1>1, <1>4
  <2>2. \A f \in Frames \ exposed' : taken[f] = 0
    BY <2>1 DEF CacheInv, CacheRanges
  <2>3. CacheRanges'
    BY <1>2, <1>3, <2>1, <2>2 DEF CacheInv, CacheRanges
  <2>4. TakenIsKnown'
    BY <1>2, <2>2 DEF TakenIsKnown
  <2> QED
    BY <1>2, <2>3, <2>4 DEF CacheInv, QueueIsSorted
<1>5. CASE ~(offset' < offset)
  <2>1. exposed' = exposed
    BY <1>1, <1>5
  <2>2. TakenIsKnown'
    <3> SUFFICES ASSUME NEW f \in Frames \ exposed, taken[f] = 1
                 PROVE  /\ f \in DOMAIN issued
                        /\ f \in DOMAIN entries => issued[f] <= entries[f] + offset' + CLOCK_SKEW
                        /\ f \notin DOMAIN entries => issued[f] < Wall' - FRAME_VALIDITY
      BY <1>2, <2>1 DEF TakenIsKnown
    <3>1. /\ f \in DOMAIN issued /\ issued[f] \in Int
          /\ f \in DOMAIN entries => entries[f] \in Int /\ issued[f] <= entries[f] + offset + CLOCK_SKEW
          /\ f \notin DOMAIN entries => issued[f] < Wall - FRAME_VALIDITY
      BY DEF CacheInv, CacheRanges, TakenIsKnown
    <3> QED
      BY <1>2, <1>3, <1>5, <3>1, Times DEF Wall
  <2> QED
    BY <1>2, <1>3, <2>1, <2>2 DEF CacheInv, CacheRanges, QueueIsSorted
<1> QED
  BY <1>4, <1>5

(* What has not expired is left: in order, young, and all a frame that can be *)
(* verified may need.                                                         *)
LEMMA HandleInv == ASSUME CacheInv, NEW f \in Frames, handle(f) PROVE CacheInv'
<1> DEFINE remaining == SubSeq(queue, Stale + 1, Len(queue))
           remembered == [g \in {remaining[i] : i \in 1..Len(remaining)} |-> entries[g]]
<1>0. queue \in Seq(Frames) /\ Len(queue) \in Nat /\ time \in Nat /\ offset \in Int /\ Wall = time + offset
  BY DEF CacheInv, CacheRanges, Wall
<1>1. /\ Stale \in 0..Len(queue)
      /\ \A i \in 1..Stale : Expired(queue[i])
      /\ Stale < Len(queue) => ~Expired(queue[Stale + 1])
  BY <1>0, StaleIsFound
<1>2. /\ remaining \in Seq(Frames) /\ Len(remaining) = Len(queue) - Stale
      /\ \A i \in 1..Len(remaining) : remaining[i] = queue[i + Stale] /\ i + Stale \in 1..Len(queue)
  <2>1. \A i \in Stale + 1..Len(queue) : queue[i] \in Frames
    BY <1>0, <1>1, ElementOfSeq
  <2>2. /\ remaining \in Seq(Frames)
        /\ Len(remaining) = IF Stale + 1 <= Len(queue) THEN Len(queue) - (Stale + 1) + 1 ELSE 0
        /\ \A i \in 1..Len(queue) - (Stale + 1) + 1 : remaining[i] = queue[Stale + 1 + i - 1]
    BY <1>0, <1>1, <2>1, SubSeqProperties
  <2> QED
    BY <1>0, <1>1, <2>2
<1> HIDE DEF remaining
<1>3. DOMAIN remembered = {remaining[i] : i \in 1..Len(remaining)}
        /\ \A g \in DOMAIN remembered : g \in DOMAIN entries /\ remembered[g] = entries[g]
  BY <1>2 DEF CacheInv, CacheRanges
<1>4. \A i, j \in 1..Len(remaining) : i <= j => remembered[remaining[i]] <= remembered[remaining[j]]
  <2> SUFFICES ASSUME NEW i \in 1..Len(remaining), NEW j \in 1..Len(remaining), i <= j
               PROVE  remembered[remaining[i]] <= remembered[remaining[j]]
    OBVIOUS
  <2>1. remembered[remaining[i]] = entries[remaining[i]] /\ remembered[remaining[j]] = entries[remaining[j]]
    BY <1>3
  <2>2. /\ i + Stale \in 1..Len(queue) /\ j + Stale \in 1..Len(queue) /\ i + Stale <= j + Stale
        /\ remaining[i] = queue[i + Stale] /\ remaining[j] = queue[j + Stale]
    BY <1>0, <1>1, <1>2
  <2> HIDE DEF remembered
  <2> QED
    BY <2>1, <2>2 DEF CacheInv, QueueIsSorted
<1>5. \A g \in DOMAIN remembered : remembered[g] \in 0..time /\ ~(remembered[g] < time - NONCE_TTL)
  <2> SUFFICES ASSUME NEW i \in 1..Len(remaining)
               PROVE  /\ remembered[remaining[i]] \in 0..time
                      /\ ~(remembered[remaining[i]] < time - NONCE_TTL)
    BY <1>3
  <2>1. remaining[i] \in DOMAIN remembered
    BY <1>3
  <2>2. remembered[remaining[i]] \in 0..time
    BY <1>3, <2>1 DEF CacheInv, CacheRanges
  <2>3. 1 \in 1..Len(remaining) /\ Stale < Len(queue) /\ remaining[1] = queue[Stale + 1]
    BY <1>0, <1>1, <1>2
  <2>4. ~(remembered[remaining[1]] < time - NONCE_TTL) /\ remembered[remaining[1]] \in 0..time
    <3>1. remaining[1] \in DOMAIN remembered
      BY <1>3, <2>3
    <3> QED
      BY <1>1, <1>3, <2>3, <3>1 DEF Expired, CacheInv, CacheRanges
  <2>5. remembered[remaining[1]] <= remembered[remaining[i]]
    BY <1>4, <2>3
  <2> HIDE DEF remembered
  <2> QED
    BY <1>0, <2>2, <2>4, <2>5, Times
(* What leaves the cache is too old to be verified. *)
<1>6. \A g \in Frames \ exposed : taken[g] = 1 =>
        /\ g \in DOMAIN remembered => issued[g] <= remembered[g] + offset + CLOCK_SKEW
        /\ g \notin DOMAIN remembered => issued[g] < Wall - FRAME_VALIDITY
  <2> SUFFICES ASSUME NEW g \in Frames \ exposed, taken[g] = 1,
                      g \notin DOMAIN remembered, g \in DOMAIN entries
               PROVE  issued[g] < Wall - FRAME_VALIDITY
    BY <1>3 DEF CacheInv, TakenIsKnown
  <2>1. PICK i \in 1..Len(queue) : g = queue[i]
    BY DEF CacheInv, CacheRanges
  <2>2. i <= Stale
    <3> SUFFICES ASSUME i > Stale PROVE FALSE
      BY <1>0, <1>1
    <3>1. i - Stale \in 1..Len(remaining) /\ (i - Stale) + Stale = i
      BY <1>0, <1>1, <1>2
    <3>2. remaining[i - Stale] = g
      BY <1>2, <2>1, <3>1
    <3> QED
      BY <1>3, <3>1, <3>2
  <2>3. entries[g] < time - NONCE_TTL
    BY <1>1, <2>1, <2>2 DEF Expired
  <2>4. issued[g] <= entries[g] + offset + CLOCK_SKEW /\ issued[g] \in Int /\ entries[g] \in Int
    BY DEF CacheInv, CacheRanges, TakenIsKnown
  <2> QED
    BY <1>0, <2>3, <2>4, Times
<1>7. CASE f \in DOMAIN remembered \/ Len(remaining) >= MAX_NONCES
  <2>1. /\ queue' = remaining /\ entries' = remembered /\ UNCHANGED <<time, offset, issued, exposed, taken>>
        /\ crowded' = FALSE
    BY <1>5, <1>7 DEF handle, remaining, CacheInv
  <2> HIDE DEF remembered
  <2> QED
    BY <1>2, <1>3, <1>4, <1>5, <1>6, <2>1 DEF CacheInv, CacheRanges, QueueIsSorted, TakenIsKnown, Wall
<1>8. CASE ~(f \in DOMAIN remembered \/ Len(remaining) >= MAX_NONCES)
  <2>1. /\ queue' = Append(remaining, f)
        /\ entries' = [g \in DOMAIN remembered \cup {f} |-> IF g = f THEN time ELSE remembered[g]]
        /\ taken' = [taken EXCEPT ![f] = @ + 1]
        /\ UNCHANGED <<time, offset, issued, exposed, crowded>>
    BY <1>8 DEF handle, remaining
  <2> HIDE DEF remembered
  <2>2. /\ queue' \in Seq(Frames) /\ Len(queue') = Len(remaining) + 1 /\ queue'[Len(remaining) + 1] = f
        /\ \A i \in 1..Len(remaining) : queue'[i] = remaining[i]
    BY <1>2, <2>1, AppendProperties
  <2>3. /\ DOMAIN entries' = DOMAIN remembered \cup {f} /\ entries'[f] = time
        /\ \A g \in DOMAIN remembered : entries'[g] = remembered[g]
    BY <1>8, <2>1
  <2>4. /\ f \in DOMAIN issued /\ issued[f] \in Int
        /\ issued[f] >= Wall - FRAME_VALIDITY /\ issued[f] <= Wall + CLOCK_SKEW
    BY DEF handle, verify, CacheInv, CacheRanges
  <2>5. f \notin exposed => taken[f] = 0
    <3> SUFFICES ASSUME f \notin exposed, taken[f] = 1 PROVE FALSE
      BY DEF CacheInv, CacheRanges
    <3>1. issued[f] < Wall - FRAME_VALIDITY
      BY <1>6, <1>8
    <3> QED
      BY <1>0, <2>4, <3>1, Times
  <2>6. /\ taken' \in [Frames -> Nat] /\ \A g \in Frames \ {f} : taken'[g] = taken[g]
        /\ \A g \in Frames \ exposed : taken'[g] \in {0, 1}
    BY <2>1, <2>5 DEF CacheInv, CacheRanges
  <2>7. DOMAIN entries' = {queue'[i] : i \in 1..Len(queue')}
    <3>1. 1..Len(queue') = 1..Len(remaining) \cup {Len(remaining) + 1} /\ Len(remaining) + 1 \in 1..Len(queue')
      BY <1>0, <1>1, <1>2, <2>2
    <3>2. {queue'[i] : i \in 1..Len(queue')} = {remaining[i] : i \in 1..Len(remaining)} \cup {f}
      BY <2>2, <3>1
    <3> QED
      BY <1>3, <2>3, <3>2
  <2>8. \A g \in DOMAIN entries' : entries'[g] \in 0..time
    BY <1>0, <1>5, <2>3
  <2>9. CacheRanges'
    BY <2>1, <2>2, <2>6, <2>7, <2>8 DEF CacheInv, CacheRanges
  <2>10. QueueIsSorted'
    <3> SUFFICES ASSUME NEW i \in 1..Len(remaining) + 1, NEW j \in 1..Len(remaining) + 1, i <= j
                 PROVE  entries'[queue'[i]] <= entries'[queue'[j]]
      BY <2>2 DEF QueueIsSorted
    <3>1. \A k \in 1..Len(remaining) :
            entries'[queue'[k]] = remembered[remaining[k]] /\ remembered[remaining[k]] \in 0..time
      BY <1>3, <1>5, <2>2, <2>3
    <3>2. entries'[queue'[Len(remaining) + 1]] = time
      BY <2>2, <2>3
    <3>3. CASE j = Len(remaining) + 1
      <4>1. CASE i = j
        BY <1>0, <3>2, <3>3, <4>1
      <4>2. CASE i # j
        <5>1. Len(remaining) \in Nat
          BY <1>0, <1>1, <1>2
        <5>2. i \in 1..Len(remaining)
          BY <3>3, <4>2, <5>1
        <5>3. remembered[remaining[i]] \in 0..time
          BY <3>1, <5>2
        <5> QED
          BY <1>0, <3>1, <3>2, <3>3, <5>2, <5>3
      <4> QED
        BY <4>1, <4>2
    <3>4. CASE j # Len(remaining) + 1
      <4>1. i \in 1..Len(remaining) /\ j \in 1..Len(remaining)
        <5>1. Len(remaining) \in Nat
          BY <1>0, <1>1, <1>2
        <5> QED
          BY <3>4, <5>1
      <4> QED
        BY <1>4, <3>1, <4>1
    <3> QED
      BY <3>3, <3>4
  <2>11. TakenIsKnown'
    <3> SUFFICES ASSUME NEW g \in Frames \ exposed, taken'[g] = 1
                 PROVE  /\ g \in DOMAIN issued
                        /\ g \in DOMAIN entries' => issued[g] <= entries'[g] + offset + CLOCK_SKEW
                        /\ g \notin DOMAIN entries' => issued[g] < Wall - FRAME_VALIDITY
      BY <2>1 DEF TakenIsKnown, Wall
    <3>1. CASE g = f
      BY <1>0, <2>3, <2>4, <3>1
    <3>2. CASE g # f
      BY <1>6, <2>3, <2>6, <3>2 DEF CacheInv, TakenIsKnown
    <3> QED
      BY <3>1, <3>2
  <2> QED
    BY <2>1, <2>9, <2>10, <2>11 DEF CacheInv
<1> QED
  BY <1>7, <1>8

LEMMA CacheStepInv == CacheInv /\ [CacheNext]_cache_vars => CacheInv'
<1> SUFFICES ASSUME CacheInv, [CacheNext]_cache_vars PROVE CacheInv'
  OBVIOUS
<1>1. CASE UNCHANGED cache_vars
  BY <1>1 DEF cache_vars, CacheInv, CacheRanges, QueueIsSorted, TakenIsKnown, Wall
<1> QED
  BY <1>1, SignInv, HandleInv, TickInv, ClockIsSetInv DEF CacheNext

(* A frame is carried out once, however often and late it is delivered, unless *)
(* the machine's clock was set back after it was taken; and no room is held by *)
(* an entry that has expired (protocol.rs:234-252, 300-325).                   *)
THEOREM TakenOnceHolds == CacheSpec => []TakenOnce
<1>1. CacheInv => TakenOnce
  BY DEF CacheInv, CacheRanges, TakenOnce
<1> QED
  BY <1>1, CacheInitInv, CacheStepInv, PTL DEF CacheSpec
=============================================================================
