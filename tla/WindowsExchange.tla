--------------------------- MODULE WindowsExchange --------------------------
(***************************************************************************)
(* One operation asked of the Windows helper: request and exchange of      *)
(* helper/platform/windows.rs on one end of the pipe, serve_connection and *)
(* Service::handle on the other, with the frames of framing.rs between     *)
(* them.  Time passes only when nothing that is due is left to do.         *)
(***************************************************************************)
EXTENDS Naturals

CONSTANTS   \* in ticks of five seconds
  FRAME_TIMEOUT,
  CANCELLATION_GRACE,
  SERVER_CLEANUP_GRACE,
  OPERATION_TIMEOUT,
  Horizon   \* bound

ASSUME ExchangeAssumption ==
  {FRAME_TIMEOUT, CANCELLATION_GRACE, SERVER_CLEANUP_GRACE, OPERATION_TIMEOUT, Horizon} \subseteq Nat

VARIABLES
  clock,
  asker,      \* where the client's request stands
  asked,      \* when its exchange began
  waited,     \* when its present wait began
  reply,      \* what its caller gets
  wanted,     \* its caller has not cancelled
  serving,    \* where the service stands with it
  served_at,  \* when that began
  told,       \* the operation's token is cancelled
  answered,   \* the frame on its way to the client
  left        \* when the client closed its pipe, or Never

exchange_vars == <<clock, asker, asked, waited, reply, wanted, serving, served_at, told, answered, left>>
Client_side == <<asker, asked, waited, reply, wanted, left>>
Service_side == <<serving, served_at, told, answered>>

Never == Horizon + 1
Waited(start, limit) == clock - start >= limit

ExchangeInit ==
  /\ clock = 0 /\ asker = "idle" /\ asked = 0 /\ waited = 0 /\ reply = "none"
  /\ wanted = TRUE
  /\ serving = "none" /\ served_at = 0 /\ told = FALSE /\ answered = "none"
  /\ left = Never

----------------------------------------------------------------------------
(* The client. *)
Closes(with) == asker' = "done" /\ reply' = with /\ left' = clock

(* The pipe is opened, the server known, the frame written. *)
request ==
  /\ asker = "idle" /\ asked' = clock
  /\ \/ asker' = "header" /\ serving' = "asked" /\ served_at' = clock /\ UNCHANGED <<reply, left>>
     \/ Closes("Unavailable") /\ UNCHANGED <<serving, served_at>>
  /\ UNCHANGED <<clock, waited, wanted, told, answered>>

Polled == asker \in {"header", "grace"}

read_header ==
  /\ Polled /\ answered # "none"
  /\ Closes(answered)
  /\ UNCHANGED <<clock, asked, waited, wanted>> /\ UNCHANGED Service_side

HeaderDue == Polled /\ answered = "none" /\ Waited(asked, FRAME_TIMEOUT)

header_times_out ==
  /\ HeaderDue
  /\ Closes("Protocol")
  /\ UNCHANGED <<clock, asked, waited, wanted>> /\ UNCHANGED Service_side

caller_cancels ==
  /\ asker = "header" /\ wanted /\ wanted' = FALSE
  /\ UNCHANGED <<clock, asker, asked, waited, reply, left>> /\ UNCHANGED Service_side

(* From here the first exchange is not polled until the second is over. *)
turn_to_cancel ==
  /\ asker = "header" /\ ~wanted
  /\ asker' = "cancel" /\ waited' = clock
  /\ UNCHANGED <<clock, asked, reply, wanted, left>> /\ UNCHANGED Service_side

(* CancelRun, on a pipe of its own: acknowledged, or lost within five seconds. *)
cancel_acknowledged ==
  /\ asker = "cancel"
  /\ asker' = "grace" /\ waited' = clock
  /\ told' = (told \/ serving \in {"asked", "running"})
  /\ UNCHANGED <<clock, asked, reply, wanted, left, serving, served_at, answered>>

cancel_lost ==
  /\ asker = "cancel"
  /\ told' \in {told, told \/ serving \in {"asked", "running"}}
  /\ Closes("Cancelled")
  /\ UNCHANGED <<clock, asked, waited, wanted, serving, served_at, answered>>

GraceDue == asker = "grace" /\ answered = "none" /\ Waited(waited, CANCELLATION_GRACE)

grace_ends ==
  /\ GraceDue
  /\ Closes("Cancelled")
  /\ UNCHANGED <<clock, asked, waited, wanted>> /\ UNCHANGED Service_side

----------------------------------------------------------------------------
(* The service. *)
ServiceStep(step) == serving' = step /\ served_at' = clock

(* It has a slot and the permit for the request, or answers that it has not, *)
(* or closes the pipe: Closed is the client's error then.                    *)
accept ==
  /\ serving = "asked"
  /\ \/ ~told /\ ServiceStep("running") /\ UNCHANGED answered
     \/ told /\ ServiceStep("over") /\ answered' = "Cancelled"
     \/ ServiceStep("over") /\ answered' \in {"Scope", "Closed"}
  /\ UNCHANGED <<clock, told>> /\ UNCHANGED Client_side

(* The work ends, when it ends. *)
operation_returns ==
  /\ serving = "running"
  /\ ServiceStep("over")
  /\ answered' \in (IF told THEN {"ok", "Cancelled"} ELSE {"ok"})
  /\ UNCHANGED <<clock, told>> /\ UNCHANGED Client_side

(* Mutant: the pipe is not read while the operation runs. *)
pipe_closed_Unread == FALSE

(* serve_connection reads the pipe beside the operation. *)
pipe_closed == serving = "running" /\ left # Never

(* The end of the pipe is read: the operation is told, and waited for. *)
disconnected ==
  /\ pipe_closed
  /\ ServiceStep("cleanup") /\ told' = TRUE
  /\ UNCHANGED <<clock, answered>> /\ UNCHANGED Client_side

(* The service stops: the same, but it answers. *)
stopped_by_service ==
  /\ serving = "running"
  /\ ServiceStep("closing") /\ told' = TRUE
  /\ UNCHANGED <<clock, answered>> /\ UNCHANGED Client_side

CleanupDue == serving \in {"cleanup", "closing"} /\ Waited(served_at, SERVER_CLEANUP_GRACE)

cleaned_up ==
  /\ serving \in {"cleanup", "closing"}
  /\ answered' \in (IF serving = "cleanup" THEN {answered}
                    ELSE {"Cancelled"} \cup (IF CleanupDue THEN {} ELSE {"ok"}))
  /\ ServiceStep("over")
  /\ UNCHANGED <<clock, told>> /\ UNCHANGED Client_side

DeadlineDue == serving = "running" /\ Waited(served_at, OPERATION_TIMEOUT)

operation_times_out ==
  /\ DeadlineDue
  /\ ServiceStep("over") /\ answered' = "Protocol"
  /\ UNCHANGED <<clock, told>> /\ UNCHANGED Client_side

----------------------------------------------------------------------------
Due ==
  \/ HeaderDue \/ GraceDue \/ CleanupDue \/ DeadlineDue
  \/ asker = "cancel" /\ Waited(waited, FRAME_TIMEOUT)
  \/ serving = "asked" /\ Waited(served_at, FRAME_TIMEOUT)
  \/ pipe_closed

PassTicks ==
  /\ asker # "idle" /\ clock < Horizon /\ ~Due /\ clock' = clock + 1
  /\ UNCHANGED Client_side /\ UNCHANGED Service_side

ExchangeNext ==
  \/ request \/ read_header \/ header_times_out \/ caller_cancels \/ turn_to_cancel
  \/ cancel_acknowledged \/ cancel_lost \/ grace_ends
  \/ accept \/ operation_returns \/ disconnected \/ stopped_by_service \/ cleaned_up
  \/ operation_times_out \/ PassTicks

ExchangeSpec == ExchangeInit /\ [][ExchangeNext]_exchange_vars
----------------------------------------------------------------------------
(* The service goes on for a client that has gone no longer than it takes to  *)
(* read what it asked and to clean up, whether the client gave up on the      *)
(* answer, was cancelled or could not be told (windows.rs:376-418).           *)
LeftIsStopped ==
  left # Never /\ serving \in {"running", "cleanup"} =>
    ~Waited(left, FRAME_TIMEOUT + SERVER_CLEANUP_GRACE + 1)

(* windows.rs:71, 193, 240: an operation has OPERATION_TIMEOUT, a day, and    *)
(* then fails with "Windows helper operation deadline exceeded".              *)
OperationIsAwaited ==
  serving = "running" /\ asker = "done" /\ wanted /\ reply = "Protocol" =>
    Waited(asked, OPERATION_TIMEOUT)
=============================================================================
