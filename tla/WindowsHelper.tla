--------------------------- MODULE WindowsHelper ----------------------------
(***************************************************************************)
(* Registering and removing the Windows helper (helper/platform/windows.rs *)
(* and windows/service.rs): client programs that prepare, elevate and wait *)
(* at most two minutes, the elevated processes they start, the service     *)
(* with its one permit, and the protected files the two sides share.       *)
(***************************************************************************)
EXTENDS Naturals, FiniteSets

CONSTANTS
  Callers,   \* client programs, each with one call to make
  Users,     \* whose programs they may be
  NoUser

ASSUME HelperAssumption == NoUser \notin Users /\ IsFiniteSet(Callers)

(* Files that are not there, and files that were created and not written.    *)
NoKey == 0
Secrets == 1..Cardinality(Callers)
TornKey == Cardinality(Callers) + 1
TornOwner == [torn |-> TRUE]

VARIABLES
  root, clients, owner, key,   \* the directories and files, by whose they are; the secret
  scm,       \* the service: registered or not, its state
  doomed,    \* it is deleted once it stops
  served,    \* the owner and the secret the running service has read
  permit,    \* its one permit: free, or taken by an operation or a removal
  caller,    \* where each client program stands
  call,      \* what it wants, and for whom
  elevated,  \* where its elevated process stands
  identified,\* the owner its purge has read, or NoUser
  prepared,  \* its reservation was confirmed
  reserved,  \* ghost: and is still in force
  overlapped \* ghost: two elevated processes have run at once

files == <<root, clients, owner, key>>
service == <<scm, doomed, served, permit>>
windows_vars == <<files, service, caller, call, elevated, identified, prepared, reserved, overlapped>>

WindowsInit ==
  /\ root = NoUser /\ clients = NoUser /\ owner = NoUser /\ key = NoKey
  /\ scm = "none" /\ doomed = FALSE /\ served = [user |-> NoUser, secret |-> NoKey]
  /\ permit = "free"
  /\ caller = [c \in Callers |-> "idle"]
  /\ call \in [Callers -> [register : BOOLEAN, user : Users]]
  /\ elevated = [c \in Callers |-> "none"] /\ identified = [c \in Callers |-> NoUser]
  /\ prepared = [c \in Callers |-> FALSE] /\ reserved = prepared /\ overlapped = FALSE

Stand(c, label) == caller' = [caller EXCEPT ![c] = label]
Run(c, label) == elevated' = [elevated EXCEPT ![c] = label]
User(c) == call[c].user

----------------------------------------------------------------------------
(* The client program. *)
Kept == UNCHANGED <<files, call, identified>>
Confirmed(c) ==
  prepared' = [prepared EXCEPT ![c] = TRUE] /\ reserved' = [reserved EXCEPT ![c] = TRUE]

reachable(c) == scm = "running" /\ served.user = User(c)

register(c) ==
  /\ caller[c] = "idle" /\ call[c].register
  /\ Stand(c, "elevate")
  /\ UNCHANGED <<service, elevated, prepared, reserved, overlapped>> /\ Kept

(* remove: the status, then the reservation, or the look at a stopped service. *)
remove(c) ==
  /\ caller[c] = "idle" /\ ~call[c].register
  /\ Stand(c, IF reachable(c) THEN "prepare"
              ELSE IF scm \in {"none", "stopped"} THEN "elevate" ELSE "failed")
  /\ UNCHANGED <<service, elevated, prepared, reserved, overlapped>> /\ Kept

(* Mutant: the service answers and does not hold the permit. *)
PrepareRemoval_NotHeld(c) ==
  /\ caller[c] = "prepare"
  /\ IF reachable(c) /\ permit = "free"
     THEN Confirmed(c) /\ Stand(c, "elevate")
     ELSE Stand(c, "failed") /\ UNCHANGED <<prepared, reserved>>
  /\ UNCHANGED <<service, elevated, overlapped>> /\ Kept

(* The answer may come too late: the reservation stays and nobody has it. *)
PrepareRemoval(c) ==
  /\ caller[c] = "prepare"
  /\ IF reachable(c) /\ permit = "free"
     THEN /\ permit' = "removal"
          /\ \/ Confirmed(c) /\ Stand(c, "elevate")
             \/ UNCHANGED <<prepared, reserved>> /\ Stand(c, "failed")
     ELSE Stand(c, "failed") /\ UNCHANGED <<permit, prepared, reserved>>
  /\ UNCHANGED <<scm, doomed, served, elevated, overlapped>> /\ Kept

(* The user may refuse, which ends the wait at once. *)
elevate(c) ==
  /\ caller[c] = "elevate"
  /\ \/ /\ Stand(c, "waiting") /\ Run(c, IF call[c].register THEN "root" ELSE "open")
        /\ overlapped' = (overlapped \/ \E d \in Callers : elevated[d] \notin {"none", "ok", "error"})
     \/ /\ Stand(c, IF call[c].register THEN "failed" ELSE "abort")
        /\ UNCHANGED <<elevated, overlapped>>
  /\ UNCHANGED <<service, prepared, reserved>> /\ Kept

(* It ends, or two minutes have passed and it goes on. *)
awaited(c) ==
  /\ caller[c] = "waiting"
  /\ Stand(c, IF elevated[c] = "ok" THEN "settle"
              ELSE IF call[c].register THEN "failed" ELSE "abort")
  /\ UNCHANGED <<service, elevated, prepared, reserved, overlapped>> /\ Kept

(* AbortRemoval takes the reservation away, whosever it is. *)
abort(c) ==
  /\ caller[c] = "abort"
  /\ Stand(c, "failed")
  /\ IF prepared[c] /\ reachable(c) /\ permit = "removal"
     THEN /\ permit' = "free" /\ reserved' = [d \in Callers |-> FALSE]
     ELSE UNCHANGED <<permit, reserved>>
  /\ UNCHANGED <<scm, doomed, served, elevated, prepared, overlapped>> /\ Kept

(* wait_for_status: ten seconds. *)
wait_for_status(c) ==
  /\ caller[c] = "settle"
  /\ \/ Stand(c, "failed")
     \/ /\ IF call[c].register THEN reachable(c) /\ key \in Secrets /\ owner = User(c) ELSE scm = "none"
        /\ Stand(c, "done")
  /\ UNCHANGED <<service, elevated, prepared, reserved, overlapped>> /\ Kept

----------------------------------------------------------------------------
(* The elevated installation: provision, then the service. *)
Elevated == UNCHANGED <<caller, call, prepared, reserved, overlapped>>
NotPurging == UNCHANGED identified

(* create_protected_directory: made, or there and protected for this user. *)
create_root(c) ==
  /\ elevated[c] = "root" /\ root \in {NoUser, User(c)}
  /\ root' = User(c) /\ Run(c, "clients")
  /\ UNCHANGED <<clients, owner, key, service>> /\ Elevated /\ NotPurging

create_clients(c) ==
  /\ elevated[c] = "clients" /\ root # NoUser /\ clients \in {NoUser, User(c)}
  /\ clients' = User(c)
  /\ Run(c, IF owner = NoUser THEN "write owner" ELSE "check owner")
  /\ UNCHANGED <<root, owner, key, service>> /\ Elevated /\ NotPurging

(* write_new: the file is made, then written. *)
create_owner(c) ==
  /\ elevated[c] = "write owner" /\ root # NoUser /\ owner = NoUser
  /\ owner' = TornOwner /\ Run(c, "fill owner")
  /\ UNCHANGED <<root, clients, key, service>> /\ Elevated /\ NotPurging

fill_owner(c) ==
  /\ elevated[c] = "fill owner" /\ owner = TornOwner
  /\ owner' = User(c) /\ Run(c, "check owner")
  /\ UNCHANGED <<root, clients, key, service>> /\ Elevated /\ NotPurging

registered_owner(u) == owner = u /\ root = u /\ clients = u

(* Mutant: every registration makes a new key. *)
check_owner_Fresh(c) ==
  /\ elevated[c] = "check owner" /\ registered_owner(User(c))
  /\ key' = NoKey /\ Run(c, "write key")
  /\ UNCHANGED <<root, clients, owner, service>> /\ Elevated /\ NotPurging

check_owner(c) ==
  /\ elevated[c] = "check owner" /\ registered_owner(User(c))
  /\ Run(c, IF key = NoKey THEN "write key" ELSE "install")
  /\ UNCHANGED <<files, service>> /\ Elevated /\ NotPurging

create_key(c) ==
  /\ elevated[c] = "write key" /\ clients = User(c) /\ key = NoKey
  /\ key' = TornKey /\ Run(c, "fill key")
  /\ UNCHANGED <<root, clients, owner, service>> /\ Elevated /\ NotPurging

(* A new secret: the one of this call. *)
Fresh == CHOOSE s \in Secrets : s = Cardinality({c \in Callers : caller[c] # "idle"})
fill_key(c) ==
  /\ elevated[c] = "fill key" /\ key = TornKey
  /\ key' = Fresh /\ Run(c, "install")
  /\ UNCHANGED <<root, clients, owner, service>> /\ Elevated /\ NotPurging

CreateService(c) ==
  /\ elevated[c] = "install" /\ ~doomed
  /\ scm' = IF scm = "none" THEN "stopped" ELSE scm
  /\ Run(c, "start")
  /\ UNCHANGED <<files, doomed, served, permit>> /\ Elevated /\ NotPurging

(* The process reads owner and key, or does not come up; one that runs goes on. *)
StartService(c) ==
  /\ elevated[c] = "start" /\ ~doomed
  /\ \/ scm = "running" /\ UNCHANGED service
     \/ /\ scm = "stopped" /\ key \in Secrets /\ owner \in Users /\ registered_owner(owner)
        /\ scm' = "running" /\ served' = [user |-> owner, secret |-> key]
        /\ UNCHANGED <<doomed, permit>>
  /\ Run(c, "ok")
  /\ UNCHANGED files /\ Elevated /\ NotPurging

----------------------------------------------------------------------------
(* The elevated removal: the service, then its files. *)
open_service(c) ==
  /\ elevated[c] = "open"
  /\ Run(c, IF scm = "none" THEN "purge" ELSE IF scm = "stopped" THEN "delete" ELSE "stop")
  /\ UNCHANGED <<files, service>> /\ Elevated /\ NotPurging

ControlStop(c) ==
  /\ elevated[c] = "stop"
  /\ \/ scm = "running" /\ scm' = "stopping"
     \/ scm \in {"stopped", "none"} /\ UNCHANGED scm
  /\ Run(c, "await stop")
  /\ UNCHANGED <<files, doomed, served, permit>> /\ Elevated /\ NotPurging

wait_service_state(c) ==
  /\ elevated[c] = "await stop" /\ scm \in {"stopped", "none"}
  /\ Run(c, "delete")
  /\ UNCHANGED <<files, service>> /\ Elevated /\ NotPurging

(* A service that came up again in between is deleted when it stops. *)
DeleteService(c) ==
  /\ elevated[c] = "delete" /\ scm # "none" /\ ~doomed
  /\ IF scm = "stopped" THEN scm' = "none" /\ UNCHANGED doomed ELSE doomed' = TRUE /\ UNCHANGED scm
  /\ Run(c, "purge")
  /\ UNCHANGED <<files, served, permit>> /\ Elevated /\ NotPurging

(* purge_state: no owner record, or one that holds. *)
purge_state(c) ==
  /\ elevated[c] = "purge"
  /\ \/ root = NoUser /\ Run(c, "ok") /\ UNCHANGED identified
     \/ /\ root # NoUser
        /\ owner = NoUser \/ (owner \in Users /\ registered_owner(owner))
        /\ identified' = [identified EXCEPT ![c] = owner]
        /\ Run(c, IF clients = NoUser THEN "remove owner"
                  ELSE IF owner = NoUser THEN "remove clients" ELSE "remove key")
  /\ UNCHANGED <<files, service>> /\ Elevated

remove_key(c) ==
  /\ elevated[c] = "remove key"
  /\ key' = NoKey /\ Run(c, "remove clients")
  /\ UNCHANGED <<root, clients, owner, service>> /\ Elevated /\ NotPurging

(* remove_dir: only when empty. *)
remove_clients(c) ==
  /\ elevated[c] = "remove clients" /\ clients # NoUser /\ key = NoKey
  /\ clients' = NoUser /\ Run(c, "remove owner")
  /\ UNCHANGED <<root, owner, key, service>> /\ Elevated /\ NotPurging

remove_owner(c) ==
  /\ elevated[c] = "remove owner" /\ (identified[c] # NoUser => owner # NoUser)
  /\ owner' = IF identified[c] # NoUser THEN NoUser ELSE owner
  /\ Run(c, "remove root")
  /\ UNCHANGED <<root, clients, key, service>> /\ Elevated /\ NotPurging

remove_root(c) ==
  /\ elevated[c] = "remove root" /\ root # NoUser /\ clients = NoUser /\ owner = NoUser
  /\ root' = NoUser /\ Run(c, "ok")
  /\ UNCHANGED <<clients, owner, key, service>> /\ Elevated /\ NotPurging

(* A call of it fails or finds what it does not expect, or it is killed: what *)
(* it has done stays, a file that was made and not written too.               *)
elevated_fails(c) ==
  /\ elevated[c] \notin {"none", "ok", "error"}
  /\ Run(c, "error")
  /\ UNCHANGED <<files, service>> /\ Elevated /\ NotPurging

----------------------------------------------------------------------------
(* The service. *)

(* An operation of a program that signs with the key on disk. *)
Operation ==
  /\ scm = "running" /\ permit = "free" /\ key = served.secret /\ registered_owner(served.user)
  /\ permit' = "operation"
  /\ UNCHANGED <<files, scm, doomed, served, caller, call, elevated, identified, prepared, reserved, overlapped>>

operation_ends ==
  /\ permit = "operation" /\ permit' = "free"
  /\ UNCHANGED <<files, scm, doomed, served, caller, call, elevated, identified, prepared, reserved, overlapped>>

(* It has stopped, after twelve seconds at most, or it died; with it goes what *)
(* it held.                                                                    *)
service_ends ==
  /\ scm \in {"stopping", "running"}
  /\ scm' = (IF doomed THEN "none" ELSE "stopped") /\ doomed' = FALSE
  /\ permit' = "free" /\ served' = [user |-> NoUser, secret |-> NoKey]
  /\ reserved' = [c \in Callers |-> FALSE]
  /\ UNCHANGED <<files, caller, call, elevated, identified, prepared, overlapped>>

install(c) ==
  \/ create_root(c) \/ create_clients(c) \/ create_owner(c) \/ fill_owner(c) \/ check_owner(c)
  \/ create_key(c) \/ fill_key(c) \/ CreateService(c) \/ StartService(c)

uninstall(c) ==
  \/ open_service(c) \/ ControlStop(c) \/ wait_service_state(c) \/ DeleteService(c)
  \/ purge_state(c) \/ remove_key(c) \/ remove_clients(c) \/ remove_owner(c) \/ remove_root(c)

WindowsNext ==
  \/ \E c \in Callers :
       \/ register(c) \/ remove(c) \/ PrepareRemoval(c) \/ elevate(c) \/ awaited(c) \/ abort(c)
       \/ wait_for_status(c)
       \/ install(c) \/ uninstall(c) \/ elevated_fails(c)
  \/ Operation \/ operation_ends \/ service_ends

WindowsSpec == WindowsInit /\ [][WindowsNext]_windows_vars

----------------------------------------------------------------------------
(* A removal that reserved the helper stops it while no operation runs: from  *)
(* its answer to PrepareRemoval until an AbortRemoval or the end of that      *)
(* service, whatever other programs ask for meanwhile (windows.rs:127-155,    *)
(* 299-325).                                                                  *)
RemovalSparesOperation ==
  [][\A c \in Callers :
       elevated[c] = "stop" /\ scm = "running" /\ scm' = "stopping" /\ elevated'[c] = "await stop"
         => (reserved[c] => permit # "operation")]_windows_vars

(* The running service has the owner and the key that are on disk, so that    *)
(* programs it should serve can sign for it, whatever failed and was repeated *)
(* before, as long as no two elevated processes ran at once                   *)
(* (windows.rs:597-645, 713-748).                                             *)
ServedIsRecorded ==
  scm = "running" /\ ~overlapped =>
    registered_owner(served.user) /\ key = served.secret
============================================================================
