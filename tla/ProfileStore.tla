---------------------------- MODULE ProfileStore ----------------------------
(***************************************************************************)
(* The profile store (runtime/profiles.rs) over the sidecar lock and the   *)
(* atomic replacement of platform/lib.rs: several processes save, delete   *)
(* and read, calls fail, processes are killed and the machine stops        *)
(* between any two of them.                                                *)
(***************************************************************************)
EXTENDS Naturals, FiniteSets

CONSTANTS
  Processes,    \* programs that share the store
  Names,        \* of profiles
  NoProcess,    \* nobody holds the lock
  MaxWrites     \* bound: operations begun

ASSUME StoreAssumption == MaxWrites \in Nat /\ Names # {} /\ NoProcess \notin Processes

(* A store maps each name to the write its value is of, or to NoProfile; a file that *)
(* was not written in full is Torn.                                             *)
NoProfile == 0
Stores == [Names -> 0..MaxWrites]
EmptyStore == [n \in Names |-> NoProfile]
Torn == [n \in Names |-> MaxWrites + 1]

VARIABLES
  file,        \* the store at its path
  durable,     \* what a stop of the machine may leave there
  holder,      \* of the sidecar lock
  at_step,     \* where each process stands
  task,        \* its operation: a name, and the write or NoProfile
  copy,        \* the store it read, changed
  staged_file, \* its temporary file: absent, written or synced
  answer,      \* what its last operation returned
  possible,    \* ghost: per name, what may be there
  strays,      \* temporary files nobody will remove
  writes_begun

store_vars == <<file, durable, holder, at_step, task, copy, staged_file, answer, possible,
                strays, writes_begun>>

Tasks == [name: Names, value: 0..MaxWrites]

StoreInit ==
  /\ file = EmptyStore /\ durable = {EmptyStore} /\ holder = NoProcess
  /\ at_step = [p \in Processes |-> "idle"]
  /\ task = [p \in Processes |-> [name |-> CHOOSE n \in Names : TRUE, value |-> NoProfile]]
  /\ copy = [p \in Processes |-> EmptyStore]
  /\ staged_file = [p \in Processes |-> "absent"]
  /\ answer = [p \in Processes |-> "none"]
  /\ possible = [n \in Names |-> {NoProfile}] /\ strays = 0 /\ writes_begun = 0

move(p, label) == at_step' = [at_step EXCEPT ![p] = label]

(* save and delete: names and parameters are validated first, which changes nothing. *)
start(p, name, delete) ==
  /\ at_step[p] = "idle" /\ writes_begun < MaxWrites
  /\ writes_begun' = writes_begun + 1
  /\ task' = [task EXCEPT ![p] = [name |-> name, value |-> IF delete THEN NoProfile ELSE writes_begun + 1]]
  /\ possible' = [possible EXCEPT ![name] = @ \cup {task'[p].value}]
  /\ answer' = [answer EXCEPT ![p] = "none"]
  /\ move(p, "locking")
  /\ UNCHANGED <<file, durable, holder, copy, staged_file, strays>>

(* Mutant: whoever waited long enough goes on. *)
acquire_Expired(p) ==
  /\ at_step[p] = "locking"
  /\ holder' = p /\ move(p, "reading")
  /\ UNCHANGED <<file, durable, task, copy, staged_file, answer, possible, strays, writes_begun>>

acquire(p) ==
  /\ at_step[p] = "locking" /\ holder = NoProcess
  /\ holder' = p /\ move(p, "reading")
  /\ UNCHANGED <<file, durable, task, copy, staged_file, answer, possible, strays, writes_begun>>

(* Another process holds it for fifteen seconds, or the path is refused. *)
busy(p) ==
  /\ at_step[p] = "locking"
  /\ move(p, "idle") /\ answer' = [answer EXCEPT ![p] = "error"]
  /\ UNCHANGED <<file, durable, holder, task, copy, staged_file, possible, strays, writes_begun>>

(* The lock goes with the end of the operation; nobody else's does. *)
Release(p) == holder' = IF holder = p THEN NoProcess ELSE holder
Finish(p, result) ==
  /\ move(p, "idle") /\ answer' = [answer EXCEPT ![p] = result] /\ Release(p)

(* A profile that is not there needs no write. *)
read_store(p) ==
  /\ at_step[p] = "reading"
  /\ copy' = [copy EXCEPT ![p] = [file EXCEPT ![task[p].name] = task[p].value]]
  /\ IF task[p].value = NoProfile /\ file[task[p].name] = NoProfile
     THEN Finish(p, "absent") ELSE move(p, "staging") /\ UNCHANGED <<answer, holder>>
  /\ UNCHANGED <<file, durable, task, staged_file, possible, strays, writes_begun>>

(* atomic_bytes: a call of it fails; the temporary file is removed on the way out. *)
store_fails(p) ==
  /\ at_step[p] \in {"reading", "staging", "syncing", "replacing"}
  /\ Finish(p, "error")
  /\ staged_file' = [staged_file EXCEPT ![p] = "absent"]
  /\ UNCHANGED <<file, durable, task, copy, possible, strays, writes_begun>>

stage(p) ==
  /\ at_step[p] = "staging"
  /\ staged_file' = [staged_file EXCEPT ![p] = "written"] /\ move(p, "syncing")
  /\ UNCHANGED <<file, durable, holder, task, copy, answer, possible, strays, writes_begun>>

sync_staged(p) ==
  /\ at_step[p] = "syncing"
  /\ staged_file' = [staged_file EXCEPT ![p] = "synced"] /\ move(p, "replacing")
  /\ UNCHANGED <<file, durable, holder, task, copy, answer, possible, strays, writes_begun>>

(* The rename: seen at once, and on disk sooner or later. *)
persist(p) ==
  /\ at_step[p] = "replacing"
  /\ file' = copy[p]
  /\ durable' = durable \cup {IF staged_file[p] = "synced" THEN copy[p] ELSE Torn}
  /\ staged_file' = [staged_file EXCEPT ![p] = "absent"] /\ move(p, "replaced")
  /\ UNCHANGED <<holder, task, copy, answer, possible, strays, writes_begun>>

(* Only this value, or that of another operation under way, may be there now. *)
Told(p) ==
  possible' = [possible EXCEPT ![task[p].name] =
                 {task[p].value} \cup {task[q].value : q \in {q \in Processes \ {p} :
                    at_step[q] # "idle" /\ task[q].name = task[p].name}}]

(* Mutant: the directory is not synced. *)
sync_parent_No(p) ==
  /\ at_step[p] = "replaced"
  /\ Finish(p, "ok")
  /\ Told(p)
  /\ UNCHANGED <<file, durable, task, copy, staged_file, strays, writes_begun>>

(* Synced, the rename cannot be undone; when that fails, it may. *)
sync_parent(p) ==
  /\ at_step[p] = "replaced"
  /\ \/ /\ Finish(p, "ok") /\ durable' = {file}
        /\ Told(p)
     \/ Finish(p, "error") /\ UNCHANGED <<durable, possible>>
  /\ UNCHANGED <<file, task, copy, staged_file, strays, writes_begun>>

(* A process is killed: its lock goes, its temporary file stays. *)
killed(p) ==
  /\ at_step[p] # "idle"
  /\ Finish(p, "killed")
  /\ strays' = IF staged_file[p] = "absent" THEN strays ELSE strays + 1
  /\ staged_file' = [staged_file EXCEPT ![p] = "absent"]
  /\ UNCHANGED <<file, durable, task, copy, possible, writes_begun>>

(* The machine stops: any of what may be on disk is. *)
power_loss ==
  /\ file' \in durable /\ durable' = {file'} /\ holder' = NoProcess
  /\ at_step' = [p \in Processes |-> "idle"]
  /\ answer' = [p \in Processes |-> IF at_step[p] = "idle" THEN answer[p] ELSE "killed"]
  /\ strays' = strays + Cardinality({p \in Processes : staged_file[p] # "absent"})
  /\ staged_file' = [p \in Processes |-> "absent"]
  /\ UNCHANGED <<task, copy, possible, writes_begun>>

StoreNext ==
  \/ \E p \in Processes :
       \/ \E name \in Names, delete \in BOOLEAN : start(p, name, delete)
       \/ acquire(p) \/ busy(p) \/ read_store(p) \/ store_fails(p)
       \/ stage(p) \/ sync_staged(p) \/ persist(p) \/ sync_parent(p)
       \/ killed(p)
  \/ power_loss

StoreSpec == StoreInit /\ [][StoreNext]_store_vars

----------------------------------------------------------------------------
(* A process changes the profile it was asked to change and no other: none of *)
(* the changes another process made in between is lost (profiles.rs:56-87,    *)
(* platform/lib.rs:217-249).                                                  *)
OthersAreKept ==
  [][\A n \in Names : file'[n] # file[n] =>
       \/ \E p \in Processes : at_step[p] = "replacing" /\ task[p].name = n
       \/ \A p \in Processes : at_step'[p] = "idle"]_store_vars

(* What a process was told is saved, or deleted, stays so until another       *)
(* operation on that name, whenever the machine stops, and the file is never  *)
(* a part of one (platform/lib.rs:161-209, where directories can be synced).  *)
SavedSurvives ==
  /\ file # Torn
  /\ \A n \in Names : file[n] \in possible[n]

(* However the processes interleave and wherever they, or the machine, stop:   *)
(* the one file behaves as a register for each profile, changed only by what   *)
(* is under way on it (profiles.rs:56-104, platform/lib.rs:161-249).           *)
Wanted == [n \in Names |-> {task[p].value : p \in {p \in Processes :
                            at_step[p] # "idle" /\ task[p].name = n}}]

Named == INSTANCE NameStore WITH
  Values <- 0..MaxWrites, Nothing <- NoProfile, value <- file, due <- Wanted, open <- possible

ImplementsNameStore == Named!Spec
============================================================================
