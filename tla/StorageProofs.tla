--------------------------- MODULE StorageProofs ----------------------------
(***************************************************************************)
(* What is kept in files: the profiles, the backup of the tuning, and the  *)
(* staged copy of it that a restore reads.                                 *)
(***************************************************************************)
EXTENDS ProfileStore, BackupPublication, RestoreStaging, SequenceTheorems, TLAPS

----------------------------------------------------------------------------
(***************************************************************************)
(* Proofs about the profile store, for any processes, names and number of  *)
(* writes.                                                                 *)
(*                                                                         *)
(* Who is past the lock holds it, so that the copy it has changed differs  *)
(* from the file in one name until it replaces it; and whatever a stop of  *)
(* the machine may leave has only values that somebody may still find.     *)
(***************************************************************************)

Changing == {"staging", "syncing", "replacing"}
Holding  == {"reading", "replaced"} \cup Changing

Ranges ==
  /\ file \in Stores /\ durable \subseteq Stores
  /\ at_step \in [Processes -> {"idle", "locking"} \cup Holding]
  /\ task \in [Processes -> Tasks]
  /\ copy \in [Processes -> Stores]
  /\ staged_file \in [Processes -> {"absent", "written", "synced"}]
  /\ possible \in [Names -> SUBSET (0..MaxWrites)]
  /\ writes_begun \in 0..MaxWrites

(* The lock is held from the read to the end. *)
LockIsHeld == \A p \in Processes : at_step[p] \in Holding => holder = p

(* Nobody else writes meanwhile: the copy is the file with one change. *)
CopyIsOneChange ==
  \A p \in Processes : at_step[p] \in Changing =>
    copy[p] = [file EXCEPT ![task[p].name] = task[p].value]

(* What is renamed is on disk; what was renamed is what was asked for. *)
CopyIsSynced == \A p \in Processes : at_step[p] = "replacing" => staged_file[p] = "synced"
ReplacedIsSeen ==
  \A p \in Processes : at_step[p] = "replaced" => file[task[p].name] = task[p].value

(* An operation under way may have happened; nothing else is anywhere. *)
IntentIsPossible ==
  \A p \in Processes : at_step[p] # "idle" => task[p].value \in possible[task[p].name]
DiskIsPossible == \A d \in durable \cup {file}, n \in Names : d[n] \in possible[n]

StoreInv ==
  /\ Ranges /\ LockIsHeld /\ CopyIsOneChange /\ CopyIsSynced /\ ReplacedIsSeen
  /\ IntentIsPossible /\ DiskIsPossible

----------------------------------------------------------------------------
(* An empty store that nobody uses (profiles.rs:89-104). *)
LEMMA StoreInitInv == StoreInit => StoreInv
<1> SUFFICES ASSUME StoreInit PROVE StoreInv
  OBVIOUS
<1>1. EmptyStore \in Stores /\ (\A n \in Names : EmptyStore[n] = 0)
  BY StoreAssumption DEF EmptyStore, Stores, NoProfile
<1>2. (CHOOSE n \in Names : TRUE) \in Names
  BY StoreAssumption
<1>3. Ranges
  BY <1>1, <1>2, StoreAssumption DEF StoreInit, Ranges, Tasks, NoProfile
<1>4. DiskIsPossible
  BY <1>1 DEF StoreInit, DiskIsPossible, NoProfile
<1> QED
  BY <1>3, <1>4 DEF StoreInit, StoreInv, LockIsHeld, CopyIsOneChange, CopyIsSynced,
     ReplacedIsSeen, IntentIsPossible, Holding, Changing

(* A step that leaves the files alone and moves at most one process to a place  *)
(* where it claims no more than before.                                         *)
LEMMA Quiet ==
  ASSUME StoreInv, NEW p \in Processes, UNCHANGED <<file, durable, task, copy, possible>>,
         NEW label \in {"idle", "locking"} \cup Holding, move(p, label),
         at_step[p] # "idle",
         staged_file' \in [Processes -> {"absent", "written", "synced"}],
         \A q \in Processes \ {p} : staged_file'[q] = staged_file[q],
         writes_begun' = writes_begun,
         label \in Holding => holder' = p,
         label \notin Holding => Release(p) \/ holder' = holder,
         at_step[p] \in Holding \/ holder = NoProcess \/ label \notin Holding,
         label \in Changing =>
           copy[p] = [file EXCEPT ![task[p].name] = task[p].value],
         label = "replacing" => staged_file'[p] = "synced",
         label # "replaced"
  PROVE  StoreInv'
<1>1. Ranges'
  BY DEF StoreInv, Ranges, move
<1>2. \A q \in Processes : at_step'[q] = IF q = p THEN label ELSE at_step[q]
  BY DEF StoreInv, Ranges, move
<1>3. LockIsHeld'
  BY <1>2, StoreAssumption DEF StoreInv, LockIsHeld, Release, Holding, Changing
<1>4. CopyIsOneChange' /\ CopyIsSynced' /\ ReplacedIsSeen'
  BY <1>2 DEF StoreInv, CopyIsOneChange, CopyIsSynced, ReplacedIsSeen
<1>5. IntentIsPossible' /\ DiskIsPossible'
  BY <1>2 DEF StoreInv, IntentIsPossible, DiskIsPossible
<1> QED
  BY <1>1, <1>3, <1>4, <1>5 DEF StoreInv

(* An operation begins: from now on its value may be found. *)
LEMMA StartInv ==
  ASSUME StoreInv, NEW p \in Processes, NEW name \in Names, NEW delete \in BOOLEAN,
         start(p, name, delete)
  PROVE  StoreInv'
<1> DEFINE value == IF delete THEN NoProfile ELSE writes_begun + 1
<1>1. value \in 0..MaxWrites /\ writes_begun' \in 0..MaxWrites
  BY StoreAssumption DEF StoreInv, Ranges, start, NoProfile
<1>2. \A q \in Processes :
        /\ at_step'[q] = IF q = p THEN "locking" ELSE at_step[q]
        /\ task'[q] = IF q = p THEN [name |-> name, value |-> value] ELSE task[q]
  BY DEF StoreInv, Ranges, start, move
<1>3. \A n \in Names : possible'[n] = IF n = name THEN possible[n] \cup {value} ELSE possible[n]
  BY <1>2 DEF StoreInv, Ranges, start
<1> HIDE DEF value
<1>4. task' \in [Processes -> Tasks] /\ possible' \in [Names -> SUBSET (0..MaxWrites)]
  <2>1. task' \in [Processes -> Tasks]
    BY <1>1, <1>2 DEF StoreInv, Ranges, start, Tasks, value
  <2>2. possible' \in [Names -> SUBSET (0..MaxWrites)]
    BY <1>1, <1>2 DEF StoreInv, Ranges, start
  <2> QED
    BY <2>1, <2>2
<1>5. Ranges'
  BY <1>1, <1>4 DEF StoreInv, Ranges, start, move
<1>6. LockIsHeld' /\ CopyIsOneChange' /\ CopyIsSynced' /\ ReplacedIsSeen'
  BY <1>2 DEF StoreInv, LockIsHeld, CopyIsOneChange, CopyIsSynced, ReplacedIsSeen, start,
     Holding, Changing
<1>7. IntentIsPossible'
  <2> SUFFICES ASSUME NEW q \in Processes, at_step'[q] # "idle"
               PROVE  task'[q].value \in possible'[task'[q].name]
    BY DEF IntentIsPossible
  <2>1. CASE q = p
    <3>1. task'[q].name = name /\ task'[q].value = value
      BY <1>2, <2>1
    <3>2. value \in possible'[name]
      BY <1>3
    <3> QED
      BY <3>1, <3>2
  <2>2. CASE q # p
    <3>1. task'[q] = task[q] /\ at_step[q] # "idle" /\ task[q].name \in Names
      BY <1>2, <2>2 DEF StoreInv, Ranges, Tasks
    <3>2. task[q].value \in possible[task[q].name]
      BY <3>1 DEF StoreInv, IntentIsPossible
    <3> QED
      BY <1>3, <3>1, <3>2
  <2> QED
    BY <2>1, <2>2
<1>8. DiskIsPossible'
  BY <1>3 DEF StoreInv, DiskIsPossible, start
<1> QED
  BY <1>5, <1>6, <1>7, <1>8 DEF StoreInv

(* The lock is free, so nobody is past it (platform/lib.rs:217-249). *)
LEMMA AcquireInv == ASSUME StoreInv, NEW p \in Processes, acquire(p) PROVE StoreInv'
<1>1. at_step[p] = "locking" /\ holder = NoProcess
  BY DEF acquire
<1>2. \A q \in Processes : at_step'[q] = IF q = p THEN "reading" ELSE at_step[q]
  BY DEF StoreInv, Ranges, acquire, move
<1>3. Ranges'
  BY DEF StoreInv, Ranges, acquire, move, Holding
<1>4. LockIsHeld'
  BY <1>1, <1>2, StoreAssumption DEF StoreInv, LockIsHeld, acquire
<1>5. CopyIsOneChange' /\ CopyIsSynced' /\ ReplacedIsSeen' /\ IntentIsPossible' /\ DiskIsPossible'
  BY <1>1, <1>2 DEF StoreInv, CopyIsOneChange, CopyIsSynced, ReplacedIsSeen, IntentIsPossible,
     DiskIsPossible, acquire, Changing
<1> QED
  BY <1>3, <1>4, <1>5 DEF StoreInv

(* The steps that end an operation, or move it on, and leave the files alone. *)
LEMMA EndInv ==
  ASSUME StoreInv, NEW p \in Processes, busy(p) \/ store_fails(p) \/ killed(p)
  PROVE  StoreInv'
<1>1. at_step[p] # "idle" /\ move(p, "idle")
  BY DEF busy, store_fails, killed, Finish
<1>2. staged_file' \in [Processes -> {"absent", "written", "synced"}]
        /\ \A q \in Processes \ {p} : staged_file'[q] = staged_file[q]
  BY DEF StoreInv, Ranges, busy, store_fails, killed
<1>3. UNCHANGED <<file, durable, task, copy, possible, writes_begun>>
  BY DEF busy, store_fails, killed
<1>4. Release(p) \/ holder' = holder
  BY DEF busy, store_fails, killed, Finish
<1> QED
  BY <1>1, <1>2, <1>3, <1>4, Quiet DEF Holding, Changing

(* The copy is taken from the file under the lock. *)
LEMMA ReadInv == ASSUME StoreInv, NEW p \in Processes, read_store(p) PROVE StoreInv'
<1>1. at_step[p] = "reading" /\ holder = p
  BY DEF StoreInv, LockIsHeld, read_store, Holding
<1>2. PICK label \in {"idle", "staging"} :
        /\ move(p, label)
        /\ holder' = IF label = "idle" THEN NoProcess ELSE p
  BY <1>1 DEF read_store, Finish, Release
<1>3. \A q \in Processes : at_step'[q] = IF q = p THEN label ELSE at_step[q]
  BY <1>2 DEF StoreInv, Ranges, move
<1>4. [file EXCEPT ![task[p].name] = task[p].value] \in Stores
  BY DEF StoreInv, Ranges, Stores, Tasks
<1>5. \A q \in Processes :
        copy'[q] = IF q = p THEN [file EXCEPT ![task[p].name] = task[p].value] ELSE copy[q]
  BY DEF StoreInv, Ranges, read_store
<1>6. copy' \in [Processes -> Stores]
  BY <1>4 DEF StoreInv, Ranges, read_store
<1>7. Ranges'
  BY <1>2, <1>6 DEF StoreInv, Ranges, read_store, move, Holding, Changing
<1>8. LockIsHeld'
  BY <1>1, <1>2, <1>3, StoreAssumption DEF StoreInv, LockIsHeld, Holding, Changing
<1>9. CopyIsOneChange'
  BY <1>3, <1>5 DEF StoreInv, CopyIsOneChange, read_store, Changing
<1>10. CopyIsSynced' /\ ReplacedIsSeen' /\ IntentIsPossible' /\ DiskIsPossible'
  BY <1>1, <1>2, <1>3 DEF StoreInv, CopyIsSynced, ReplacedIsSeen, IntentIsPossible,
     DiskIsPossible, read_store
<1> QED
  BY <1>7, <1>8, <1>9, <1>10 DEF StoreInv

(* The temporary file is written and synced. *)
LEMMA StageInv ==
  ASSUME StoreInv, NEW p \in Processes, stage(p) \/ sync_staged(p) PROVE StoreInv'
<1>1. PICK label \in {"syncing", "replacing"} :
        move(p, label) /\ (label = "replacing" => staged_file'[p] = "synced")
  BY DEF StoreInv, Ranges, stage, sync_staged
<1>2. at_step[p] \in Changing /\ holder = p
  BY DEF StoreInv, LockIsHeld, stage, sync_staged, Holding, Changing
<1>3. copy[p] = [file EXCEPT ![task[p].name] = task[p].value]
  BY <1>2 DEF StoreInv, CopyIsOneChange
<1>4. staged_file' \in [Processes -> {"absent", "written", "synced"}]
        /\ \A q \in Processes \ {p} : staged_file'[q] = staged_file[q]
  BY DEF StoreInv, Ranges, stage, sync_staged
<1>5. UNCHANGED <<file, durable, task, copy, possible, writes_begun, holder>>
  BY DEF stage, sync_staged
<1> QED
  BY <1>1, <1>2, <1>3, <1>4, <1>5, Quiet DEF Holding, Changing

(* The rename puts the copy in place: one name changes, to a possible value. *)
LEMMA PersistInv == ASSUME StoreInv, NEW p \in Processes, persist(p) PROVE StoreInv'
<1>1. /\ at_step[p] = "replacing" /\ holder = p /\ staged_file[p] = "synced"
      /\ file' = copy[p] /\ durable' = durable \cup {copy[p]}
  BY DEF StoreInv, LockIsHeld, CopyIsSynced, persist, Holding, Changing
<1>2. file' = [file EXCEPT ![task[p].name] = task[p].value]
  BY <1>1 DEF StoreInv, CopyIsOneChange, Changing
<1>3. \A q \in Processes : at_step'[q] = IF q = p THEN "replaced" ELSE at_step[q]
  BY DEF StoreInv, Ranges, persist, move
<1>4. \A q \in Processes \ {p} : at_step[q] \notin Holding
  BY <1>1 DEF StoreInv, LockIsHeld
<1>5. Ranges'
  BY <1>1 DEF StoreInv, Ranges, persist, move, Holding
<1>6. LockIsHeld' /\ CopyIsOneChange' /\ CopyIsSynced'
  BY <1>1, <1>3, <1>4 DEF StoreInv, LockIsHeld, CopyIsOneChange, CopyIsSynced, persist, Holding,
     Changing
<1>7. ReplacedIsSeen'
  BY <1>2, <1>3, <1>4 DEF StoreInv, Ranges, Stores, Tasks, ReplacedIsSeen, persist, Holding
<1>8. task[p].value \in possible[task[p].name]
  BY <1>1 DEF StoreInv, IntentIsPossible
<1>9. IntentIsPossible'
  BY <1>1, <1>3 DEF StoreInv, IntentIsPossible, persist
<1>10. \A n \in Names : file'[n] \in possible[n]
  BY <1>2, <1>8 DEF StoreInv, Ranges, Stores, Tasks, DiskIsPossible
<1>11. DiskIsPossible'
  BY <1>1, <1>10 DEF StoreInv, DiskIsPossible, persist
<1> QED
  BY <1>5, <1>6, <1>7, <1>9, <1>11 DEF StoreInv

(* Once the directory is synced the file is what it is, and only those who are *)
(* under way may still change this name.                                       *)
LEMMA SyncParentInv == ASSUME StoreInv, NEW p \in Processes, sync_parent(p) PROVE StoreInv'
<1>1. at_step[p] = "replaced" /\ holder = p /\ file[task[p].name] = task[p].value
  BY DEF StoreInv, LockIsHeld, ReplacedIsSeen, sync_parent, Holding
<1>2. CASE durable' = durable /\ possible' = possible /\ Finish(p, "error")
  BY <1>1, <1>2, Quiet DEF sync_parent, Finish, Holding, Changing, StoreInv, Ranges
<1>3. CASE Finish(p, "ok") /\ durable' = {file} /\ Told(p)
  <2> DEFINE others == {task[q].value : q \in {q \in Processes \ {p} :
                           at_step[q] # "idle" /\ task[q].name = task[p].name}}
  <2>1. \A n \in Names :
          possible'[n] = IF n = task[p].name THEN {task[p].value} \cup others ELSE possible[n]
    BY <1>3 DEF StoreInv, Ranges, Told
  <2>2. others \subseteq 0..MaxWrites /\ task[p].value \in 0..MaxWrites
    BY DEF StoreInv, Ranges, Tasks
  <2>3. possible' \in [Names -> SUBSET (0..MaxWrites)]
    BY <1>3, <2>2 DEF StoreInv, Ranges, Told
  <2>4. \A q \in Processes : at_step'[q] = IF q = p THEN "idle" ELSE at_step[q]
    BY <1>3 DEF StoreInv, Ranges, Finish, move
  <2>5. Ranges'
    BY <1>3, <2>3 DEF StoreInv, Ranges, sync_parent, Finish, move
  <2>6. LockIsHeld' /\ CopyIsOneChange' /\ CopyIsSynced' /\ ReplacedIsSeen'
    BY <1>1, <1>3, <2>4, StoreAssumption DEF StoreInv, LockIsHeld, CopyIsOneChange, CopyIsSynced,
       ReplacedIsSeen, sync_parent, Finish, Release, Holding, Changing
  <2>7. IntentIsPossible'
    <3> SUFFICES ASSUME NEW q \in Processes, q # p, at_step[q] # "idle"
                 PROVE  task[q].value \in possible'[task[q].name]
      BY <2>4 DEF IntentIsPossible, sync_parent
    <3>1. task[q].name \in Names
      BY DEF StoreInv, Ranges, Tasks
    <3>2. task[q].name = task[p].name => task[q].value \in others
      OBVIOUS
    <3>3. task[q].value \in possible[task[q].name]
      BY DEF StoreInv, IntentIsPossible
    <3> QED
      BY <2>1, <3>1, <3>2, <3>3
  <2>8. DiskIsPossible'
    BY <1>1, <1>3, <2>1 DEF StoreInv, DiskIsPossible, sync_parent
  <2> QED
    BY <2>5, <2>6, <2>7, <2>8 DEF StoreInv
<1> QED
  BY <1>2, <1>3 DEF sync_parent

(* What is on disk is taken for the file, and everybody starts again. *)
LEMMA PowerLossInv == ASSUME StoreInv, power_loss PROVE StoreInv'
<1>1. \A p \in Processes : at_step'[p] = "idle"
  BY DEF power_loss
<1>2. Ranges'
  BY DEF StoreInv, Ranges, power_loss
<1>3. DiskIsPossible'
  BY DEF StoreInv, DiskIsPossible, power_loss
<1> QED
  BY <1>1, <1>2, <1>3 DEF StoreInv, LockIsHeld, CopyIsOneChange, CopyIsSynced, ReplacedIsSeen,
     IntentIsPossible, Holding, Changing

LEMMA StoreStepInv == StoreInv /\ [StoreNext]_store_vars => StoreInv'
<1> SUFFICES ASSUME StoreInv, [StoreNext]_store_vars PROVE StoreInv'
  OBVIOUS
<1>1. CASE UNCHANGED store_vars
  BY <1>1 DEF store_vars, StoreInv, Ranges, LockIsHeld, CopyIsOneChange, CopyIsSynced,
     ReplacedIsSeen, IntentIsPossible, DiskIsPossible
<1>2. ASSUME NEW p \in Processes, NEW name \in Names, NEW delete \in BOOLEAN,
             start(p, name, delete)
      PROVE  StoreInv'
  BY <1>2, StartInv
<1>3. ASSUME NEW p \in Processes,
             \/ acquire(p) \/ busy(p) \/ read_store(p) \/ store_fails(p)
             \/ stage(p) \/ sync_staged(p) \/ persist(p) \/ sync_parent(p) \/ killed(p)
      PROVE  StoreInv'
  BY <1>3, AcquireInv, EndInv, ReadInv, StageInv, PersistInv, SyncParentInv
<1>4. CASE power_loss
  BY <1>4, PowerLossInv
<1> QED
  BY <1>1, <1>2, <1>3, <1>4 DEF StoreNext

(* Every process that is past the lock holds it, and what it has read is still *)
(* the file (profiles.rs:56-87, platform/lib.rs:161-249).                      *)
THEOREM StoreInvariance == StoreSpec => []StoreInv
BY StoreInitInv, StoreStepInv, PTL DEF StoreSpec

(* What a process was told is saved or deleted stays so, after any crash       *)
(* (platform/lib.rs:161-209).                                                  *)
THEOREM SavedSurvivesHolds == StoreSpec => []SavedSurvives
<1>1. StoreInv => SavedSurvives
  <2> SUFFICES ASSUME StoreInv PROVE SavedSurvives
    OBVIOUS
  <2>1. PICK n \in Names : TRUE
    BY StoreAssumption
  <2>2. file[n] \in 0..MaxWrites /\ Torn[n] = MaxWrites + 1
    BY DEF StoreInv, Ranges, Stores, Torn
  <2>3. file # Torn
    BY <2>2, StoreAssumption
  <2> QED
    BY <2>3 DEF SavedSurvives, StoreInv, DiskIsPossible
<1> QED
  BY <1>1, StoreInvariance, PTL

(* No process changes a profile it was not asked to change, so the changes of  *)
(* others are never lost (profiles.rs:56-87).                                  *)
THEOREM OthersAreKeptHolds == StoreSpec => OthersAreKept
<1> DEFINE Kept ==
      \A n \in Names : file'[n] # file[n] =>
        \/ \E p \in Processes : at_step[p] = "replacing" /\ task[p].name = n
        \/ \A p \in Processes : at_step'[p] = "idle"
<1>1. StoreInv /\ [StoreNext]_store_vars => [Kept]_store_vars
  <2> SUFFICES ASSUME StoreInv, StoreNext PROVE Kept
    OBVIOUS
  <2>1. ASSUME NEW p \in Processes, NEW name \in Names, NEW delete \in BOOLEAN,
               start(p, name, delete)
        PROVE  file' = file
    BY <2>1 DEF start
  <2>2. ASSUME NEW p \in Processes,
               \/ acquire(p) \/ busy(p) \/ read_store(p) \/ store_fails(p)
               \/ stage(p) \/ sync_staged(p) \/ sync_parent(p) \/ killed(p)
        PROVE  file' = file
    BY <2>2 DEF acquire, busy, read_store, store_fails, stage, sync_staged, sync_parent, killed
  <2>3. ASSUME NEW p \in Processes, persist(p) PROVE Kept
    <3>1. at_step[p] = "replacing" /\ file' = [file EXCEPT ![task[p].name] = task[p].value]
      BY <2>3 DEF persist, StoreInv, CopyIsOneChange, Changing
    <3>2. \A n \in Names : n # task[p].name => file'[n] = file[n]
      BY <3>1 DEF StoreInv, Ranges, Stores
    <3> QED
      BY <3>1, <3>2
  <2>4. CASE power_loss
    BY <2>4 DEF power_loss
  <2> QED
    BY <2>1, <2>2, <2>3, <2>4 DEF StoreNext
<1> QED
  BY <1>1, StoreInvariance, PTL DEF StoreSpec, OthersAreKept

----------------------------------------------------------------------------
(* The store as a register for each name.  Each operation on the file is one   *)
(* on the name its process is busy with; StoreInv says that the rename changes *)
(* nothing else, and the ghost `possible` is what NameStore calls open.        *)

(* Whose operation is under way on a name, when only one process moves.        *)
Busy(n) == {p \in Processes : at_step[p] # "idle" /\ task[p].name = n}

LEMMA DueOfName ==
  /\ \A n \in Names : \A v : v \in Wanted[n] <=> \E p \in Busy(n) : v = task[p].value
  /\ \A n \in Names : \A v : v \in Wanted'[n] <=> \E p \in Busy(n)' : v = task'[p].value
BY DEF Wanted, Busy

(* The process that moves is the only one whose due value may go.              *)
LEMMA DueMoves ==
  ASSUME StoreInv, NEW p \in Processes, task' = task, at_step[p] # "idle",
         \A q \in Processes \ {p} : at_step'[q] = at_step[q]
  PROVE  /\ at_step'[p] # "idle" => Wanted' = Wanted
         /\ \E left \in SUBSET Wanted[task[p].name] :
              Wanted' = [Wanted EXCEPT ![task[p].name] = left]
<1> DEFINE m == task[p].name
<1>1. m \in Names
  BY DEF StoreInv, Ranges, Tasks
<1>2. \A n \in Names : n # m => Wanted'[n] = Wanted[n]
  BY DEF Wanted
<1>3. Wanted'[m] \subseteq Wanted[m]
  <2>1. \A q \in Processes : at_step'[q] # "idle" => at_step[q] # "idle"
    OBVIOUS
  <2> QED
    BY <1>1, <2>1 DEF Wanted
<1>4. Wanted' = [Wanted EXCEPT ![m] = Wanted'[m]]
  BY <1>2 DEF Wanted
<1>5. ASSUME at_step'[p] # "idle" PROVE Wanted' = Wanted
  <2>1. \A q \in Processes : at_step'[q] # "idle" <=> at_step[q] # "idle"
    BY <1>5
  <2> QED
    BY <2>1 DEF Wanted
<1> QED
  BY <1>3, <1>4, <1>5

(* An operation begins on its name.                                            *)
LEMMA StartIsBegin ==
  ASSUME StoreInv, NEW p \in Processes, NEW name \in Names, NEW delete \in BOOLEAN,
         start(p, name, delete)
  PROVE  \E v \in 0..MaxWrites : Named!Begin(name, v)
<1> DEFINE v == IF delete THEN NoProfile ELSE writes_begun + 1
<1>1. v \in 0..MaxWrites
  BY StoreAssumption DEF StoreInv, Ranges, start, NoProfile
<1>2. task'[p] = [name |-> name, value |-> v] /\ task'[p].value = v /\ task'[p].name = name
  BY DEF StoreInv, Ranges, start
<1>3. possible' = [possible EXCEPT ![name] = @ \cup {v}] /\ file' = file
  BY <1>2 DEF start
<1> HIDE DEF v
<1>4. at_step[p] = "idle" /\ at_step'[p] = "locking"
  BY DEF start, move, StoreInv, Ranges
<1>5. \A q \in Processes \ {p} : task'[q] = task[q] /\ at_step'[q] = at_step[q]
  BY DEF start, move, StoreInv, Ranges
<1>6. \A n \in Names : Busy(n)' = IF n = name THEN Busy(n) \cup {p} ELSE Busy(n)
  BY <1>2, <1>4, <1>5 DEF Busy
<1>7. \A n \in Names : p \notin Busy(n)
  BY <1>4 DEF Busy
<1>8. \A n \in Names : \A q \in Busy(n) : q \in Processes \ {p} /\ task'[q].value = task[q].value
  BY <1>5, <1>7 DEF Busy
<1>9. \A n \in Names : Wanted'[n] = IF n = name THEN Wanted[n] \cup {v} ELSE Wanted[n]
  <2> SUFFICES ASSUME NEW n \in Names, NEW x
               PROVE  x \in Wanted'[n] <=> x \in (IF n = name THEN Wanted[n] \cup {v} ELSE Wanted[n])
    OBVIOUS
  <2>1. x \in Wanted'[n] <=> \E q \in Busy(n)' : x = task'[q].value
    BY DueOfName
  <2>2. x \in Wanted[n] <=> \E q \in Busy(n) : x = task[q].value
    BY DueOfName
  <2> QED
    BY <1>2, <1>6, <1>8, <2>1, <2>2
<1>10. Wanted' = [Wanted EXCEPT ![name] = @ \cup {v}]
  BY <1>9 DEF Wanted
<1> QED
  BY <1>1, <1>3, <1>10 DEF Named!Begin

(* The rename puts the value of its own operation.                             *)
LEMMA PersistIsPut ==
  ASSUME StoreInv, NEW p \in Processes, persist(p)
  PROVE  Named!Put(task[p].name)
<1>1. file' = [file EXCEPT ![task[p].name] = task[p].value]
  BY DEF persist, StoreInv, CopyIsOneChange, Changing
<1>2. at_step[p] = "replacing" /\ at_step'[p] # "idle" /\ task' = task /\ possible' = possible
      /\ \A q \in Processes \ {p} : at_step'[q] = at_step[q]
  BY DEF persist, move, StoreInv, Ranges
<1>3. Wanted' = Wanted
  BY <1>2, DueMoves
<1>4. task[p].value \in Wanted[task[p].name]
  BY <1>2 DEF Wanted, StoreInv, Ranges, Tasks
<1> QED
  BY <1>1, <1>2, <1>3, <1>4 DEF Named!Put

(* An operation that is told its change is safe leaves open what the others    *)
(* on that name still want, and nothing else.                                  *)
LEMMA SyncIsSettle ==
  ASSUME StoreInv, NEW p \in Processes, sync_parent(p)
  PROVE  Named!Settle(task[p].name) \/ Named!End(task[p].name)
<1> DEFINE m == task[p].name
<1>1. /\ at_step[p] = "replaced" /\ task' = task /\ file' = file
      /\ at_step' = [at_step EXCEPT ![p] = "idle"]
  BY DEF sync_parent, Finish, move
<1>2. at_step'[p] = "idle" /\ \A q \in Processes \ {p} : at_step'[q] = at_step[q]
  BY <1>1 DEF StoreInv, Ranges
<1>3. PICK left \in SUBSET Wanted[m] : Wanted' = [Wanted EXCEPT ![m] = left]
  BY <1>1, <1>2, DueMoves
<1>4. m \in Names /\ file[m] = task[p].value
  BY <1>1 DEF StoreInv, Ranges, Tasks, ReplacedIsSeen
<1>5. CASE Told(p)
  <2>1. left = Wanted'[m]
    BY <1>3, <1>4 DEF Wanted
  <2>2. Busy(m)' = {q \in Processes \ {p} : at_step[q] # "idle" /\ task[q].name = m}
    BY <1>1, <1>2 DEF Busy
  <2>3. Wanted'[m] = {task[q].value : q \in {q \in Processes \ {p} :
                     at_step[q] # "idle" /\ task[q].name = m}}
    BY <1>1, <1>4, <2>2 DEF Wanted, Busy
  <2>4. possible' = [possible EXCEPT ![m] = {file[m]} \cup left]
    BY <1>4, <1>5, <2>1, <2>3 DEF Told
  <2> QED
    BY <1>1, <1>3, <2>4 DEF Named!Settle
<1>6. CASE possible' = possible
  BY <1>1, <1>3, <1>6 DEF Named!End
<1> QED
  BY <1>5, <1>6 DEF sync_parent

(* A stop of the machine leaves of each name what it may.                      *)
LEMMA PowerLossIsStop == ASSUME StoreInv, power_loss PROVE Named!Stop
<1>1. file' \in durable /\ possible' = possible
  BY DEF power_loss
<1>2. file' \in Stores
  BY <1>1 DEF StoreInv, Ranges
<1>3. \A n \in Names : file'[n] \in possible[n]
  BY <1>1 DEF StoreInv, DiskIsPossible
<1>4. \A p \in Processes : at_step'[p] = "idle"
  BY DEF power_loss
<1>5. Wanted' = [n \in Names |-> {}]
  BY <1>4 DEF Wanted
<1> QED
  BY <1>1, <1>2, <1>3, <1>5 DEF Named!Stop, Stores

(* The one file, its lock, its copies and its renames are a register for each  *)
(* profile: no update is lost, and none that was told is undone                *)
(* (profiles.rs:56-104, platform/lib.rs:161-249).                              *)
THEOREM StoreImplementsNames == StoreSpec => ImplementsNameStore
<1>1. StoreInit => Named!Init
  <2> SUFFICES ASSUME StoreInit PROVE Named!Init
    OBVIOUS
  <2>1. Wanted = [n \in Names |-> {}]
    BY DEF StoreInit, Wanted
  <2> QED
    BY <2>1 DEF StoreInit, EmptyStore, Named!Init
<1>2. ASSUME StoreInv, [StoreNext]_store_vars PROVE [Named!Next]_<<file, Wanted, possible>>
  <2>1. CASE UNCHANGED store_vars
    BY <2>1 DEF store_vars, Wanted
  <2>2. ASSUME NEW p \in Processes, NEW name \in Names, NEW delete \in BOOLEAN,
               start(p, name, delete)
        PROVE  Named!Next
    BY <1>2, <2>2, StartIsBegin DEF Named!Next
  <2>3. ASSUME NEW p \in Processes,
               \/ acquire(p) \/ busy(p) \/ read_store(p) \/ store_fails(p)
               \/ stage(p) \/ sync_staged(p) \/ killed(p)
        PROVE  Named!Next
    <3>1. at_step[p] # "idle" /\ UNCHANGED <<task, file, possible>>
      BY <2>3 DEF acquire, busy, read_store, store_fails, stage, sync_staged, killed
    <3>2. \A q \in Processes \ {p} : at_step'[q] = at_step[q]
      BY <1>2, <2>3 DEF acquire, busy, read_store, store_fails, stage, sync_staged, killed, Finish,
         move, StoreInv, Ranges
    <3>3. task[p].name \in Names
      BY <1>2 DEF StoreInv, Ranges, Tasks
    <3>4. Named!End(task[p].name)
      BY <1>2, <3>1, <3>2, DueMoves DEF Named!End
    <3> QED
      BY <3>3, <3>4 DEF Named!Next
  <2>4. ASSUME NEW p \in Processes, persist(p) \/ sync_parent(p) PROVE Named!Next
    <3>1. task[p].name \in Names
      BY <1>2 DEF StoreInv, Ranges, Tasks
    <3> QED
      BY <1>2, <2>4, <3>1, PersistIsPut, SyncIsSettle DEF Named!Next
  <2>5. CASE power_loss
    BY <1>2, <2>5, PowerLossIsStop DEF Named!Next
  <2> QED
    BY <1>2, <2>1, <2>2, <2>3, <2>4, <2>5 DEF StoreNext
<1> QED
  BY <1>1, <1>2, StoreInvariance, PTL DEF StoreSpec, ImplementsNameStore, Named!Spec

----------------------------------------------------------------------------
(***************************************************************************)
(* Proofs about replace_verified, whatever call fails and wherever the     *)
(* machine stops.                                                          *)
(*                                                                         *)
(* Each call to the file system has few directories a crash before it can  *)
(* leave: what was there when the parent was last synchronised, and what   *)
(* the one or two renames since then have made of it.                      *)
(***************************************************************************)

Is(d, made, main, aside, apart) ==
  /\ d["staging"] = made /\ d["destination"] = main
  /\ d["previous"] = aside /\ d["quarantine"] = apart

Before(d)      == Is(d, "new", prior, None, None)
Aside(d)       == Is(d, "new", None, prior, None)
Published(d)   == Is(d, None, "new", prior, None)
Removed(d)     == Is(d, None, "new", None, None)
Quarantined(d) == Is(d, None, None, prior, "new")
Restored(d)    == Is(d, None, prior, None, "new")

Unfinished == {"sync aside", "publish", "validate", "sync published"}
Forward    == {"collision", "validate staging", "validate prior", "move aside", "remove previous",
               "sync removed"} \cup Unfinished
Recovering == {"roll back", "sync rollback", "identify", "quarantine", "sync quarantine",
               "restore", "sync restored"}

(* Only a call that failed is recovered from, and only one of these four. *)
CauseFits ==
  /\ pc \in Forward => cause = "none" /\ outcome = "none"
  /\ pc \in Recovering => cause \in Unfinished /\ outcome = "none"

(* What a crash may leave before each call, if no other program interferes. *)
ImagesFit ==
  /\ prior \in {"old", None}
  /\ pc = "collision" => prior = None /\ \A d \in images :
       d["staging"] = "new" /\ d["destination"] = dir["destination"]
         /\ d["destination"] \in {"old", None} /\ d["previous"] = dir["previous"]
         /\ d["quarantine"] = None
  /\ pc \in {"validate staging", "validate prior"} => prior = None /\ \A d \in images :
       dir["destination"] \in {"old", None} /\ Is(d, "new", dir["destination"], None, None)
  /\ pc = "move aside"      => prior = "old" /\ \A d \in images : Before(d)
  /\ pc = "sync aside"      => prior = "old" /\ Aside(dir) /\ \A d \in images : Before(d) \/ Aside(d)
  /\ pc = "publish"         => \A d \in images : Aside(d)
  /\ pc \in {"validate", "sync published", "identify", "quarantine"} =>
       Published(dir) /\ \A d \in images : Aside(d) \/ Published(d)
  /\ pc = "remove previous" => prior = "old" /\ \A d \in images : Published(d)
  /\ pc = "sync removed"    => Removed(dir) /\ \A d \in images : Published(d) \/ Removed(d)
  /\ pc = "roll back"       => Aside(dir) /\ \A d \in images : Before(d) \/ Aside(d)
  /\ pc = "sync rollback"   => Before(dir) /\ \A d \in images : Before(d) \/ Aside(d)
  /\ pc = "sync quarantine" =>
       Quarantined(dir) /\ \A d \in images : Aside(d) \/ Published(d) \/ Quarantined(d)
  /\ pc = "restore"         => \A d \in images : Quarantined(d)
  /\ pc = "sync restored"   => Restored(dir) /\ \A d \in images : Quarantined(d) \/ Restored(d)

PublicationInv ==
  /\ PublicationTypeOK /\ CauseFits /\ (~swapped => ImagesFit)
  /\ BackupSurvives /\ SuccessIsDurable /\ ErrorRestores

----------------------------------------------------------------------------
(* A rename moves one tree in each directory a crash may leave, or none. *)
LEMMA MovedTree ==
  ASSUME NEW d \in Directory, NEW from \in Path, NEW to \in Path, from # to,
         NEW tree \in Trees \cup {None}
  PROVE  /\ Moved(d, from, to, tree) \in Directory
         /\ d[from] = tree /\ d[to] = None =>
              /\ Moved(d, from, to, tree)[from] = None /\ Moved(d, from, to, tree)[to] = tree
              /\ \A p \in Path \ {from, to} : Moved(d, from, to, tree)[p] = d[p]
         /\ ~(d[from] = tree /\ d[to] = None) => Moved(d, from, to, tree) = d
BY DEF Moved, Directory

LEMMA PutTree ==
  ASSUME NEW d \in Directory, NEW p \in Path, NEW tree \in Trees \cup {None}
  PROVE  /\ Put(d, p, tree) \in Directory /\ Put(d, p, tree)[p] = tree
         /\ \A q \in Path \ {p} : Put(d, p, tree)[q] = d[q]
BY DEF Put, Directory

(* The directory as it is, is one that a crash may leave. *)
LEMMA ImagesRange ==
  ASSUME PublicationTypeOK
  PROVE  /\ \A from, to \in Path, tree \in Trees \cup {None} :
              from # to /\ Renamed(from, to, tree) =>
                dir' \in Directory /\ dir' \in images' /\ images' \subseteq Directory
         /\ \A p \in Path, tree \in Trees \cup {None} :
              Become(p, tree) =>
                dir' \in Directory /\ dir' \in images' /\ images' \subseteq Directory
         /\ Synced => dir' \in Directory /\ dir' \in images' /\ images' \subseteq Directory
<1>1. dir \in images /\ images \subseteq Directory /\ dir \in Directory
  BY DEF PublicationTypeOK
<1>2. ASSUME NEW from \in Path, NEW to \in Path, NEW tree \in Trees \cup {None},
             from # to, Renamed(from, to, tree)
      PROVE  dir' \in Directory /\ dir' \in images' /\ images' \subseteq Directory
  BY <1>1, <1>2, MovedTree DEF Renamed
<1>3. ASSUME NEW p \in Path, NEW tree \in Trees \cup {None}, Become(p, tree)
      PROVE  dir' \in Directory /\ dir' \in images' /\ images' \subseteq Directory
  <2>1. \A d \in Directory : Put(d, p, tree) \in Directory
    BY PutTree
  <2> QED
    BY <1>1, <1>3, <2>1 DEF Become
<1>4. Synced => dir' \in Directory /\ dir' \in images' /\ images' \subseteq Directory
  BY <1>1 DEF Synced
<1> QED
  BY <1>2, <1>3, <1>4

(* After a rename a crash may leave what it could before, or that with the     *)
(* tree moved (publication.rs:162-175).                                        *)
LEMMA RenamedImages ==
  ASSUME PublicationTypeOK, NEW from \in Path, NEW to \in Path, from # to,
         NEW tree \in Trees \cup {None}, Renamed(from, to, tree)
  PROVE  /\ dir'[from] = None /\ dir'[to] = tree
         /\ \A p \in Path : p # from /\ p # to => dir'[p] = dir[p]
         /\ \A e \in images' : e \in images \/ \E d \in images :
              /\ d[from] = tree /\ d[to] = None /\ e[from] = None /\ e[to] = tree
              /\ \A p \in Path : p # from /\ p # to => e[p] = d[p]
<1>1. dir \in Directory /\ images \subseteq Directory
  BY DEF PublicationTypeOK
<1>2. dir'[from] = None /\ dir'[to] = tree
        /\ \A p \in Path : p # from /\ p # to => dir'[p] = dir[p]
  BY <1>1, MovedTree DEF Renamed
<1>3. ASSUME NEW e \in images', e \notin images
      PROVE  \E d \in images :
               /\ d[from] = tree /\ d[to] = None /\ e[from] = None /\ e[to] = tree
               /\ \A p \in Path : p # from /\ p # to => e[p] = d[p]
  <2>1. PICK d \in images : e = Moved(d, from, to, tree)
    BY <1>3 DEF Renamed
  <2>2. d \in Directory /\ e # d
    BY <1>1, <1>3, <2>1
  <2> QED
    BY <2>1, <2>2, MovedTree
<1> QED
  BY <1>2, <1>3

LEMMA PublicationInitInv == PublicationInit => PublicationInv
<1> SUFFICES ASSUME PublicationInit PROVE PublicationInv
  OBVIOUS
<1>1. PICK there \in {"old", None}, other \in {"foreign", None} : dir = Initial(there, other)
  BY DEF PublicationInit
<1>2. dir \in Directory /\ dir["staging"] = "new" /\ dir["destination"] = there
        /\ dir["previous"] = other /\ dir["quarantine"] = None
  BY <1>1 DEF Initial, Directory, Path, Trees
<1> QED
  BY <1>2, PublicationAssumption DEF Trees, PublicationInit, PublicationInv, PublicationTypeOK, CauseFits, ImagesFit, Step,
     BackupSurvives, SuccessIsDurable, ErrorRestores, Forward, Recovering, Unfinished

(* What every step keeps, whatever the other program does. *)
LEMMA RangesStep ==
  ASSUME PublicationTypeOK, CauseFits, PublicationNext
  PROVE  PublicationTypeOK' /\ CauseFits'
<1>1. /\ dir \in Directory /\ dir \in images /\ images \subseteq Directory
      /\ \A p \in Path : dir[p] \in Trees \cup {None}
  BY DEF PublicationTypeOK, Directory
<1>2. dir' \in Directory /\ dir' \in images' /\ images' \subseteq Directory
  <2>1. CASE UNCHANGED <<dir, images>>
    BY <1>1, <2>1
  <2>2. CASE \E from, to \in Path, tree \in Trees \cup {None} : from # to /\ Renamed(from, to, tree)
    BY <2>2, ImagesRange
  <2>3. CASE \E p \in Path, tree \in Trees \cup {None} : Become(p, tree)
    BY <2>3, ImagesRange
  <2>4. CASE Synced
    BY <2>4, ImagesRange
  <2>5. CASE Crash
    BY <1>1, <2>5 DEF Crash
  <2> QED
    <3>1. CASE Replace
      BY <2>1, <2>2, <2>3, <2>4, <3>1 DEF PublicationTypeOK, Replace, CheckCollision, ValidateStaging, ValidatePrior, MoveAside,
         SyncAside, Publish, Validate, SyncPublished, RemovePrevious, SyncRemoved, Unchanged, Failed, Path, Trees
    <3>2. CASE Recover
      BY <2>1, <2>2, <2>3, <2>4, <3>2 DEF PublicationTypeOK, Recover, RollBack, SyncRollback, Identify, Quarantine,
         SyncQuarantine, Restore, SyncRestored, Unchanged, Path, Trees
    <3>3. CASE CleanUp \/ \E p \in Path : Swap(p)
      BY <2>1, <2>3, <3>3 DEF CleanUp, Swap, Unchanged, Path, Trees
    <3> QED
      BY <2>5, <3>1, <3>2, <3>3 DEF PublicationNext
<1>3. CASE Replace
  BY <1>1, <1>2, <1>3 DEF PublicationTypeOK, CauseFits, Forward, Recovering, Unfinished, Replace,
     CheckCollision, ValidateStaging, ValidatePrior, MoveAside, SyncAside, Publish, Validate,
     SyncPublished, RemovePrevious, SyncRemoved, At, Goto, Ok, Failed, Return, Unchanged, Synced,
     Renamed, Step, Path
<1>4. CASE Recover
  BY <1>1, <1>2, <1>4 DEF PublicationTypeOK, CauseFits, Forward, Recovering, Unfinished, Recover,
     RollBack, SyncRollback, Identify, Quarantine, SyncQuarantine, Restore, SyncRestored, At, Goto,
     Ok, Return, Unchanged, Synced, Renamed, Step
<1>5. CASE CleanUp \/ Crash \/ \E p \in Path : Swap(p)
  BY <1>2, <1>5 DEF PublicationTypeOK, CauseFits, Forward, Recovering, Unfinished, CleanUp, Crash,
     Swap, At, Goto, Unchanged, Step
<1> QED
  BY <1>3, <1>4, <1>5 DEF PublicationNext

(* replace_verified, call by call (publication.rs:26-84). *)
LEMMA ReplaceStep ==
  ASSUME PublicationInv, ~swapped, Replace
  PROVE  ImagesFit' /\ BackupSurvives' /\ SuccessIsDurable' /\ ErrorRestores'
<1>0. /\ dir \in images /\ images \subseteq Directory /\ dir \in Directory
      /\ prior \in {"old", None} /\ cause = "none" /\ outcome = "none"
  BY DEF PublicationInv, PublicationTypeOK, ImagesFit, CauseFits, Forward, Recovering, Unfinished,
     Replace, CheckCollision, ValidateStaging, ValidatePrior, MoveAside, SyncAside, Publish, Validate, SyncPublished, RemovePrevious, SyncRemoved, At
<1>1. CASE CheckCollision
  <2>1. prior = None /\ dir["destination"] \in {"old", None}
        /\ \A d \in images : /\ d["staging"] = "new" /\ d["destination"] = dir["destination"]
                             /\ d["previous"] = dir["previous"] /\ d["quarantine"] = None
    BY <1>0, <1>1 DEF CheckCollision, At, PublicationInv, ImagesFit
  <2> QED
    BY <1>0, <1>1, <2>1, PublicationAssumption DEF CheckCollision, At, Goto, Ok, Failed, Return, Unchanged, Synced,
       Trees, Path, Unfinished, ImagesFit, BackupSurvives, SuccessIsDurable, ErrorRestores, Is, Before, Aside, Published, Removed, Quarantined, Restored
<1>2. CASE ValidateStaging
  <2>1. prior = None /\ dir["destination"] \in {"old", None}
        /\ \A d \in images : Is(d, "new", dir["destination"], None, None)
    BY <1>0, <1>2 DEF ValidateStaging, At, PublicationInv, ImagesFit
  <2> QED
    BY <1>0, <1>2, <2>1, PublicationAssumption DEF ValidateStaging, At, Goto, Ok, Failed, Return, Unchanged, Synced,
       Trees, Path, Unfinished, ImagesFit, BackupSurvives, SuccessIsDurable, ErrorRestores, Is, Before, Aside, Published, Removed, Quarantined, Restored
<1>3. CASE ValidatePrior
  <2>1. prior = None /\ dir["destination"] \in {"old", None}
        /\ \A d \in images : Is(d, "new", dir["destination"], None, None)
    BY <1>0, <1>3 DEF ValidatePrior, At, PublicationInv, ImagesFit
  <2> QED
    BY <1>0, <1>3, <2>1, PublicationAssumption DEF ValidatePrior, At, Goto, Ok, Failed, Return, Unchanged, Synced,
       Trees, Path, Unfinished, ImagesFit, BackupSurvives, SuccessIsDurable, ErrorRestores, Is, Before, Aside, Published, Removed, Quarantined, Restored
<1>4. CASE MoveAside
  <2>1. prior = "old" /\ \A d \in images : Before(d)
    BY <1>0, <1>4 DEF MoveAside, At, PublicationInv, ImagesFit
  <2>2. Renamed("destination", "previous", prior) => Aside(dir') /\ \A d \in images' : Before(d) \/ Aside(d)
    BY <1>0, <2>1, RenamedImages, PublicationAssumption DEF Path, Trees, PublicationInv,
       Is, Before, Aside, Published, Quarantined, Restored
  <2>3. \/ Renamed("destination", "previous", prior) /\ pc' = "sync aside" /\ UNCHANGED <<prior, cause, outcome, swapped>>
       \/ /\ UNCHANGED <<dir, images, prior, swapped>>
          /\ pc' = "clean up" /\ cause' = "move aside" /\ outcome' = "error"
    BY <1>0, <1>4 DEF MoveAside, At, Unchanged, Failed, Ok, Goto, Return, Renamed
  <2>4. CASE Renamed("destination", "previous", prior) /\ pc' = "sync aside" /\ UNCHANGED <<prior, cause, outcome, swapped>>
    BY <1>0, <2>1, <2>2, <2>4, PublicationAssumption DEF Trees, Path, Unfinished, ImagesFit, BackupSurvives,
       SuccessIsDurable, ErrorRestores, Is, Before, Aside, Published, Removed, Quarantined,
       Restored
  <2>5. CASE UNCHANGED <<dir, images, prior, swapped>> /\ pc' = "clean up" /\ cause' = "move aside" /\ outcome' = "error"
    BY <1>0, <2>1, <2>5, PublicationAssumption DEF Trees, Unfinished, ImagesFit, BackupSurvives,
       SuccessIsDurable, ErrorRestores, Is, Before, Aside, Published, Removed, Quarantined,
       Restored
  <2> QED
    BY <2>3, <2>4, <2>5
<1>5. CASE SyncAside
  <2>1. prior = "old" /\ Aside(dir) /\ \A d \in images : Before(d) \/ Aside(d)
    BY <1>0, <1>5 DEF SyncAside, At, PublicationInv, ImagesFit
  <2> QED
    BY <1>0, <1>5, <2>1, PublicationAssumption DEF SyncAside, At, Goto, Ok, Failed, Return, Unchanged, Synced,
       Trees, Path, Unfinished, ImagesFit, BackupSurvives, SuccessIsDurable, ErrorRestores, Is, Before, Aside, Published, Removed, Quarantined, Restored
<1>6. CASE Publish
  <2>1. \A d \in images : Aside(d)
    BY <1>0, <1>6 DEF Publish, At, PublicationInv, ImagesFit
  <2>2. Renamed("staging", "destination", "new") => Published(dir') /\ \A d \in images' : Aside(d) \/ Published(d)
    BY <1>0, <2>1, RenamedImages, PublicationAssumption DEF Path, Trees, PublicationInv,
       Is, Before, Aside, Published, Quarantined, Restored
  <2>3. \/ Renamed("staging", "destination", "new") /\ pc' = "validate" /\ UNCHANGED <<prior, cause, outcome, swapped>>
       \/ /\ UNCHANGED <<dir, images, prior, swapped>>
          /\ pc' = "roll back" /\ cause' = "publish" /\ outcome' = "none"
    BY <1>0, <1>6 DEF Publish, At, Unchanged, Failed, Ok, Goto, Return, Renamed
  <2>4. CASE Renamed("staging", "destination", "new") /\ pc' = "validate" /\ UNCHANGED <<prior, cause, outcome, swapped>>
    BY <1>0, <2>1, <2>2, <2>4, PublicationAssumption DEF Trees, Path, Unfinished, ImagesFit, BackupSurvives,
       SuccessIsDurable, ErrorRestores, Is, Before, Aside, Published, Removed, Quarantined,
       Restored
  <2>5. CASE UNCHANGED <<dir, images, prior, swapped>> /\ pc' = "roll back" /\ cause' = "publish" /\ outcome' = "none"
    BY <1>0, <2>1, <2>5, PublicationAssumption DEF Trees, Unfinished, ImagesFit, BackupSurvives,
       SuccessIsDurable, ErrorRestores, Is, Before, Aside, Published, Removed, Quarantined,
       Restored
  <2> QED
    BY <2>3, <2>4, <2>5
<1>7. CASE Validate
  <2>1. Published(dir) /\ \A d \in images : Aside(d) \/ Published(d)
    BY <1>0, <1>7 DEF Validate, At, PublicationInv, ImagesFit
  <2> QED
    BY <1>0, <1>7, <2>1, PublicationAssumption DEF Validate, At, Goto, Ok, Failed, Return, Unchanged, Synced,
       Trees, Path, Unfinished, ImagesFit, BackupSurvives, SuccessIsDurable, ErrorRestores, Is, Before, Aside, Published, Removed, Quarantined, Restored
<1>8. CASE SyncPublished
  <2>1. Published(dir) /\ \A d \in images : Aside(d) \/ Published(d)
    BY <1>0, <1>8 DEF SyncPublished, At, PublicationInv, ImagesFit
  <2> QED
    BY <1>0, <1>8, <2>1, PublicationAssumption DEF SyncPublished, At, Goto, Ok, Failed, Return, Unchanged, Synced,
       Trees, Path, Unfinished, ImagesFit, BackupSurvives, SuccessIsDurable, ErrorRestores, Is, Before, Aside, Published, Removed, Quarantined, Restored
<1>9. CASE RemovePrevious
  <2>1. prior = "old" /\ \A d \in images : Published(d)
    BY <1>0, <1>9 DEF RemovePrevious, At, PublicationInv, ImagesFit
  <2>2. \A tree \in {None, "partial"} : Become("previous", tree) =>
          /\ Is(dir', None, "new", tree, None)
          /\ \A d \in images' : Is(d, None, "new", "old", None) \/ Is(d, None, "new", tree, None)
    <3> SUFFICES ASSUME NEW tree \in {None, "partial"}, Become("previous", tree)
                 PROVE  /\ Is(dir', None, "new", tree, None)
                        /\ \A d \in images' :
                             Is(d, None, "new", "old", None) \/ Is(d, None, "new", tree, None)
      OBVIOUS
    <3>1. ASSUME NEW d \in Directory, Is(d, None, "new", "old", None)
          PROVE  Is(Put(d, "previous", tree), None, "new", tree, None)
      BY <3>1, PutTree DEF Trees, Path, Is
    <3>2. Is(dir, None, "new", "old", None) /\ \A d \in images : Is(d, None, "new", "old", None)
      BY <1>0, <2>1 DEF Published
    <3> QED
      BY <1>0, <3>1, <3>2 DEF Become
  <2>3. \/ /\ Become("previous", None) /\ pc' = "sync removed"
          /\ UNCHANGED <<prior, cause, outcome, swapped>>
       \/ /\ Become("previous", "partial") \/ UNCHANGED <<dir, images>>
          /\ pc' = "clean up" /\ outcome' = "error" /\ cause' = "remove previous"
          /\ UNCHANGED <<prior, swapped>>
    BY <1>0, <1>9 DEF RemovePrevious, At, Ok, Goto, Return, Unchanged
  <2> QED
    BY <1>0, <2>1, <2>2, <2>3, PublicationAssumption DEF Trees, ImagesFit, BackupSurvives,
       SuccessIsDurable, ErrorRestores, Is, Published, Removed
<1>10. CASE SyncRemoved
  <2>1. Removed(dir) /\ \A d \in images : Published(d) \/ Removed(d)
    BY <1>0, <1>10 DEF SyncRemoved, At, PublicationInv, ImagesFit
  <2> QED
    BY <1>0, <1>10, <2>1, PublicationAssumption DEF SyncRemoved, At, Goto, Ok, Failed, Return, Unchanged, Synced,
       Trees, Path, Unfinished, ImagesFit, BackupSurvives, SuccessIsDurable, ErrorRestores, Is, Before, Aside, Published, Removed, Quarantined, Restored
<1> QED
  BY <1>1, <1>2, <1>3, <1>4, <1>5, <1>6, <1>7, <1>8, <1>9, <1>10 DEF Replace

(* rollback_before_publish and quarantine_and_restore (publication.rs:86-160). *)
LEMMA RecoverStep ==
  ASSUME PublicationInv, ~swapped, Recover
  PROVE  ImagesFit' /\ BackupSurvives' /\ SuccessIsDurable' /\ ErrorRestores'
<1>0. /\ dir \in images /\ images \subseteq Directory /\ dir \in Directory
      /\ prior \in {"old", None} /\ cause \in Unfinished /\ outcome = "none"
  BY DEF PublicationInv, PublicationTypeOK, ImagesFit, CauseFits, Forward, Recovering, Unfinished,
     Recover, RollBack, SyncRollback, Identify, Quarantine, SyncQuarantine, Restore, SyncRestored, At
<1>1. CASE RollBack
  <2>1. Aside(dir) /\ \A d \in images : Before(d) \/ Aside(d)
    BY <1>0, <1>1 DEF RollBack, At, PublicationInv, ImagesFit
  <2>2. Renamed("previous", "destination", prior) => Before(dir') /\ \A d \in images' : Before(d) \/ Aside(d)
    BY <1>0, <2>1, RenamedImages, PublicationAssumption DEF Path, Trees, PublicationInv,
       Is, Before, Aside, Published, Quarantined, Restored
  <2>3. \/ Renamed("previous", "destination", prior) /\ pc' = "sync rollback" /\ UNCHANGED <<prior, cause, outcome, swapped>>
       \/ /\ UNCHANGED <<dir, images, prior, swapped>>
          /\ pc' = "clean up" /\ cause' = cause
             /\ outcome' = IF dir["previous"] = None THEN "error" ELSE "incomplete"
    BY <1>0, <1>1 DEF RollBack, At, Unchanged, Failed, Ok, Goto, Return, Renamed
  <2>4. CASE Renamed("previous", "destination", prior) /\ pc' = "sync rollback" /\ UNCHANGED <<prior, cause, outcome, swapped>>
    BY <1>0, <2>1, <2>2, <2>4, PublicationAssumption DEF Trees, Path, Unfinished, ImagesFit, BackupSurvives,
       SuccessIsDurable, ErrorRestores, Is, Before, Aside, Published, Removed, Quarantined,
       Restored
  <2>5. CASE UNCHANGED <<dir, images, prior, swapped>> /\ pc' = "clean up" /\ cause' = cause
               /\ outcome' = IF dir["previous"] = None THEN "error" ELSE "incomplete"
    BY <1>0, <2>1, <2>5, PublicationAssumption DEF Trees, Unfinished, ImagesFit, BackupSurvives,
       SuccessIsDurable, ErrorRestores, Is, Before, Aside, Published, Removed, Quarantined,
       Restored
  <2> QED
    BY <2>3, <2>4, <2>5
<1>2. CASE SyncRollback
  <2>1. Before(dir) /\ \A d \in images : Before(d) \/ Aside(d)
    BY <1>0, <1>2 DEF SyncRollback, At, PublicationInv, ImagesFit
  <2> QED
    BY <1>0, <1>2, <2>1, PublicationAssumption DEF SyncRollback, At, Goto, Ok, Failed, Return, Unchanged, Synced,
       Trees, Path, Unfinished, ImagesFit, BackupSurvives, SuccessIsDurable, ErrorRestores, Is, Before, Aside, Published, Removed, Quarantined, Restored
<1>3. CASE Identify
  <2>1. Published(dir) /\ \A d \in images : Aside(d) \/ Published(d)
    BY <1>0, <1>3 DEF Identify, At, PublicationInv, ImagesFit
  <2> QED
    BY <1>0, <1>3, <2>1, PublicationAssumption DEF Identify, At, Goto, Ok, Failed, Return, Unchanged, Synced,
       Trees, Path, Unfinished, ImagesFit, BackupSurvives, SuccessIsDurable, ErrorRestores, Is, Before, Aside, Published, Removed, Quarantined, Restored
<1>4. CASE Quarantine
  <2>1. Published(dir) /\ \A d \in images : Aside(d) \/ Published(d)
    BY <1>0, <1>4 DEF Quarantine, At, PublicationInv, ImagesFit
  <2>2. Renamed("destination", "quarantine", "new") => Quarantined(dir') /\ \A d \in images' : Aside(d) \/ Published(d) \/ Quarantined(d)
    BY <1>0, <2>1, RenamedImages, PublicationAssumption DEF Path, Trees, PublicationInv,
       Is, Before, Aside, Published, Quarantined, Restored
  <2>3. \/ Renamed("destination", "quarantine", "new") /\ pc' = "sync quarantine" /\ UNCHANGED <<prior, cause, outcome, swapped>>
       \/ /\ UNCHANGED <<dir, images, prior, swapped>>
          /\ pc' = "clean up" /\ cause' = cause /\ outcome' = "incomplete"
    BY <1>0, <1>4 DEF Quarantine, At, Unchanged, Failed, Ok, Goto, Return, Renamed
  <2>4. CASE Renamed("destination", "quarantine", "new") /\ pc' = "sync quarantine" /\ UNCHANGED <<prior, cause, outcome, swapped>>
    BY <1>0, <2>1, <2>2, <2>4, PublicationAssumption DEF Trees, Path, Unfinished, ImagesFit, BackupSurvives,
       SuccessIsDurable, ErrorRestores, Is, Before, Aside, Published, Removed, Quarantined,
       Restored
  <2>5. CASE UNCHANGED <<dir, images, prior, swapped>> /\ pc' = "clean up" /\ cause' = cause /\ outcome' = "incomplete"
    BY <1>0, <2>1, <2>5, PublicationAssumption DEF Trees, Unfinished, ImagesFit, BackupSurvives,
       SuccessIsDurable, ErrorRestores, Is, Before, Aside, Published, Removed, Quarantined,
       Restored
  <2> QED
    BY <2>3, <2>4, <2>5
<1>5. CASE SyncQuarantine
  <2>1. Quarantined(dir) /\ \A d \in images : Aside(d) \/ Published(d) \/ Quarantined(d)
    BY <1>0, <1>5 DEF SyncQuarantine, At, PublicationInv, ImagesFit
  <2> QED
    BY <1>0, <1>5, <2>1, PublicationAssumption DEF SyncQuarantine, At, Goto, Ok, Failed, Return, Unchanged, Synced,
       Trees, Path, Unfinished, ImagesFit, BackupSurvives, SuccessIsDurable, ErrorRestores, Is, Before, Aside, Published, Removed, Quarantined, Restored
<1>6. CASE Restore
  <2>1. \A d \in images : Quarantined(d)
    BY <1>0, <1>6 DEF Restore, At, PublicationInv, ImagesFit
  <2>2. Renamed("previous", "destination", prior) => Restored(dir') /\ \A d \in images' : Quarantined(d) \/ Restored(d)
    BY <1>0, <2>1, RenamedImages, PublicationAssumption DEF Path, Trees, PublicationInv,
       Is, Before, Aside, Published, Quarantined, Restored
  <2>3. \/ Renamed("previous", "destination", prior) /\ pc' = "sync restored" /\ UNCHANGED <<prior, cause, outcome, swapped>>
       \/ /\ UNCHANGED <<dir, images, prior, swapped>>
          /\ pc' = "clean up" /\ cause' = cause
             /\ outcome' = IF dir["previous"] = None THEN "error" ELSE "incomplete"
    BY <1>0, <1>6 DEF Restore, At, Unchanged, Failed, Ok, Goto, Return, Renamed
  <2>4. CASE Renamed("previous", "destination", prior) /\ pc' = "sync restored" /\ UNCHANGED <<prior, cause, outcome, swapped>>
    BY <1>0, <2>1, <2>2, <2>4, PublicationAssumption DEF Trees, Path, Unfinished, ImagesFit, BackupSurvives,
       SuccessIsDurable, ErrorRestores, Is, Before, Aside, Published, Removed, Quarantined,
       Restored
  <2>5. CASE UNCHANGED <<dir, images, prior, swapped>> /\ pc' = "clean up" /\ cause' = cause
               /\ outcome' = IF dir["previous"] = None THEN "error" ELSE "incomplete"
    BY <1>0, <2>1, <2>5, PublicationAssumption DEF Trees, Unfinished, ImagesFit, BackupSurvives,
       SuccessIsDurable, ErrorRestores, Is, Before, Aside, Published, Removed, Quarantined,
       Restored
  <2> QED
    BY <2>3, <2>4, <2>5
<1>7. CASE SyncRestored
  <2>1. Restored(dir) /\ \A d \in images : Quarantined(d) \/ Restored(d)
    BY <1>0, <1>7 DEF SyncRestored, At, PublicationInv, ImagesFit
  <2> QED
    BY <1>0, <1>7, <2>1, PublicationAssumption DEF SyncRestored, At, Goto, Ok, Failed, Return, Unchanged, Synced,
       Trees, Path, Unfinished, ImagesFit, BackupSurvives, SuccessIsDurable, ErrorRestores, Is, Before, Aside, Published, Removed, Quarantined, Restored
<1> QED
  BY <1>1, <1>2, <1>3, <1>4, <1>5, <1>6, <1>7 DEF Recover

(* The staging tree of a call that failed is removed or not (publication.rs:178-200). *)
LEMMA CleanUpStep ==
  ASSUME PublicationInv, ~swapped, CleanUp
  PROVE  ImagesFit' /\ BackupSurvives' /\ SuccessIsDurable' /\ ErrorRestores'
<1>1. /\ dir \in images /\ images \subseteq Directory /\ dir \in Directory
      /\ prior \in {"old", None} /\ pc' = "returned" /\ UNCHANGED <<prior, cause, outcome, swapped>>
  BY DEF PublicationInv, PublicationTypeOK, ImagesFit, CleanUp, Goto, Unchanged
<1>2. CASE images' = images
  BY <1>1, <1>2 DEF PublicationInv, ImagesFit, BackupSurvives, SuccessIsDurable, ErrorRestores
<1>3. CASE outcome # "ok" /\ Become("staging", None)
  <2>1. ASSUME NEW e \in images', e \notin images
        PROVE  \E d \in images :
                 e["destination"] = d["destination"] /\ e["previous"] = d["previous"]
    <3>1. PICK d \in images : e = Put(d, "staging", None)
      BY <1>3, <2>1 DEF Become
    <3> QED
      BY <1>1, <3>1, PutTree DEF Path
  <2> QED
    BY <1>1, <1>3, <2>1 DEF PublicationInv, ImagesFit, BackupSurvives, SuccessIsDurable, ErrorRestores
<1> QED
  BY <1>2, <1>3 DEF CleanUp, Unchanged

(* A crash leaves one of the directories that were possible. *)
LEMMA CrashStep ==
  ASSUME PublicationInv, ~swapped, Crash
  PROVE  ImagesFit' /\ BackupSurvives' /\ SuccessIsDurable' /\ ErrorRestores'
BY DEF PublicationInv, Crash, Goto, ImagesFit, BackupSurvives, SuccessIsDurable, ErrorRestores

LEMMA PublicationStepInv == PublicationInv /\ [PublicationNext]_vars => PublicationInv'
<1> SUFFICES ASSUME PublicationInv, [PublicationNext]_vars PROVE PublicationInv'
  OBVIOUS
<1>1. CASE UNCHANGED vars
  <2>1. PublicationTypeOK' /\ CauseFits'
    BY <1>1 DEF vars, PublicationInv, PublicationTypeOK, CauseFits
  <2>2. BackupSurvives' /\ SuccessIsDurable' /\ ErrorRestores'
    BY <1>1 DEF vars, PublicationInv, BackupSurvives, SuccessIsDurable, ErrorRestores
  <2>3. swapped' = swapped /\ (ImagesFit' <=> ImagesFit)
    BY <1>1 DEF vars, ImagesFit, Is, Before, Aside, Published, Removed, Quarantined, Restored
  <2> QED
    BY <2>1, <2>2, <2>3 DEF PublicationInv
<1>2. CASE PublicationNext
  <2>1. PublicationTypeOK' /\ CauseFits'
    BY <1>2, RangesStep DEF PublicationInv
  <2>2. CASE swapped'
    BY <2>1, <2>2 DEF PublicationInv, BackupSurvives, SuccessIsDurable, ErrorRestores
  <2>3. CASE ~swapped'
    <3>0. swapped \in BOOLEAN /\ swapped' # TRUE
      BY <2>3 DEF PublicationInv, PublicationTypeOK
    <3>1. ~(\E p \in Path : Swap(p))
      BY <3>0 DEF Swap
    <3>2. swapped' = swapped
      <4>1. CASE Replace
        BY <4>1 DEF Replace, CheckCollision, ValidateStaging, ValidatePrior, MoveAside, SyncAside,
           Publish, Validate, SyncPublished, RemovePrevious, SyncRemoved, Unchanged, Failed, Synced,
           Renamed
      <4>2. CASE Recover
        BY <4>2 DEF Recover, RollBack, SyncRollback, Identify, Quarantine, SyncQuarantine, Restore,
           SyncRestored, Unchanged, Synced, Renamed
      <4> QED
        BY <1>2, <3>1, <4>1, <4>2 DEF PublicationNext, CleanUp, Crash, Unchanged
    <3> QED
      BY <1>2, <2>1, <2>3, <3>1, <3>2, ReplaceStep, RecoverStep, CleanUpStep, CrashStep
         DEF PublicationNext, PublicationInv
  <2> QED
    BY <2>2, <2>3 DEF PublicationInv, PublicationTypeOK
<1> QED
  BY <1>1, <1>2

LEMMA PublicationInvariance == PublicationSpec => []PublicationInv
BY PublicationInitInv, PublicationStepInv, PTL DEF PublicationSpec

----------------------------------------------------------------------------
(* A verified backup is on disk at every point where the machine may stop,     *)
(* whichever calls fail (publication.rs:26-160).                               *)
THEOREM BackupSurvivesHolds == PublicationSpec => []BackupSurvives
<1>1. PublicationInv => BackupSurvives
  BY DEF PublicationInv
<1> QED
  BY <1>1, PublicationInvariance, PTL

(* What replace_verified returns is so, also after a crash: the new backup     *)
(* alone, or the prior one in its place (publication.rs:52-160).               *)
THEOREM OutcomeIsDurableHolds == PublicationSpec => []OutcomeIsDurable
<1>1. PublicationInv => OutcomeIsDurable
  BY DEF PublicationInv, OutcomeIsDurable
<1> QED
  BY <1>1, PublicationInvariance, PTL

(* The only tree that is removed is the prior one, found again by its identity, *)
(* or the staged one (publication.rs:72-82, 178-200).                           *)
THEOREM ForeignNeverDeletedHolds == PublicationSpec => ForeignNeverDeleted
<1> DEFINE ForeignKept == pc' # "crashed" /\ prior # "foreign" /\ (\E p \in Path : dir[p] = "foreign") =>
                            \E p \in Path : dir'[p] = "foreign"
<1>1. PublicationInv /\ [PublicationNext]_vars => [ForeignKept]_vars
  <2> SUFFICES ASSUME PublicationInv, PublicationNext, pc' # "crashed", prior # "foreign",
                      NEW p \in Path, dir[p] = "foreign"
               PROVE  \E q \in Path : dir'[q] = "foreign"
    BY DEF vars
  <2>0. dir \in Directory
    BY DEF PublicationInv, PublicationTypeOK
  <2>1. CASE dir' = dir
    BY <2>1
  <2>2. CASE \E from, to \in Path, tree \in Trees \cup {None} : from # to /\ Renamed(from, to, tree)
    <3>1. PICK from \in Path, to \in Path, tree \in Trees \cup {None} :
            from # to /\ Renamed(from, to, tree)
      BY <2>2
    <3>2. dir'[to] = dir[from] /\ \A q \in Path : q # from /\ q # to => dir'[q] = dir[q]
      BY <3>1, RenamedImages DEF PublicationInv, Renamed
    <3>3. dir[to] # "foreign"
      BY <3>1, PublicationAssumption DEF Renamed, Trees
    <3> QED
      BY <3>2, <3>3
  <2>3. CASE \E q \in Path, tree \in Trees \cup {None} : dir[q] # "foreign" /\ Become(q, tree)
    BY <2>0, <2>3, PutTree DEF Become
  <2>4. CASE \E q \in Path : Become(q, "foreign")
    <3>1. PICK q \in Path : Become(q, "foreign")
      BY <2>4
    <3>2. "foreign" \in Trees \cup {None}
      BY DEF Trees
    <3>3. dir'[q] = "foreign"
      BY <2>0, <3>1, <3>2, PutTree DEF Become
    <3> QED
      BY <3>3
  <2> QED
    <3>1. CASE Replace
      BY <2>1, <2>2, <2>3, <3>1 DEF PublicationInv, PublicationTypeOK, Replace, CheckCollision,
         ValidateStaging, ValidatePrior, MoveAside, SyncAside, Publish, Validate, SyncPublished,
         RemovePrevious, SyncRemoved, Unchanged, Failed, Synced, Path, Trees
    <3>2. CASE Recover
      BY <2>1, <2>2, <3>2 DEF PublicationInv, PublicationTypeOK, Recover, RollBack, SyncRollback,
         Identify, Quarantine, SyncQuarantine, Restore, SyncRestored, Unchanged, Synced, Path, Trees
    <3>3. CASE CleanUp \/ (\E q \in Path : Swap(q)) \/ Crash
      BY <2>1, <2>3, <2>4, <3>3 DEF CleanUp, Swap, Crash, Goto, Unchanged, Path, Trees
    <3> QED
      BY <3>1, <3>2, <3>3 DEF PublicationNext
<1> QED
  BY <1>1, PublicationInvariance, PTL DEF PublicationSpec, ForeignNeverDeleted

----------------------------------------------------------------------------
(***************************************************************************)
(* Proofs about the staged copy of a backup, for any number of steps of    *)
(* another program.                                                        *)
(*                                                                         *)
(* The version in memory is that of the first manifest, and every read of  *)
(* a copy matches it.  What is removed was identified after its last move, *)
(* where the other program cannot reach it; and as long as nobody meddles  *)
(* the one tree is at the path that the next step looks at.                *)
(***************************************************************************)

Reading  == {"start", "manifest", "artifacts", "extras", "create"}
Copying  == {"sentinel", "write", "read back", "verify", "consume"}
Cleaning == {"drop", "isolate", "rename"}
Removing == {"identify", "remove"}

StagingRanges ==
  /\ staging_pc \in Reading \cup Copying \cup Cleaning \cup Removing \cup {"ended", "stranded"}
  /\ kept \in 0..3 \cup {Ours} /\ backup.id \in 0..3 /\ "id" \in DOMAIN backup
  /\ staging_pc = "remove" => disposal.id = kept
  /\ Stranger \notin destroyed /\ meddling \in Nat

(* The artifacts that were read and those that are left are the expected ones. *)
ConsumedInOrder ==
  /\ staging_pc \in Reading \cup {"sentinel", "write", "read back"} => ~guarded
  /\ staging_pc \in {"verify", "consume"} => guarded
  /\ staging_pc \notin {"start", "manifest", "ended"} => "version" \in DOMAIN memory
  /\ ~guarded => consumed = <<>>
  /\ guarded => \/ rest = expected_artifacts(memory["version"]) /\ consumed = <<>>
                \/ memory["version"] = 1 /\ rest = <<"power">> /\ DOMAIN consumed = {"qos"}
                \/ memory["version"] = 1 /\ rest = <<>> /\ DOMAIN consumed = Kinds
                \/ memory["version"] # 1 /\ rest = <<>> /\ DOMAIN consumed = {"qos"}
  /\ \A k \in DOMAIN consumed : consumed[k] = memory["version"]

(* Where the tree is when nobody meddles and no cleanup failed. *)
TreeIsKnown ==
  meddling = 0 /\ ~trouble =>
    /\ staging_pc \in Reading \cup {"ended"} => staging = NoTree /\ disposal = NoTree
    /\ staging_pc \in Copying \cup Cleaning =>
         /\ disposal = NoTree /\ staging.id = kept /\ kept = Ours
         /\ {"id", "sentinel"} \subseteq DOMAIN staging
         /\ guarded \/ staging_pc \in {"write", "read back"} => staging["sentinel"] = Sentinel
    /\ staging_pc \in Removing => staging = NoTree /\ disposal.id = kept
    /\ staging_pc = "stranded" => staging = Bundle(Ours, Absent) /\ disposal = NoTree

StagingInv == StagingRanges /\ ConsumedInOrder /\ TreeIsKnown

LEMMA StagingInitInv ==
  ASSUME StagingInit
  PROVE  StagingInv
<1> USE DEF StagingInit, Reading, Copying, Cleaning, Removing
<1>1. StagingRanges
  BY DEF StagingRanges, Bundle
<1>2. DOMAIN consumed = {} /\ consumed = <<>>
  BY EmptySeq
<1>3. ConsumedInOrder
  BY <1>2 DEF ConsumedInOrder
<1>4. TreeIsKnown
  BY DEF TreeIsKnown
<1> QED
  BY <1>1, <1>3, <1>4 DEF StagingInv

(* A step that reads and decides, and leaves the disk and what was consumed. *)
LEMMA DecideInv ==
  ASSUME StagingInv, UNCHANGED <<Disk, kept, memory, rest, consumed, guarded>>,
         \/ staging_pc \in Reading /\ staging_pc' \in Reading \cup {"ended"}
         \/ staging_pc \in Copying /\ staging_pc' \in Copying \cup {"drop"}
         \/ staging_pc \in Cleaning /\ staging_pc' \in Cleaning,
         staging_pc \in {"start", "manifest"} => staging_pc' \in {"start", "manifest", "ended"},
         staging_pc' \in {"verify", "consume"} => guarded,
         staging_pc' # "sentinel",
         staging_pc' \in {"write", "read back"} => staging_pc \in {"write", "read back"}
  PROVE  StagingInv'
<1> USE DEF StagingInv, Disk, Reading, Copying, Cleaning, Removing
<1>1. StagingRanges'
  BY DEF StagingRanges
<1>2. ConsumedInOrder'
  BY DEF ConsumedInOrder
<1>3. TreeIsKnown'
  BY DEF TreeIsKnown
<1> QED
  BY <1>1, <1>2, <1>3

(* The backup is opened and read (backup/mod.rs:61-130). *)
LEMMA ReadingInv ==
  ASSUME StagingInv,
         invalid \/ open_backup \/ parse_manifest \/ read_artifact \/ artifacts_read \/ no_extra
  PROVE  StagingInv'
<1> USE DEF StagingInv, Reading, Copying, Cleaning, Removing
<1>1. CASE invalid \/ artifacts_read \/ no_extra
  <2>1. /\ UNCHANGED <<Disk, kept, memory, rest, consumed, guarded>>
        /\ staging_pc \in Reading /\ staging_pc' \in Reading \cup {"ended"}
        /\ staging_pc \in {"start", "manifest"} => staging_pc' \in {"start", "manifest", "ended"}
    BY <1>1 DEF invalid, artifacts_read, no_extra, To, loop_vars
  <2>2. staging_pc' \notin {"sentinel", "verify", "consume", "write", "read back"}
    BY <2>1
  <2> HIDE DEF StagingInv, Reading, Copying, Cleaning, Removing
  <2> QED
    BY <2>1, <2>2, DecideInv
<1>2. CASE open_backup \/ parse_manifest \/ read_artifact
  <2>1. /\ UNCHANGED <<Disk, rest, consumed, guarded>> /\ kept' \in {kept, backup.id}
        /\ staging_pc \in Reading /\ staging_pc' \in {"manifest", "artifacts"}
    BY <1>2 DEF open_backup, parse_manifest, read_artifact, To, loop_vars, Disk
  <2>2. StagingRanges' /\ TreeIsKnown'
    BY <2>1 DEF StagingRanges, TreeIsKnown, Disk
  <2>3. staging_pc' = "artifacts" => "version" \in DOMAIN memory'
    <3>1. CASE parse_manifest
      BY <3>1 DEF parse_manifest
    <3>2. CASE read_artifact
      <4>1. "version" \in DOMAIN memory
        BY <3>2 DEF read_artifact, ConsumedInOrder
      <4> QED
        BY <3>2, <4>1 DEF read_artifact, With
    <3>3. CASE open_backup
      BY <3>3 DEF open_backup, To
    <3> QED
      BY <1>2, <3>1, <3>2, <3>3
  <2>4. ~guarded /\ consumed = <<>>
    BY <2>1 DEF ConsumedInOrder
  <2>5. DOMAIN consumed = {}
    BY <2>4, EmptySeq
  <2>6. ConsumedInOrder'
    BY <2>1, <2>3, <2>4, <2>5 DEF ConsumedInOrder
  <2> QED
    BY <2>2, <2>6
<1> QED
  BY <1>1, <1>2

(* The staging tree is made and filled (staging.rs:60-160). *)
LEMMA CreateInv ==
  ASSUME StagingInv, create_private_dir
  PROVE  StagingInv'
<1> USE DEF StagingInv, Reading, Copying, Cleaning, Removing
<1>1. /\ staging_pc = "create" /\ staging_pc' \in {"sentinel", "ended", "stranded"}
      /\ UNCHANGED <<backup, disposal, memory, rest, consumed, guarded, destroyed, trouble, meddling>>
      /\ kept' \in {kept, Ours}
      /\ staging_pc' = "sentinel" => staging' = Bundle(Ours, Absent) /\ kept' = Ours
      /\ staging_pc' = "stranded" => staging' = Bundle(Ours, Absent)
      /\ staging_pc' = "ended" => staging' = staging
  BY DEF create_private_dir, To, loop_vars
<1>2. StagingRanges'
  BY <1>1 DEF StagingRanges
<1>3. ConsumedInOrder'
  BY <1>1 DEF ConsumedInOrder
<1>4. Bundle(Ours, Absent).id = Ours /\ {"id", "sentinel"} \subseteq DOMAIN Bundle(Ours, Absent)
  BY DEF Bundle
<1>5. ASSUME meddling' = 0, ~trouble', staging_pc' = "sentinel"
      PROVE  /\ disposal' = NoTree /\ staging'.id = kept' /\ kept' = Ours
             /\ {"id", "sentinel"} \subseteq DOMAIN staging' /\ ~guarded'
  BY <1>1, <1>4, <1>5 DEF TreeIsKnown, ConsumedInOrder
<1>6. ASSUME meddling' = 0, ~trouble', staging_pc' = "ended"
      PROVE  staging' = NoTree /\ disposal' = NoTree
  BY <1>1, <1>6 DEF TreeIsKnown
<1>7. ASSUME meddling' = 0, ~trouble', staging_pc' = "stranded"
      PROVE  staging' = Bundle(Ours, Absent) /\ disposal' = NoTree
  BY <1>1, <1>7 DEF TreeIsKnown
<1>8. TreeIsKnown'
  BY <1>1, <1>5, <1>6, <1>7 DEF TreeIsKnown
<1> QED
  BY <1>2, <1>3, <1>8

LEMMA WriteInv ==
  ASSUME StagingInv, write_sentinel \/ write_artifact
  PROVE  StagingInv'
<1> USE DEF StagingInv, Reading, Copying, Cleaning, Removing
<1>1. PICK name, bytes :
        /\ staging[name] = Absent /\ staging' = [staging EXCEPT ![name] = bytes]
        /\ UNCHANGED <<backup, disposal, destroyed, trouble, meddling>>
        /\ write_sentinel => name = "sentinel" /\ bytes = Sentinel
  BY DEF write_sentinel, write_artifact, create_private_file
<1>2. /\ staging_pc \in {"sentinel", "write"} /\ staging_pc' \in {"write", "read back"}
      /\ UNCHANGED <<kept, memory, rest, consumed, guarded>>
      /\ write_artifact => staging_pc = "write"
  BY DEF write_sentinel, write_artifact, To, loop_vars
<1>3. StagingRanges' /\ ConsumedInOrder'
  BY <1>1, <1>2 DEF StagingRanges, ConsumedInOrder
<1>4. ASSUME meddling = 0, ~trouble
      PROVE  /\ staging'.id = kept /\ {"id", "sentinel"} \subseteq DOMAIN staging'
             /\ staging'["sentinel"] = Sentinel
  <2>1. /\ staging.id = Ours /\ kept = Ours /\ {"id", "sentinel"} \subseteq DOMAIN staging
        /\ write_artifact => staging["sentinel"] = Sentinel
    BY <1>2, <1>4 DEF TreeIsKnown
  <2>2. name # "id" /\ (write_artifact => name # "sentinel")
    BY <1>1, <2>1 DEF Ours, Absent, Sentinel
  <2>3. staging'.id = staging.id /\ DOMAIN staging' = DOMAIN staging
    BY <1>1, <2>1, <2>2
  <2>4. staging'["sentinel"] = Sentinel
    <3>1. CASE write_sentinel
      BY <1>1, <2>1, <3>1
    <3>2. CASE write_artifact
      BY <1>1, <2>1, <2>2, <3>2
    <3> QED
      BY <3>1, <3>2
  <2> QED
    BY <2>1, <2>3, <2>4
<1>5. TreeIsKnown'
  BY <1>1, <1>2, <1>4 DEF TreeIsKnown
<1> QED
  BY <1>3, <1>5

(* The tree is handed over, and an artifact is taken from it (staging.rs:162-226). *)
LEMMA StagedInv ==
  ASSUME StagingInv, staged \/ read
  PROVE  StagingInv'
<1> USE DEF StagingInv, Reading, Copying, Cleaning, Removing
<1>1. /\ staging_pc \in {"write", "consume"} /\ staging_pc' = "verify" /\ guarded'
      /\ UNCHANGED Disk /\ UNCHANGED <<kept, memory>>
      /\ guarded \/ staging_pc = "write"
  BY DEF staged, read, To, ConsumedInOrder
<1>2. StagingRanges' /\ TreeIsKnown'
  BY <1>1 DEF StagingRanges, TreeIsKnown, Disk
<1>3. CASE staged
  <2>1. /\ rest' = expected_artifacts(memory["version"]) /\ consumed' = consumed
        /\ consumed = <<>> /\ "version" \in DOMAIN memory
    BY <1>3 DEF staged, ConsumedInOrder
  <2>2. rest' = expected_artifacts(memory'["version"])
    BY <1>1, <2>1
  <2>3. ConsumedInOrder'
    BY <1>1, <2>1, <2>2 DEF ConsumedInOrder
  <2> QED
    BY <1>2, <2>3
<1>4. CASE read
  <2>1. /\ rest # <<>> /\ staging[Head(rest)] = memory["version"] /\ guarded
        /\ consumed' = With(consumed, Head(rest), staging[Head(rest)]) /\ rest' = Tail(rest)
    BY <1>4 DEF read, read_verified, Matches, ConsumedInOrder
  <2>2. /\ DOMAIN consumed' = DOMAIN consumed \cup {Head(rest)}
        /\ \A k \in DOMAIN consumed' : consumed'[k] = memory["version"]
    BY <2>1 DEF With, ConsumedInOrder
  <2>3. /\ Head(<<"power">>) = "power" /\ Tail(<<"power">>) = <<>>
        /\ Head(<<"qos">>) = "qos" /\ Tail(<<"qos">>) = <<>>
        /\ Head(<<"qos", "power">>) = "qos" /\ Tail(<<"qos", "power">>) = <<"power">>
    OBVIOUS
  <2>4. \/ memory["version"] = 1 /\ rest' = <<"power">> /\ DOMAIN consumed' = {"qos"}
        \/ memory["version"] = 1 /\ rest' = <<>> /\ DOMAIN consumed' = Kinds
        \/ memory["version"] # 1 /\ rest' = <<>> /\ DOMAIN consumed' = {"qos"}
    <3>1. CASE rest = expected_artifacts(memory["version"]) /\ consumed = <<>>
                 /\ memory["version"] = 1
      BY <2>1, <2>2, <2>3, <3>1 DEF expected_artifacts, ALL
    <3>2. CASE rest = expected_artifacts(memory["version"]) /\ consumed = <<>>
                 /\ memory["version"] # 1
      BY <2>1, <2>2, <2>3, <3>2 DEF expected_artifacts, ALL
    <3>3. CASE memory["version"] = 1 /\ rest = <<"power">> /\ DOMAIN consumed = {"qos"}
      BY <2>1, <2>2, <2>3, <3>3 DEF Kinds
    <3> QED
      BY <2>1, <3>1, <3>2, <3>3 DEF ConsumedInOrder
  <2>5. ConsumedInOrder'
    BY <1>1, <2>2, <2>4 DEF ConsumedInOrder
  <2> QED
    BY <1>2, <2>5
<1> QED
  BY <1>2, <1>3, <1>4

(* The tree is verified, or found to be something else. *)
LEMMA VerifyInv ==
  ASSUME StagingInv, stage_fails \/ read_back \/ verify_staged \/ verified \/ restored
  PROVE  StagingInv'
<1>1. /\ UNCHANGED <<Disk, kept, memory, rest, consumed, guarded>>
      /\ staging_pc \in Copying /\ staging_pc' \in {"write", "verify", "consume", "drop"}
      /\ staging_pc' = "write" => staging_pc = "read back"
      /\ staging_pc' \in {"verify", "consume"} => staging_pc = "verify"
  BY DEF stage_fails, Refuse, read_back, verify_staged, verified, restored, To, loop_vars, Copying
<1>2. staging_pc' \in {"verify", "consume"} => guarded
  BY <1>1 DEF StagingInv, ConsumedInOrder
<1>3. staging_pc' \in Copying \cup {"drop"} /\ staging_pc' # "sentinel"
      /\ staging_pc \notin {"start", "manifest"}
      /\ (staging_pc' \in {"write", "read back"} => staging_pc \in {"write", "read back"})
  BY <1>1 DEF Copying
<1> QED
  BY <1>1, <1>2, <1>3, DecideInv

(* The tree is left where it is: it is not ours, or the cleanup or the process failed. *)
LEMMA LeaveInv ==
  ASSUME StagingInv, staging_pc' = "ended",
         UNCHANGED <<backup, staging, disposal, destroyed, meddling>>,
         UNCHANGED <<kept, memory, rest, consumed, guarded>>,
         trouble' \/ (trouble' = trouble /\ (meddling # 0 \/ staging_pc \in Reading \cup {"ended"}))
  PROVE  StagingInv'
<1> USE DEF StagingInv, Reading, Copying, Cleaning, Removing
<1>1. StagingRanges'
  BY DEF StagingRanges
<1>2. ConsumedInOrder'
  BY DEF ConsumedInOrder
<1>3. TreeIsKnown'
  BY DEF TreeIsKnown
<1> QED
  BY <1>1, <1>2, <1>3

(* drop and the steps of remove_owned_directory (trusted_io.rs:74-107). *)
LEMMA CleanInv ==
  ASSUME StagingInv, drop \/ isolate \/ cleanup_fails \/ StagingCrash \/ rename \/ identify \/ remove_dir_all
  PROVE  StagingInv'
<1> USE DEF StagingInv, Reading, Copying, Cleaning, Removing
<1>1. CASE drop \/ isolate \/ cleanup_fails \/ StagingCrash
  <2>1. /\ UNCHANGED <<backup, staging, disposal, destroyed, meddling>>
        /\ UNCHANGED <<kept, memory, rest, consumed, guarded>>
        /\ \/ staging_pc' = "ended" /\ trouble' = TRUE
           \/ /\ staging_pc \in {"drop", "isolate"} /\ trouble' = trouble
              /\ \/ staging_pc' \in Cleaning
                 \/ /\ staging_pc' = "ended"
                    /\ staging.id # kept \/ (guarded /\ staging["sentinel"] \notin {Sentinel, Rewritten})
    BY <1>1 DEF drop, isolate, cleanup_fails, StagingCrash, To, Disk, loop_vars
  <2>2. CASE staging_pc' = "ended" /\ trouble' = TRUE
    BY <2>1, <2>2, LeaveInv
  <2>3. CASE /\ staging_pc \in {"drop", "isolate"} /\ trouble' = trouble /\ staging_pc' = "ended"
             /\ staging.id # kept \/ (guarded /\ staging["sentinel"] \notin {Sentinel, Rewritten})
    <3>1. meddling # 0 \/ trouble
      BY <2>3 DEF TreeIsKnown
    <3> QED
      BY <2>1, <2>3, <3>1, LeaveInv
  <2>4. CASE /\ staging_pc \in {"drop", "isolate"} /\ trouble' = trouble /\ staging_pc' \in Cleaning
    <3>1. StagingRanges' /\ ConsumedInOrder'
      BY <2>1, <2>4 DEF StagingRanges, ConsumedInOrder
    <3>2. TreeIsKnown'
      BY <2>1, <2>4 DEF TreeIsKnown
    <3> QED
      BY <3>1, <3>2
  <2> QED
    BY <2>1, <2>2, <2>3, <2>4
<1>2. CASE rename \/ identify \/ remove_dir_all
  <2>1. /\ UNCHANGED <<backup, trouble, meddling, kept, memory, rest, consumed, guarded>>
        /\ staging_pc \in {"rename"} \cup Removing /\ staging_pc' \in Removing \cup {"ended"}
        /\ rename => /\ staging_pc = "rename" /\ staging_pc' = "identify"
                     /\ staging' = NoTree /\ disposal' = staging /\ destroyed' = destroyed
        /\ identify => /\ staging_pc = "identify" /\ UNCHANGED <<staging, disposal, destroyed>>
                       /\ staging_pc' = "remove" => disposal.id = kept
                       /\ staging_pc' # "remove" => disposal.id # kept /\ staging_pc' = "ended"
        /\ remove_dir_all => /\ staging_pc = "remove" /\ staging_pc' = "ended" /\ staging' = staging
                             /\ disposal' = NoTree /\ destroyed' = destroyed \cup {disposal.id}
    BY <1>2 DEF rename, identify, remove_dir_all, To, Disk, loop_vars
  <2>2. ConsumedInOrder'
    BY <2>1 DEF ConsumedInOrder
  <2>3. StagingRanges'
    <3>1. destroyed' = destroyed \/ (destroyed' = destroyed \cup {disposal.id} /\ disposal.id = kept)
      <4>1. CASE rename \/ identify
        BY <2>1, <4>1
      <4>2. CASE remove_dir_all
        BY <2>1, <4>2 DEF StagingRanges
      <4> QED
        BY <1>2, <4>1, <4>2
    <3>2. Stranger \notin destroyed'
      <4>1. kept # Stranger
        <5>1. kept \in 0..3 \/ kept = 5
          BY DEF StagingRanges, Ours
        <5> QED
          BY <5>1 DEF Stranger
      <4>2. Stranger \notin destroyed
        BY DEF StagingRanges
      <4> QED
        BY <3>1, <4>1, <4>2
    <3>3. staging_pc' = "remove" => disposal' = disposal /\ disposal.id = kept
      BY <1>2, <2>1
    <3> QED
      BY <2>1, <3>2, <3>3 DEF StagingRanges
  <2>4. TreeIsKnown'
    <3>1. CASE rename
      BY <2>1, <3>1 DEF TreeIsKnown
    <3>2. CASE identify
      BY <2>1, <3>2 DEF TreeIsKnown
    <3>3. CASE remove_dir_all
      BY <2>1, <3>3 DEF TreeIsKnown
    <3> QED
      BY <1>2, <3>1, <3>2, <3>3
  <2> QED
    BY <2>2, <2>3, <2>4
<1> QED
  BY <1>1, <1>2

(* The other program reaches the backup and the staging path only. *)
LEMMA MeddleInv ==
  ASSUME StagingInv, Meddle
  PROVE  StagingInv'
<1>1. /\ meddling' = meddling + 1
      /\ UNCHANGED <<disposal, destroyed, trouble, kept, memory, staging_pc, rest, consumed, guarded>>
      /\ \/ backup' = backup
         \/ \E n \in Kinds \cup {"manifest"}, b \in Bytes : backup' = [backup EXCEPT ![n] = b]
         \/ backup' \in {NoTree, Bundle(2, 2), Bundle(3, 1)}
  BY DEF Meddle, loop_vars
<1>2. backup'.id \in 0..3 /\ "id" \in DOMAIN backup'
  <2>1. CASE backup' = backup
    BY <2>1 DEF StagingInv, StagingRanges
  <2>2. CASE \E n \in Kinds \cup {"manifest"}, b \in Bytes : backup' = [backup EXCEPT ![n] = b]
    BY <2>2 DEF StagingInv, StagingRanges, Kinds
  <2>3. CASE backup' \in {NoTree, Bundle(2, 2), Bundle(3, 1)}
    BY <2>3 DEF NoTree, Bundle
  <2> QED
    BY <1>1, <2>1, <2>2, <2>3
<1>3. StagingRanges'
  BY <1>1, <1>2 DEF StagingInv, StagingRanges
<1>4. ConsumedInOrder'
  BY <1>1 DEF StagingInv, ConsumedInOrder
<1>5. meddling' # 0
  BY <1>1 DEF StagingInv, StagingRanges
<1>6. TreeIsKnown'
  BY <1>5 DEF TreeIsKnown
<1> QED
  BY <1>3, <1>4, <1>6 DEF StagingInv

LEMMA StagingStepInv ==
  ASSUME StagingInv, [StagingNext]_staging_vars
  PROVE  StagingInv'
<1>1. CASE invalid \/ open_backup \/ parse_manifest \/ read_artifact \/ artifacts_read \/ no_extra
  BY <1>1, ReadingInv
<1>2. CASE create_private_dir
  BY <1>2, CreateInv
<1>3. CASE write_sentinel \/ write_artifact
  BY <1>3, WriteInv
<1>4. CASE staged \/ read
  BY <1>4, StagedInv
<1>5. CASE stage_fails \/ read_back \/ verify_staged \/ verified \/ restored
  BY <1>5, VerifyInv
<1>6. CASE drop \/ isolate \/ cleanup_fails \/ StagingCrash \/ rename \/ identify \/ remove_dir_all
  BY <1>6, CleanInv
<1>7. CASE Meddle
  BY <1>7, MeddleInv
<1>8. CASE UNCHANGED staging_vars
  <2>1. StagingRanges'
    BY <1>8 DEF StagingInv, StagingRanges, staging_vars, loop_vars
  <2>2. ConsumedInOrder'
    BY <1>8 DEF StagingInv, ConsumedInOrder, staging_vars, loop_vars
  <2>3. TreeIsKnown'
    BY <1>8 DEF StagingInv, TreeIsKnown, staging_vars, loop_vars
  <2> QED
    BY <2>1, <2>2, <2>3 DEF StagingInv
<1> QED
  BY <1>1, <1>2, <1>3, <1>4, <1>5, <1>6, <1>7, <1>8 DEF StagingNext

THEOREM StagingInvariance == StagingSpec => []StagingInv
<1>1. StagingInit => StagingInv
  BY StagingInitInv
<1>2. StagingInv /\ [StagingNext]_staging_vars => StagingInv'
  BY StagingStepInv
<1> QED
  BY <1>1, <1>2, PTL DEF StagingSpec

(* One backup: every artifact that was read is of the version whose manifest  *)
(* was read, and a restore that read its last one has read each of them       *)
(* (backup/mod.rs:61-130, staging.rs:162-226).                                *)
THEOREM RestoreIsOneBackupHolds == StagingSpec => []RestoreIsOneBackup
<1>1. ASSUME StagingInv PROVE RestoreIsOneBackup
  <2>1. \A k \in DOMAIN consumed : consumed[k] = memory["version"]
    BY <1>1 DEF StagingInv, ConsumedInOrder
  <2>2. ASSUME rest = <<>>, consumed # <<>>
        PROVE  \A k \in Kinds : k \in DOMAIN consumed <=>
                 \E i \in 1..Len(expected_artifacts(memory["version"])) :
                    expected_artifacts(memory["version"])[i] = k
    <3>1. \/ memory["version"] = 1 /\ DOMAIN consumed = Kinds
          \/ memory["version"] # 1 /\ DOMAIN consumed = {"qos"}
      BY <1>1, <2>2 DEF StagingInv, ConsumedInOrder, expected_artifacts, ALL
    <3>2. /\ Len(ALL) = 2 /\ ALL[1] = "qos" /\ ALL[2] = "power"
          /\ Len(<<"qos">>) = 1 /\ <<"qos">>[1] = "qos"
      BY DEF ALL
    <3> QED
      BY <3>1, <3>2 DEF Kinds, expected_artifacts
  <2> QED
    BY <2>1, <2>2 DEF RestoreIsOneBackup
<1> QED
  BY <1>1, StagingInvariance, PTL

(* Strangers: a tree that was put at the staging path by somebody else is not *)
(* deleted, at whichever call of the cleanup it got there                     *)
(* (trusted_io.rs:74-107).                                                    *)
THEOREM StrangersAreKeptHolds == StagingSpec => []StrangersAreKept
<1>1. StagingInv => StrangersAreKept
  BY DEF StagingInv, StagingRanges, StrangersAreKept
<1> QED
  BY <1>1, StagingInvariance, PTL

(* Nothing is left: a restore that nobody meddled with and whose cleanup did  *)
(* not fail removes its tree, wherever it stopped, but for the empty one that *)
(* it made and could not open (staging.rs:22-48, 61-68, 229-241).             *)
THEOREM NothingIsLeftHolds == StagingSpec => []NothingIsLeft
<1>1. StagingInv => NothingIsLeft
  BY DEF StagingInv, TreeIsKnown, NothingIsLeft
<1> QED
  BY <1>1, StagingInvariance, PTL
=============================================================================
