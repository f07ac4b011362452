--------------------------- MODULE RestoreStaging ---------------------------
(***************************************************************************)
(* How a restore reads a backup (tuning/backup): the folder is validated   *)
(* into memory, copied into a protected staging tree, verified before and  *)
(* during use, and removed, while another program changes files, swaps     *)
(* directories or publishes another backup between any two calls.          *)
(***************************************************************************)
EXTENDS Naturals, Sequences

CONSTANTS MaxMeddling   \* bound: what the other program does

ASSUME StagingAssumption == MaxMeddling \in Nat

(* Two backups, by their version; the second lacks a component.  The bytes   *)
(* of an artifact are the version it belongs to: its digest is in the        *)
(* manifest of that version and in no other.                                 *)
ALL == <<"qos", "power">>
Kinds == {"qos", "power"}
Versions == {1, 2}
expected_artifacts(version) == IF version = 1 THEN ALL ELSE <<"qos">>
Absent == 0
Garbled == 3   \* bytes no digest is of
Bytes == {Absent, Garbled} \cup Versions

(* A directory: its identity, and its files by name. *)
FileNames == Kinds \cup {"manifest", "sentinel"}
NoTree == [id |-> 0]
Bundle(id, version) ==
  [id |-> id, manifest |-> version, qos |-> version, sentinel |-> Absent,
   power |-> IF version = 1 THEN version ELSE Absent]
(* The artifact joins those that were read before it. *)
With(artifacts, kind, bytes) ==
  [k \in DOMAIN artifacts \cup {kind} |-> IF k \in DOMAIN artifacts THEN artifacts[k] ELSE bytes]

Stranger == 9
Ours == 5
Sentinel == 7   \* the nonce
Rewritten == 8  \* other bytes in the same file

VARIABLES
  backup,      \* the directory at the backup's path
  staging,     \* the directory at the staging path
  disposal,    \* the directory at the disposal path
  kept,        \* the directory a restore holds open, by identity
  memory,      \* the bundle in memory: its version, then its artifacts
  staging_pc,  \* where the restore stands
  todo,        \* what this loop has still to go through
  rest,        \* artifacts still to be consumed
  consumed,    \* what the restore has read, by kind
  guarded,     \* whether the sentinel is held too
  destroyed,   \* identities of the trees that were deleted
  trouble,     \* a call of the cleanup failed, or the process died
  meddling     \* what the other program has done
loop_vars == <<todo, rest>>
staging_vars == <<backup, staging, disposal, kept, memory, staging_pc, loop_vars, consumed,
                  guarded, destroyed, trouble, meddling>>

StagingInit ==
  /\ backup = Bundle(1, 1) /\ staging = NoTree /\ disposal = NoTree
  /\ kept = 0 /\ memory = <<>> /\ staging_pc = "start" /\ todo = <<>> /\ rest = <<>>
  /\ consumed = <<>> /\ guarded = FALSE /\ destroyed = {} /\ trouble = FALSE /\ meddling = 0

To(label) == staging_pc' = label
over == staging_pc \in {"ended", "stranded"}   \* the restore has returned
Disk == <<backup, staging, disposal, destroyed, trouble, meddling>>

----------------------------------------------------------------------------
(* validate_backup_bundle, to memory. *)

(* Any call of it fails: nothing was made yet. *)
invalid ==
  /\ staging_pc \in {"start", "manifest", "artifacts", "extras"}
  /\ To("ended")
  /\ UNCHANGED <<Disk, kept, memory, loop_vars, consumed, guarded>>

open_backup ==
  /\ staging_pc = "start" /\ backup # NoTree
  /\ kept' = backup.id /\ To("manifest")
  /\ UNCHANGED <<Disk, memory, loop_vars, consumed, guarded>>

parse_manifest ==
  /\ staging_pc = "manifest" /\ backup.id = kept /\ backup.manifest \in Versions
  /\ memory' = [version |-> backup.manifest]
  /\ todo' = expected_artifacts(backup.manifest)
  /\ To("artifacts")
  /\ UNCHANGED <<Disk, kept, rest, consumed, guarded>>

(* sha256_upper against the digest of the manifest. *)
Matches(bytes) == bytes = memory["version"]

(* read_bounded between two looks at the directory: the bytes at the second. *)
read_artifact ==
  /\ staging_pc = "artifacts" /\ todo # <<>>
  /\ backup.id = kept /\ Matches(backup[Head(todo)])
  /\ memory' = With(memory, Head(todo), backup[Head(todo)])
  /\ todo' = Tail(todo)
  /\ UNCHANGED <<Disk, kept, staging_pc, rest, consumed, guarded>>

artifacts_read ==
  /\ staging_pc = "artifacts" /\ todo = <<>>
  /\ todo' = ALL /\ To("extras")
  /\ UNCHANGED <<Disk, kept, memory, rest, consumed, guarded>>

(* No file of a component that is not enabled; then the directory once more. *)
no_extra ==
  /\ staging_pc = "extras" /\ backup.id = kept
  /\ IF todo = <<>> THEN To("create") /\ UNCHANGED todo
     ELSE /\ backup[Head(todo)] = Absent \/ Head(todo) \in DOMAIN memory
          /\ todo' = Tail(todo) /\ UNCHANGED staging_pc
  /\ UNCHANGED <<Disk, kept, memory, rest, consumed, guarded>>

----------------------------------------------------------------------------
(* stage_verified *)

(* The tree is made; once its directory is held, CleanupGuard has it.  When   *)
(* it cannot be opened the error is returned before there is a guard: the     *)
(* restore is "stranded", and no code removes the tree it made.               *)
create_private_dir ==
  /\ staging_pc = "create"
  /\ \/ /\ staging' = Bundle(Ours, Absent)
        /\ \/ kept' = Ours /\ To("sentinel")
           \/ To("stranded") /\ UNCHANGED kept
     \/ To("ended") /\ UNCHANGED <<staging, kept>>
  /\ UNCHANGED <<backup, disposal, memory, loop_vars, consumed, guarded, destroyed, trouble,
                 meddling>>

(* A call fails, or finds something it did not put there: the guard cleans up. *)
Refuse == To("drop") /\ UNCHANGED <<Disk, kept, memory, loop_vars, consumed, guarded>>
stage_fails == staging_pc \in {"sentinel", "write", "read back", "verify", "consume"} /\ Refuse

(* create_new in whatever directory is at the path: the file must not be there. *)
create_private_file(name, bytes) ==
  /\ staging # NoTree /\ staging[name] = Absent
  /\ staging' = [staging EXCEPT ![name] = bytes]
  /\ UNCHANGED <<backup, disposal, destroyed, trouble, meddling>>

write_sentinel ==
  /\ staging_pc = "sentinel"
  /\ create_private_file("sentinel", Sentinel)
  /\ todo' = expected_artifacts(memory["version"]) /\ To("write")
  /\ UNCHANGED <<kept, memory, rest, consumed, guarded>>

write_artifact ==
  /\ staging_pc = "write" /\ todo # <<>>
  /\ create_private_file(Head(todo), memory[Head(todo)])
  /\ To("read back")
  /\ UNCHANGED <<kept, memory, loop_vars, consumed, guarded>>

read_back ==
  /\ staging_pc = "read back" /\ staging.id = kept /\ Matches(staging[Head(todo)])
  /\ todo' = Tail(todo) /\ To("write")
  /\ UNCHANGED <<Disk, kept, memory, rest, consumed, guarded>>

Sweep == << "sentinel" >> \o expected_artifacts(memory["version"])

(* The StagedBackup takes the directory over and verifies. *)
staged ==
  /\ staging_pc = "write" /\ todo = <<>>
  /\ guarded' = TRUE /\ rest' = expected_artifacts(memory["version"])
  /\ todo' = Sweep /\ To("verify")
  /\ UNCHANGED <<Disk, kept, memory, consumed>>

(* Mutant: a staged file is what was staged. *)
read_verified_Trusted(kind) == staging.id = kept /\ staging[kind] # Absent

(* What is read is what the manifest has the digest of, in the held directory. *)
read_verified(kind) == staging.id = kept /\ Matches(staging[kind])

verify_staged ==
  /\ staging_pc = "verify" /\ todo # <<>>
  /\ staging.id = kept
  /\ IF Head(todo) = "sentinel" THEN staging["sentinel"] = Sentinel ELSE read_verified(Head(todo))
  /\ todo' = Tail(todo)
  /\ UNCHANGED <<Disk, kept, memory, staging_pc, rest, consumed, guarded>>

verified ==
  /\ staging_pc = "verify" /\ todo = <<>> /\ staging.id = kept
  /\ To("consume")
  /\ UNCHANGED <<Disk, kept, memory, loop_vars, consumed, guarded>>

(* StagedBackup::read: one artifact after each verification of all. *)
read ==
  /\ staging_pc = "consume" /\ rest # <<>> /\ read_verified(Head(rest))
  /\ consumed' = With(consumed, Head(rest), staging[Head(rest)])
  /\ rest' = Tail(rest) /\ todo' = Sweep /\ To("verify")
  /\ UNCHANGED <<Disk, kept, memory, guarded>>

restored ==
  /\ staging_pc = "consume" /\ rest = <<>>
  /\ To("drop")
  /\ UNCHANGED <<Disk, kept, memory, loop_vars, consumed, guarded>>

----------------------------------------------------------------------------
(* Drop and remove_owned_directory. *)

(* Mutant: only a complete staging tree is removed. *)
drop_Staged ==
  /\ staging_pc = "drop"
  /\ IF guarded /\ staging.id = kept /\ staging["sentinel"] \in {Sentinel, Rewritten}
     THEN To("isolate") ELSE To("ended")
  /\ UNCHANGED <<Disk, kept, memory, loop_vars, consumed, guarded>>

(* The directory, and of a StagedBackup the sentinel too, must still be ours. *)
drop ==
  /\ staging_pc = "drop"
  /\ IF staging.id = kept /\ (guarded => staging["sentinel"] \in {Sentinel, Rewritten})
     THEN To("isolate") ELSE To("ended")
  /\ UNCHANGED <<Disk, kept, memory, loop_vars, consumed, guarded>>

cleanup_fails ==
  /\ staging_pc \in {"drop", "isolate", "rename", "identify", "remove"}
  /\ To("ended") /\ trouble' = TRUE
  /\ UNCHANGED <<backup, staging, disposal, destroyed, meddling, kept, memory, loop_vars, consumed,
                 guarded>>

isolate ==
  /\ staging_pc = "isolate"
  /\ IF staging.id = kept THEN To("rename") ELSE To("ended")
  /\ UNCHANGED <<Disk, kept, memory, loop_vars, consumed, guarded>>

rename ==
  /\ staging_pc = "rename" /\ staging # NoTree
  /\ disposal' = staging /\ staging' = NoTree
  /\ To("identify")
  /\ UNCHANGED <<backup, destroyed, trouble, meddling, kept, memory, loop_vars, consumed, guarded>>

(* Mutant: it was ours before the rename. *)
identify_No ==
  /\ staging_pc = "identify" /\ To("remove")
  /\ UNCHANGED <<Disk, kept, memory, loop_vars, consumed, guarded>>

(* What was renamed may not be what was looked at. *)
identify ==
  /\ staging_pc = "identify"
  /\ IF disposal.id = kept THEN To("remove") ELSE To("ended")
  /\ UNCHANGED <<Disk, kept, memory, loop_vars, consumed, guarded>>

remove_dir_all ==
  /\ staging_pc = "remove"
  /\ destroyed' = destroyed \cup {disposal.id} /\ disposal' = NoTree
  /\ To("ended")
  /\ UNCHANGED <<backup, staging, trouble, meddling, kept, memory, loop_vars, consumed, guarded>>

StagingCrash ==
  /\ ~over
  /\ To("ended") /\ trouble' = TRUE
  /\ UNCHANGED <<backup, staging, disposal, destroyed, meddling, kept, memory, loop_vars, consumed,
                 guarded>>

----------------------------------------------------------------------------
(* The other program: at the backup, files change, and directories are moved  *)
(* away and put there; at the staging path it changes and replaces files,     *)
(* puts an older tree's file back, or swaps the directory.                    *)
Meddle ==
  /\ meddling < MaxMeddling /\ ~over /\ meddling' = meddling + 1
  /\ \/ /\ \/ backup # NoTree /\ \E n \in Kinds \cup {"manifest"}, b \in Bytes :
                backup' = [backup EXCEPT ![n] = b]
           \/ backup' \in {NoTree, Bundle(2, 2), Bundle(3, 1)} \ {backup}
        /\ UNCHANGED staging
     \/ /\ staging # NoTree
        /\ \/ \E n \in Kinds \cup {"sentinel"}, b \in Bytes \cup {Rewritten} : staging' = [staging EXCEPT ![n] = b]
           \/ staging' \in {NoTree, [staging EXCEPT !.id = Stranger]}
        /\ UNCHANGED backup
  /\ UNCHANGED <<disposal, destroyed, trouble, kept, memory, staging_pc, loop_vars, consumed, guarded>>

StagingNext ==
  \/ invalid \/ open_backup \/ parse_manifest \/ read_artifact \/ artifacts_read \/ no_extra
  \/ create_private_dir \/ stage_fails \/ write_sentinel \/ write_artifact \/ read_back \/ staged
  \/ verify_staged \/ verified \/ read \/ restored
  \/ drop \/ cleanup_fails \/ isolate \/ rename \/ identify \/ remove_dir_all
  \/ StagingCrash \/ Meddle

StagingSpec == StagingInit /\ [][StagingNext]_staging_vars

----------------------------------------------------------------------------
(* What a restore writes is one backup, the one whose manifest was read,      *)
(* whatever happens to the folder or to the staged copies meanwhile           *)
(* (backup/mod.rs:61-130, staging.rs:162-226).                                *)
RestoreIsOneBackup ==
  /\ \A k \in DOMAIN consumed : consumed[k] = memory["version"]
  /\ staging_pc = "drop" /\ rest = <<>> /\ consumed # <<>> =>
       \A k \in Kinds : k \in DOMAIN consumed <=>
         \E i \in 1..Len(expected_artifacts(memory["version"])) :
            expected_artifacts(memory["version"])[i] = k

(* A tree that another program put at the staging path is never deleted, even *)
(* when it got there between two calls of the cleanup (trusted_io.rs:74-107). *)
StrangersAreKept == Stranger \notin destroyed

(* However the restore ends, and at whichever call it failed, its tree is     *)
(* gone.  There are four exceptions: the other program meddled; a call of the *)
(* cleanup failed, or the process died (trouble); or the tree was made but    *)
(* could not be opened, before CleanupGuard exists (stranded).  The last one  *)
(* leaves an empty directory, with nothing of the backup in it                *)
(* (staging.rs:22-48, 61-68, 229-241).                                        *)
NothingIsLeft ==
  meddling = 0 /\ ~trouble =>
    /\ staging_pc = "ended" => staging = NoTree /\ disposal = NoTree
    /\ staging_pc = "stranded" => staging = Bundle(Ours, Absent) /\ disposal = NoTree
============================================================================
