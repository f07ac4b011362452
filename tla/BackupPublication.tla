------------------------- MODULE BackupPublication -------------------------
(***************************************************************************)
(* replace_verified of tuning/src/backup/publication.rs: a complete backup *)
(* tree in a staging directory replaces the one at the backup folder, by   *)
(* renames under one parent directory, and is taken back if it does not    *)
(* verify or cannot be made durable.                                       *)
(*                                                                         *)
(* Any call to the file system may fail, the machine may crash between two *)
(* of them, and another program may put a tree of its own in place of one  *)
(* (the code's tests do).  Of the changes made to the parent directory     *)
(* since it was last synchronised a crash may keep any.                    *)
(***************************************************************************)
CONSTANT None   \* no tree at a path

VARIABLES
  dir,      \* the parent directory: the tree at each path
  images,   \* what a crash may leave of it
  prior,    \* the identity found at the destination
  pc,       \* the next file system call
  cause,    \* the call that failed first
  outcome,  \* what replace_verified returned
  swapped   \* another program has put its tree at some path

vars == <<dir, images, prior, pc, cause, outcome, swapped>>

Path  == {"staging", "destination", "previous", "quarantine"}
Trees == {"old", "new", "partial", "foreign"}
Directory == [Path -> Trees \cup {None}]

ASSUME PublicationAssumption == None \notin Trees

Step == {"collision", "validate staging", "validate prior", "move aside", "sync aside",
         "publish", "validate", "sync published", "remove previous", "sync removed",
         "roll back", "sync rollback", "identify", "quarantine", "sync quarantine",
         "restore", "sync restored", "clean up", "returned", "crashed"}

Initial(there, other) ==
  [p \in Path |-> CASE p = "staging"     -> "new"
                    [] p = "destination" -> there
                    [] p = "previous"    -> other
                    [] OTHER             -> None]

PublicationInit ==
  /\ \E there \in {"old", None}, other \in {"foreign", None} : dir = Initial(there, other)
  /\ images = {dir}
  /\ prior = None
  /\ pc = "collision" /\ cause = "none" /\ outcome = "none" /\ swapped = FALSE

----------------------------------------------------------------------------
(* The file system. *)

At(step) == pc = step
Goto(step) == pc' = step
Unchanged == UNCHANGED <<dir, images, swapped>>

Moved(d, from, to, tree) ==
  IF d[from] = tree /\ d[to] = None THEN [d EXCEPT ![from] = None, ![to] = tree] ELSE d

Put(d, p, tree) == [d EXCEPT ![p] = tree]

(* Identity checked, and never over another tree.  Unless the directory is    *)
(* synchronised, a crash may undo this change and not those around it.        *)
Renamed(from, to, tree) ==
  /\ dir[from] = tree /\ dir[to] = None
  /\ dir' = Moved(dir, from, to, tree)
  /\ images' = images \cup {Moved(d, from, to, tree) : d \in images}
  /\ UNCHANGED swapped

Become(p, tree) ==
  /\ dir' = Put(dir, p, tree)
  /\ images' = images \cup {Put(d, p, tree) : d \in images}

(* Mutant: the directory is not written out. *)
Synced_NotFlushed == UNCHANGED <<dir, images, swapped>>

Synced == images' = {dir} /\ UNCHANGED <<dir, swapped>>

Ok(next) == Goto(next) /\ UNCHANGED <<cause, outcome>>
Failed(next) == Goto(next) /\ Unchanged /\ cause' = pc /\ UNCHANGED outcome
Return(result) == Goto("clean up") /\ outcome' = result

----------------------------------------------------------------------------
(* replace_verified *)

CheckCollision ==
  /\ At("collision")
  /\ UNCHANGED prior
  /\ IF dir["previous"] # None \/ dir["quarantine"] # None
     THEN Return("error") /\ Unchanged /\ cause' = pc
     ELSE Ok("validate staging") /\ Unchanged

ValidateStaging ==
  /\ At("validate staging")
  /\ UNCHANGED prior
  /\ \/ Ok(IF dir["destination"] # None THEN "validate prior" ELSE "publish") /\ Unchanged
     \/ Return("error") /\ Unchanged /\ cause' = pc

ValidatePrior ==
  /\ At("validate prior")
  /\ \/ prior' = dir["destination"] /\ dir["destination"] # None /\ Ok("move aside") /\ Unchanged
     \/ UNCHANGED prior /\ Return("error") /\ Unchanged /\ cause' = pc

MoveAside ==
  /\ At("move aside")
  /\ UNCHANGED prior
  /\ \/ Renamed("destination", "previous", prior) /\ Ok("sync aside")
     \/ Return("error") /\ Unchanged /\ cause' = pc

SyncAside ==
  /\ At("sync aside")
  /\ UNCHANGED prior
  /\ \/ Synced /\ Ok("publish")
     \/ Failed("roll back")

Publish ==
  /\ At("publish")
  /\ UNCHANGED prior
  /\ \/ Renamed("staging", "destination", "new") /\ Ok("validate")
     \/ Failed("roll back")

(* The tree verifies, and is the one that was staged. *)
Validate ==
  /\ At("validate")
  /\ UNCHANGED prior
  /\ \/ dir["destination"] = "new" /\ Ok("sync published") /\ Unchanged
     \/ Failed("identify")

(* Mutant: the new tree is not made durable before the prior one goes. *)
SyncPublished_Skipped ==
  /\ At("sync published")
  /\ UNCHANGED prior
  /\ \/ Unchanged /\ prior # None /\ Ok("remove previous")
     \/ Unchanged /\ prior = None /\ Return("ok") /\ UNCHANGED cause

SyncPublished ==
  /\ At("sync published")
  /\ UNCHANGED prior
  /\ \/ Synced /\ prior # None /\ Ok("remove previous")
     \/ Synced /\ prior = None /\ Return("ok") /\ UNCHANGED cause
     \/ Failed("identify")

(* Mutant: whatever is at the path is removed. *)
RemovePrevious_Unchecked ==
  /\ At("remove previous")
  /\ UNCHANGED prior
  /\ \/ Become("previous", None) /\ UNCHANGED swapped /\ Ok("sync removed")
     \/ Return("error") /\ Unchanged /\ cause' = pc

(* A removal that fails may have removed some of the files. *)
RemovePrevious ==
  /\ At("remove previous")
  /\ UNCHANGED prior
  /\ \/ /\ dir["previous"] = prior
        /\ Become("previous", None) /\ UNCHANGED swapped /\ Ok("sync removed")
     \/ /\ dir["previous"] = prior
        /\ Become("previous", "partial") /\ UNCHANGED swapped
        /\ Return("error") /\ cause' = pc
     \/ Return("error") /\ Unchanged /\ cause' = pc

SyncRemoved ==
  /\ At("sync removed")
  /\ UNCHANGED prior
  /\ \/ Synced /\ Return("ok") /\ UNCHANGED cause
     \/ Return("error") /\ Unchanged /\ cause' = pc

----------------------------------------------------------------------------
(* rollback_before_publish *)

RollBack ==
  /\ At("roll back")
  /\ UNCHANGED <<prior, cause>>
  /\ \/ dir["previous"] = None /\ Return("error") /\ Unchanged
     \/ prior = None /\ dir["previous"] # None /\ Return("incomplete") /\ Unchanged
     \/ prior # None /\ Renamed("previous", "destination", prior) /\ Ok("sync rollback")
     \/ dir["previous"] # None /\ Return("incomplete") /\ Unchanged

SyncRollback ==
  /\ At("sync rollback")
  /\ UNCHANGED <<prior, cause>>
  /\ \/ Synced /\ Return("error")
     \/ Unchanged /\ Return("incomplete")

----------------------------------------------------------------------------
(* quarantine_and_restore *)

Identify ==
  /\ At("identify")
  /\ UNCHANGED <<prior, cause>>
  /\ \/ dir["destination"] = "new" /\ Ok("quarantine") /\ Unchanged
     \/ Return("incomplete") /\ Unchanged

Quarantine ==
  /\ At("quarantine")
  /\ UNCHANGED <<prior, cause>>
  /\ \/ Renamed("destination", "quarantine", "new") /\ Ok("sync quarantine")
     \/ Return("incomplete") /\ Unchanged

SyncQuarantine ==
  /\ At("sync quarantine")
  /\ UNCHANGED <<prior, cause>>
  /\ \/ Synced /\ Ok("restore")
     \/ Unchanged /\ Return("incomplete")

Restore ==
  /\ At("restore")
  /\ UNCHANGED <<prior, cause>>
  /\ \/ dir["previous"] = None /\ Return("error") /\ Unchanged
     \/ prior # None /\ Renamed("previous", "destination", prior) /\ Ok("sync restored")
     \/ dir["previous"] # None /\ Return("incomplete") /\ Unchanged

SyncRestored ==
  /\ At("sync restored")
  /\ UNCHANGED <<prior, cause>>
  /\ \/ Synced /\ Return("error")
     \/ Unchanged /\ Return("incomplete")

----------------------------------------------------------------------------
(* OwnedPublicationTree: the staging tree goes with a call that failed. *)
CleanUp ==
  /\ At("clean up")
  /\ Goto("returned")
  /\ IF outcome # "ok" /\ dir["staging"] = "new"
     THEN (Become("staging", None) /\ UNCHANGED swapped) \/ Unchanged
     ELSE Unchanged
  /\ UNCHANGED <<prior, cause, outcome>>

(* Another program puts a tree of its own at a path. *)
Swap(p) ==
  /\ pc \notin {"returned", "crashed"}
  /\ ~swapped /\ swapped' = TRUE
  /\ Become(p, "foreign")
  /\ UNCHANGED <<prior, pc, cause, outcome>>

Crash ==
  /\ pc \notin {"returned", "crashed"}
  /\ dir' \in images /\ images' = {dir'}
  /\ Goto("crashed")
  /\ UNCHANGED <<prior, cause, outcome, swapped>>

Replace ==
  \/ CheckCollision \/ ValidateStaging \/ ValidatePrior \/ MoveAside \/ SyncAside
  \/ Publish \/ Validate \/ SyncPublished \/ RemovePrevious \/ SyncRemoved

Recover ==
  \/ RollBack \/ SyncRollback
  \/ Identify \/ Quarantine \/ SyncQuarantine \/ Restore \/ SyncRestored

PublicationNext ==
  Replace \/ Recover \/ CleanUp \/ Crash \/ \E p \in Path : Swap(p)

PublicationSpec == PublicationInit /\ [][PublicationNext]_vars

----------------------------------------------------------------------------
(* The ranges of the variables; and success is never reported after a call    *)
(* that failed, whichever it was.                                             *)
PublicationTypeOK ==
  /\ dir \in Directory /\ dir \in images /\ images \subseteq Directory
  /\ prior \in Trees \cup {None}
  /\ pc \in Step /\ cause \in Step \cup {"none"}
  /\ outcome \in {"none", "ok", "error", "incomplete"}
  /\ swapped \in BOOLEAN
  /\ outcome = "ok" => cause = "none"

(* Whatever fails and whenever the machine crashes, the backup there was is    *)
(* still at its place or beside it until the new one, verified, is durably     *)
(* there (publication.rs:52-82).                                               *)
BackupSurvives ==
  (prior = "old" /\ ~swapped) =>
    \A d \in images :
      \/ d["destination"] = "old" \/ d["previous"] = "old"
      \/ d["destination"] = "new" /\ cause \in {"none", "remove previous", "sync removed"}

(* A tree that another program put there after the call looked at it is never *)
(* deleted, only moved aside or left (publication.rs, the test                *)
(* replaced_previous_tree_is_never_deleted).                                  *)
ForeignNeverDeleted ==
  [][ (pc' # "crashed" /\ prior # "foreign" /\ \E p \in Path : dir[p] = "foreign") =>
        \E p \in Path : dir'[p] = "foreign" ]_vars

(* After success the staged tree is the backup and nothing else is left, also *)
(* after a crash (publication.rs:79-83).                                      *)
SuccessIsDurable ==
  (outcome = "ok" /\ ~swapped) =>
    \A d \in images :
      d["destination"] = "new" /\ d["previous"] = None /\ d["staging"] = None

(* An error that does not call the recovery incomplete leaves the prior tree,  *)
(* or nothing if there was none, in its place, and durably so, unless only    *)
(* the removal of the prior tree failed (publication.rs:86-160).              *)
ErrorRestores ==
  /\ outcome = "error" /\ ~swapped
  /\ cause \notin {"collision", "validate staging", "validate prior",
                   "remove previous", "sync removed"}
  => \A d \in images : d["destination"] = prior

(* What replace_verified returns is so on disk, after a crash too. *)
OutcomeIsDurable == PublicationTypeOK /\ SuccessIsDurable /\ ErrorRestores
============================================================================
