--------------------------- MODULE TuningExecutor ---------------------------
(***************************************************************************)
(* The Windows tuning executor (tuning/native/windows.rs): Backup, Apply,  *)
(* Restore and Verify as sequences of writes to the registry, the QoS      *)
(* provider, the network adapters and the power plan, each of which may    *)
(* fail, with the rollbacks that follow, cancellation, crashes, and a user *)
(* who changes settings between two operations.                            *)
(***************************************************************************)
EXTENDS Naturals, SequencesExt, FiniteSets

CONSTANTS
  MaxOperations,  \* bound: operations started
  MaxChanges      \* bound: settings the user changes

ASSUME TuningAssumption == MaxOperations \in Nat /\ MaxChanges \in Nat

(* The settings: a DWORD group that only Restore writes, "Do not use NLA", *)
(* QoS policies by owner, a power saving property, RSC, the power plan.    *)
Owned == {"port", "app"}
Legacy == {"legacy"}
Policies == Owned \cup Legacy \cup {"foreign"}
Rsc == {"rsc4", "rsc6"}
Settings == {"profile", "nla", "saving", "power"} \cup Policies \cup Rsc

Range_of(s) ==
  CASE s = "nla" -> {"missing", "0", "1", "dword"}
    [] s \in Policies -> {"absent", "old", "new"}
    [] s = "saving" -> {"1", "0", "blank"}
    [] s \in Rsc -> {"on", "off"}
    [] s = "power" -> {"balanced", "high"}
    [] OTHER -> {"as found"}

VARIABLES
  machine,    \* the settings
  up,         \* the adapter is up
  folder,     \* the backup folder: a bundle, or Nothing, or Unverifiable
  snapshots,  \* bundles published for recovery that are on disk
  config,     \* the running operation
  token,      \* its cancellation
  at,         \* where it is
  mode,       \* "apply", "restore" or "rollback"
  bundle,     \* what it reads: the effective backup, or the staged one
  source,     \* what a rollback would read
  work,       \* components still to be written
  writes,     \* writes of the component that is being written
  current,    \* the policies reconcile_qos puts back
  skipped,    \* components reported as Skipped or Warn
  result,     \* how the last operation ended
  before,     \* ghost: the settings when it began
  original,   \* ghost: per setting, its value before an operation first changed it
  operations, changes

progress == <<mode, bundle, source, work, writes, current, skipped>>
ghosts == <<before, original>>
vars == <<machine, up, folder, snapshots, config, token, at, progress, result, ghosts,
          operations, changes>>

(* A bundle is a function on the settings it covers. *)
Nothing == <<>>
Unverifiable == [unverifiable |-> TRUE]
IsBundle(b) == "profile" \in DOMAIN b

Configs ==
  [action : {"Backup", "Restore"}, measured : {FALSE}]
    \cup [action : {"Apply"}, measured : BOOLEAN]

TuningInit ==
  /\ \E nla \in {"missing", "dword"}, saving \in {"1", "blank"},
        port \in {"absent", "old"}, legacy \in {"absent", "old"} :
       machine = [s \in Settings |->
                    CASE s = "nla" -> nla        [] s = "saving" -> saving
                      [] s = "port" -> port      [] s = "legacy" -> legacy
                      [] s = "power" -> "balanced" [] s = "profile" -> "as found"
                      [] s = "rsc4" -> "on"      [] s = "rsc6" -> "off"
                      [] OTHER -> "old"]
  /\ up \in BOOLEAN /\ folder \in {Nothing, Unverifiable} /\ snapshots = {}
  /\ config = [action |-> "Backup", measured |-> FALSE] /\ token = FALSE /\ at = "idle"
  /\ mode = "apply" /\ bundle = Nothing /\ source = Nothing
  /\ work = <<>> /\ writes = <<>> /\ current = <<>> /\ skipped = {}
  /\ result = "none" /\ before = machine
  /\ original = [s \in Settings |-> "none"]
  /\ operations = 0 /\ changes = 0

----------------------------------------------------------------------------
(* Reading the machine. *)

(* Mutant: a legacy name is ours, whoever made it. *)
managed_qos_name_Any(name, restore_names) == name \in Owned \cup Legacy

(* Ours by prefix; a generic legacy name only when the backup names it. *)
managed_qos_name(name, restore_names) == name \in Owned \/ name \in Legacy \cap restore_names

Present == {p \in Policies : machine[p] # "absent"}
read_qos(restore_names) == {p \in Present : managed_qos_name(p, restore_names)}
qos_names(b) == {p \in Policies \cap DOMAIN b : b[p] # "absent"}

(* What publish_backup can save now: a value of another type is not a string to *)
(* save, nor is a property that is blank, and only adapters that are up have    *)
(* any.  Of our policies it saves that they are absent too: Restore removes     *)
(* every one it does not name.                                                  *)
registry_export == {"profile"} \cup (IF machine["nla"] # "dword" THEN {"nla"} ELSE {})
nic_csv == IF up /\ machine["saving"] # "blank" THEN {"saving"} ELSE {}
rsc_csv == IF up THEN Rsc ELSE {}
qos_xml(restore_names) == Owned \cup read_qos(restore_names)
active_power_plan == {"power"}
Saved(restore_names) ==
  registry_export \cup nic_csv \cup rsc_csv \cup qos_xml(restore_names) \cup active_power_plan
Save(restore_names) == [s \in Saved(restore_names) |-> machine[s]]

(* Verify: the value and a policy for the port. *)
evaluate == machine["nla"] = "1" /\ machine["port"] # "absent"

(* The policies of the plan: the port's. *)
desired_qos == [port |-> "new"]

----------------------------------------------------------------------------
(* The writes of a component. *)

(* A write gives one setting, or the adapters' RSC properties of one call, new values. *)
Only(setting, value) == [s \in {setting} |-> value]
Over(settings, write_to) ==
  [s \in DOMAIN settings |-> IF s \in DOMAIN write_to THEN write_to[s] ELSE settings[s]]

Deletes(names) == SetToSeq({Only(p, "absent") : p \in names})
Creates(policies) == SetToSeq({Only(p, policies[p]) : p \in qos_names(policies)})
reconcile_qos(desired, restore_names) == Deletes(read_qos(restore_names)) \o Creates(desired)

restore_nic == IF machine["saving"] = bundle["saving"] THEN <<>>
               ELSE << Only("saving", bundle["saving"]) >>

(* The versions to enable in one call, those to disable in another. *)
restore_rsc ==
  LET part(value) == {s \in Rsc : bundle[s] = value}
      call(value) == IF part(value) = {} THEN <<>> ELSE << [s \in part(value) |-> value] >>
  IN  call("on") \o call("off")

(* Only what the effective backup can restore, of adapters that are up. *)
disable_nic_power_saving ==
  IF up /\ "saving" \in DOMAIN bundle THEN << Only("saving", "0") >> ELSE <<>>

restore_registry(value) == << Only(value, bundle[value]) >>
set_power_plan(plan) == << Only("power", plan) >>

Covered(component, b) ==
  CASE component = "nla" -> "nla" \in DOMAIN b
    [] component = "nic" -> "saving" \in DOMAIN b
    [] component = "rsc" -> Rsc \subseteq DOMAIN b
    [] OTHER -> TRUE

apply_component(component) ==
  CASE component = "nla" -> IF Covered("nla", bundle) THEN << Only("nla", "1") >> ELSE <<>>
    [] component = "qos" -> reconcile_qos(desired_qos, {})
    [] component = "nic" -> disable_nic_power_saving
    [] component = "power" -> set_power_plan("high")

restore_component(component) ==
  CASE component = "qos" -> reconcile_qos(bundle, qos_names(bundle))
    [] component = "nic" -> restore_nic
    [] component = "rsc" -> restore_rsc
    [] component = "power" -> set_power_plan(bundle["power"])
    [] OTHER -> restore_registry(component)

apply_mutations ==
  <<"nla", "qos">> \o (IF config.measured THEN <<"nic", "power">> ELSE <<>>)
restore_staged(b) ==
  LET part(component) == IF Covered(component, b) THEN <<component>> ELSE <<>>
  IN  part("profile") \o part("nla") \o part("qos") \o part("nic") \o part("rsc") \o part("power")

----------------------------------------------------------------------------
(* An operation up to its first write. *)

Keep == UNCHANGED <<machine, up, config, operations, changes>>
End(how) == at' = "idle" /\ result' = how

(* Mutant: Apply publishes a backup of its own each time. *)
apply_backup_decision_Fresh == IF folder = Unverifiable THEN "refuse" ELSE "publish"

(* Apply keeps a verified backup, and refuses one it cannot verify. *)
apply_backup_decision ==
  IF folder = Nothing THEN "publish" ELSE IF folder = Unverifiable THEN "refuse" ELSE "snapshot"

execute(c) ==
  /\ at = "idle" /\ operations < MaxOperations
  /\ operations' = operations + 1 /\ config' = c /\ token' = FALSE
  /\ skipped' = {} /\ source' = Nothing /\ bundle' = IF c.action = "Backup" THEN Nothing ELSE folder
  /\ mode' = IF c.action = "Restore" THEN "restore" ELSE "apply"
  /\ work' = <<>> /\ writes' = <<>> /\ current' = <<>>
  /\ at' = CASE c.action = "Backup" -> "publish"
             [] c.action = "Restore" -> IF IsBundle(folder) THEN "snapshot" ELSE "refuse"
             [] OTHER -> apply_backup_decision
  /\ result' = "running" /\ before' = machine
  /\ UNCHANGED <<machine, up, folder, snapshots, original, changes>>

(* The folder is refused, or the inventory, the staging or anything else of the *)
(* preparation fails, or it was cancelled.                                      *)
refuse ==
  /\ at \in {"publish", "snapshot", "refuse", "begin"}
  /\ End(IF token THEN "cancelled" ELSE "error")
  /\ UNCHANGED <<folder, snapshots, token, progress, ghosts>> /\ Keep

(* publish_backup to the folder; what is there must verify before it is moved  *)
(* aside.  When only its last barrier fails, the new backup is in place and    *)
(* the operation fails all the same.                                           *)
publish_backup ==
  /\ at = "publish" /\ folder # Unverifiable
  /\ folder' = Save({})
  /\ original' = IF config.action = "Backup" THEN [s \in Settings |-> "none"] ELSE original
  /\ \/ End("error") /\ UNCHANGED <<bundle, source>>
     \/ IF config.action = "Backup" THEN End("backed up") /\ UNCHANGED <<bundle, source>>
        ELSE at' = "begin" /\ bundle' = folder' /\ source' = folder' /\ UNCHANGED result
  /\ UNCHANGED <<snapshots, token, mode, work, writes, current, skipped, before>> /\ Keep

(* The first component is due; a fresh backup is followed by a last look at the *)
(* token, a snapshot is not, but restore_staged looks before each component.    *)
Begin ==
  /\ work' = IF mode = "apply" THEN apply_mutations ELSE restore_staged(bundle)
  /\ at' = "component"
  /\ UNCHANGED <<folder, token, mode, bundle, writes, current, skipped, result, ghosts>> /\ Keep

publish_snapshot ==
  /\ at = "snapshot" /\ ~token
  /\ source' = Save(IF mode = "restore" THEN qos_names(bundle) ELSE {})
  /\ snapshots' = snapshots \cup {source'}
  /\ Begin

begin == at = "begin" /\ ~token /\ UNCHANGED <<source, snapshots>> /\ Begin

----------------------------------------------------------------------------
(* Writing, component by component. *)

(* An error of the operation: the rollback reads its source, which may fail; *)
(* an error of the rollback is the end of it.                                *)
Fails ==
  IF mode = "rollback"
  THEN End("rollback failed") /\ UNCHANGED <<mode, bundle, work, writes, current>>
  ELSE \/ End("rollback failed") /\ UNCHANGED <<mode, bundle, work, writes, current>>
       \/ /\ mode' = "rollback" /\ bundle' = source /\ work' = restore_staged(source)
          /\ writes' = <<>> /\ current' = <<>>
          /\ at' = "component" /\ UNCHANGED result

Writing == UNCHANGED <<folder, snapshots, token, source, skipped, ghosts>> /\ Keep

(* The writes are worked out from what the component reads now. *)
open_component ==
  /\ at = "component" /\ work # <<>> /\ ~(mode = "restore" /\ token)
  /\ writes' = IF mode = "apply" THEN apply_component(Head(work)) ELSE restore_component(Head(work))
  /\ current' = IF Head(work) = "qos"
                THEN [p \in read_qos(IF mode = "apply" THEN {} ELSE qos_names(bundle)) |-> machine[p]]
                ELSE <<>>
  /\ skipped' = IF mode = "apply" /\ ~Covered(Head(work), bundle) THEN skipped \cup {Head(work)} ELSE skipped
  /\ at' = "writing"
  /\ UNCHANGED <<folder, snapshots, token, mode, bundle, source, work, result, ghosts>> /\ Keep

(* Mutant: a rollback passes over a component it cannot put back. *)
component_fails_PassedOver ==
  /\ at = "component" /\ work # <<>>
  /\ IF mode # "rollback" THEN Fails
     ELSE work' = Tail(work) /\ UNCHANGED <<at, mode, bundle, writes, current, result>>
  /\ Writing

component_fails ==
  /\ at = "component" /\ work # <<>>
  /\ Fails /\ Writing

(* CREATE_ONLY: a policy of that name must not exist. *)
Refused(w) == \E p \in Policies \cap DOMAIN w : w[p] # "absent" /\ machine[p] # "absent"

(* The first value of each setting that an operation changes. *)
Recorded ==
  original' = [s \in Settings |-> IF machine'[s] # machine[s] /\ original[s] = "none"
                                  THEN machine[s] ELSE original[s]]

write ==
  /\ at = "writing" /\ writes # <<>> /\ ~Refused(Head(writes))
  /\ machine' = Over(machine, Head(writes))
  /\ writes' = Tail(writes)
  /\ Recorded
  /\ UNCHANGED <<up, folder, snapshots, config, token, at, mode, bundle, source, work, current,
                 skipped, result, before, operations, changes>>

(* reconcile_qos removes ours again, if it can list them, and puts the others back. *)
write_fails ==
  /\ at = "writing" /\ writes # <<>>
  /\ IF Head(work) # "qos" THEN Fails
     ELSE /\ LET names == IF mode = "apply" THEN {} ELSE qos_names(bundle)
             IN  writes' \in {Deletes(read_qos(names)) \o Creates(current), Creates(current)}
          /\ at' = "undoing"
          /\ UNCHANGED <<mode, bundle, work, current, result>>
  /\ Writing

(* A delete that fails is passed over. *)
undo_write ==
  /\ at = "undoing" /\ writes # <<>> /\ ~Refused(Head(writes))
  /\ machine' \in {Over(machine, Head(writes))}
       \cup (IF \E s \in DOMAIN Head(writes) : Head(writes)[s] = "absent" THEN {machine} ELSE {})
  /\ writes' = Tail(writes)
  /\ Recorded
  /\ UNCHANGED <<up, folder, snapshots, config, token, at, mode, bundle, source, work, current,
                 skipped, result, before, operations, changes>>

(* All is put back, or a create fails: the error is the same to the caller. *)
undone ==
  /\ at = "undoing"
  /\ IF writes = <<>> THEN TRUE ELSE \A s \in DOMAIN Head(writes) : Head(writes)[s] # "absent"
  /\ Fails /\ Writing

component_done ==
  /\ at = "writing" /\ writes = <<>>
  /\ work' = Tail(work) /\ current' = <<>> /\ at' = "component"
  /\ UNCHANGED <<mode, bundle, writes, result>> /\ Writing

(* The end: the snapshot goes, unless it cannot be removed; that of a failed *)
(* Restore stays.                                                            *)
finish ==
  /\ at = "component" /\ work = <<>>
  /\ snapshots' \in IF mode = "rollback" /\ config.action = "Restore" THEN {snapshots}
                    ELSE {snapshots, snapshots \ {source}}
  /\ \/ mode = "apply" /\ End("applied")
     \/ mode = "restore" /\ End(IF source \in snapshots' THEN "error" ELSE "restored")
     \/ mode = "rollback" /\ End("rolled back")
  /\ UNCHANGED <<folder, token, progress, ghosts>> /\ Keep

----------------------------------------------------------------------------
Cancel ==
  /\ at # "idle" /\ ~token
  /\ token' = TRUE
  /\ UNCHANGED <<folder, snapshots, at, progress, result, ghosts>> /\ Keep

(* The service or the machine stops; what was written stays. *)
Crash ==
  /\ at # "idle"
  /\ End("crashed")
  /\ UNCHANGED <<folder, snapshots, token, progress, ghosts>> /\ Keep

(* The user changes a setting, or the adapter comes or goes. *)
Change ==
  /\ at = "idle" /\ changes < MaxChanges
  /\ changes' = changes + 1
  /\ \/ \E s \in {"nla", "saving", "port", "legacy", "rsc6"} : \E v \in Range_of(s) \ {"new"} :
          /\ v # machine[s]
          /\ machine' = [machine EXCEPT ![s] = v]
          /\ original' = [original EXCEPT ![s] = "changed"]
          /\ UNCHANGED up
     \/ up' = ~up /\ UNCHANGED <<machine, original>>
  /\ result' = "none"
  /\ UNCHANGED <<folder, snapshots, config, token, at, progress, before, operations>>

TuningNext ==
  \/ \E c \in Configs : execute(c)
  \/ refuse \/ publish_backup \/ publish_snapshot \/ begin
  \/ open_component \/ component_fails \/ write \/ write_fails \/ undo_write \/ undone
  \/ component_done \/ finish
  \/ Cancel \/ Crash \/ Change

TuningSpec == TuningInit /\ [][TuningNext]_vars

----------------------------------------------------------------------------
SameOn(some, m, b) == \A s \in some : m[s] = b[s]
Mutating == at \in {"component", "writing", "undoing"}

(* A rollback that succeeds undoes the failed operation wherever its source   *)
(* covers a setting, whatever had been written and however often writing or   *)
(* undoing the policies failed on the way (windows.rs:217-246, 289-300).      *)
RollbackUndoes ==
  result = "rolled back" => SameOn(DOMAIN source, machine, before)

(* From the first write on, and after a failed rollback or a crash in the     *)
(* middle, what the operation found is on disk in a published bundle: nothing *)
(* it has changed and can restore is lost (windows.rs:217-235, 275-289).      *)
PriorStateIsOnDisk ==
  Mutating \/ (result \in {"crashed", "rollback failed"} /\ machine # before) =>
    /\ source = folder \/ source \in snapshots
    /\ SameOn(DOMAIN source, source, before)

(* The user's own values: what was changed here since the backup was taken,   *)
(* over any number of runs, failures and crashes, the backup folder can put   *)
(* back to what it was before the first (native/mod.rs:105-124,               *)
(* windows.rs:310-325, 776-810).                                              *)
OriginalIsRestorable ==
  \A s \in Settings : original[s] \notin {"none", "changed"} =>
    IsBundle(folder) /\ s \in DOMAIN folder /\ folder[s] = original[s]

(* An operation that ends well did all of it: Apply passes Verify unless it   *)
(* reported that a part was skipped, and left no policy of ours beside the    *)
(* planned ones; Restore left every setting as the backup has it, and no      *)
(* other of our policies (windows.rs:303-352, 374-419).                       *)
SuccessIsExact ==
  /\ result = "applied" =>
       /\ evaluate \/ "nla" \in skipped
       /\ \A p \in Owned : machine[p] = IF p \in DOMAIN desired_qos THEN desired_qos[p] ELSE "absent"
       /\ config.measured => machine["power"] = "high"
                              /\ (machine["saving"] = "0" \/ "nic" \in skipped \/ ~up)
       /\ SameOn({"profile"} \cup Rsc \cup Legacy, machine, before)
  /\ result = "restored" => SameOn(DOMAIN bundle, machine, bundle)

(* Policies that are not ours are left alone, generic legacy names too unless *)
(* the bundle that is being put back names them (native/mod.rs:69-93).        *)
OthersAreUntouched ==
  [][at # "idle" =>
       /\ machine'["foreign"] = machine["foreign"]
       /\ \A p \in Legacy : machine'[p] # machine[p] => mode # "apply" /\ p \in qos_names(bundle)]_vars

(* windows.rs:195-197: "a failed Apply rolls back to a snapshot of the state  *)
(* just before it, as Restore does"; CHANGELOG.md:11 "roll back from the      *)
(* backup when any Apply step fails".                                         *)
RolledBackIsBefore == result = "rolled back" => machine = before

(* What a bundle is for: the state an operation found, and the user's own. *)
BackupsHold == PriorStateIsOnDisk /\ OriginalIsRestorable

(* What an operation says of itself: undone, or done as a whole. *)
ResultIsTrue == RollbackUndoes /\ SuccessIsExact
============================================================================
