---------------------------- MODULE TuningProofs ----------------------------
(***************************************************************************)
(* Proofs about the tuning executor, for any number of operations and of   *)
(* changes by the user, whatever fails and wherever it stops.              *)
(*                                                                         *)
(* An operation writes a setting that the backup folder covers, or writes  *)
(* what it found there; and a setting that no operation has changed since  *)
(* the backup was taken has the value of the backup.                       *)
(* The second part is about how an operation ends: every setting that it   *)
(* is to write has its value, or its component is still due, and the       *)
(* writes that are left of the component that is being written give it     *)
(* that value, the policies of a name deleted before they are created.     *)
(***************************************************************************)
EXTENDS TuningExecutor, FiniteSetTheorems, SequenceTheorems, TLAPS

Values == {"missing", "0", "1", "dword", "absent", "old", "new", "blank", "on", "off",
           "balanced", "high", "as found"}
Switch == {"on", "off"}
Components == {"profile", "nla", "qos", "nic", "rsc", "power"}

(* What is published: a value for each of the settings it covers. *)
Good(b) ==
  /\ DOMAIN b \subseteq Settings \ {"foreign"} /\ b \in [DOMAIN b -> Values]
  /\ {"profile", "power"} \cup Owned \subseteq DOMAIN b
  /\ Rsc \cap DOMAIN b # {} => Rsc \subseteq DOMAIN b
  /\ \A s \in Rsc \cap DOMAIN b : b[s] \in Switch
  /\ \A p \in Legacy \cap DOMAIN b : b[p] # "absent"

Ranges ==
  /\ machine \in [Settings -> Values] /\ before \in [Settings -> Values]
  /\ \A s \in Rsc : machine[s] \in Switch
  /\ original \in [Settings -> Values \cup {"none", "changed"}]
  /\ at \in {"idle", "publish", "snapshot", "refuse", "begin", "component", "writing", "undoing"}
  /\ folder \in {Nothing, Unverifiable} \/ Good(folder)
  /\ at # "idle" => result = "running"

(* Up to its first write an operation has changed nothing. *)
NothingWritten ==
  /\ at \in {"publish", "snapshot", "refuse", "begin"} => machine = before /\ DOMAIN current = {}
  /\ at = "publish" /\ config.action # "Backup" => folder = Nothing
  /\ at \in {"publish", "begin"} => mode = "apply"
  /\ at = "snapshot" => mode \in {"apply", "restore"}
  /\ at \in {"snapshot", "begin"} => Good(folder) /\ bundle = folder
  /\ at = "begin" => source = folder /\ SameOn(DOMAIN source, source, before)

(* What an operation that writes goes by. *)
BundlesAreGood ==
  Mutating =>
    /\ Good(folder) /\ Good(source) /\ Good(bundle)
    /\ mode \in {"apply", "restore", "rollback"}
    /\ bundle = IF mode = "rollback" THEN source ELSE folder
    /\ Policies \cap DOMAIN source \subseteq DOMAIN folder
    /\ SameOn(DOMAIN source, source, before)
    /\ source = folder \/ source \in snapshots
    /\ work \in Seq(Components)
    /\ \A i \in 1..Len(work) :
         IF mode = "apply" THEN work[i] \in {"nla", "qos", "nic", "power"} ELSE Covered(work[i], bundle)

(* A policy that an operation may write. *)
Ours(p) == p \in Owned \/ (p \in Legacy /\ mode # "apply" /\ p \in qos_names(bundle))

(* A write it may make: to what the folder covers, or of what was found.     *)
Writes == UNION {[S -> Values] : S \in SUBSET (Settings \ {"foreign"})}
Allowed ==
  {w \in Writes : \A s \in DOMAIN w : /\ s \in DOMAIN folder \/ w[s] = before[s]
                                      /\ s \in Policies => Ours(s)
                                      /\ s \in Rsc => w[s] \in Switch}
WritesAreAllowed ==
  /\ at \in {"writing", "undoing"} => writes \in Seq(Allowed) /\ work # <<>>
  /\ at = "undoing" => Head(work) = "qos"
  /\ DOMAIN current \subseteq Policies /\ current \in [DOMAIN current -> Values]
  /\ Mutating => \A p \in DOMAIN current : Ours(p)

(* What was not changed is as it was found, and as the backup has it. *)
Untouched ==
  /\ at # "idle" => \A s \in Settings : original[s] = "none" => machine[s] = before[s]
  /\ IsBundle(folder) => \A s \in DOMAIN folder : original[s] = "none" => machine[s] = folder[s]

(* After an operation that failed in the middle. *)
FoundIsOnDisk ==
  result \in {"crashed", "rollback failed"} /\ machine # before =>
    /\ source = folder \/ source \in snapshots
    /\ SameOn(DOMAIN source, source, before)

TuningInv ==
  /\ Ranges /\ NothingWritten /\ BundlesAreGood /\ WritesAreAllowed
  /\ Untouched /\ OriginalIsRestorable /\ FoundIsOnDisk

----------------------------------------------------------------------------
(* Writes. *)

LEMMA OnlyWrites ==
  ASSUME NEW s \in Settings \ {"foreign"}, NEW v \in Values
  PROVE  Only(s, v) \in Writes /\ DOMAIN Only(s, v) = {s} /\ Only(s, v)[s] = v
<1>1. DOMAIN Only(s, v) = {s} /\ Only(s, v)[s] = v /\ Only(s, v) \in [{s} -> Values]
  BY DEF Only
<1>2. {s} \in SUBSET (Settings \ {"foreign"})
  OBVIOUS
<1> QED
  BY <1>1, <1>2 DEF Writes

LEMMA SequenceOfSet ==
  ASSUME NEW S, IsFiniteSet(S)
  PROVE  SetToSeq(S) \in Seq(S)
<1>1. Cardinality(S) \in Nat /\ ExistsBijection(1..Cardinality(S), S)
  BY FS_CardinalityType
<1>2. PICK f : f \in Bijection(1..Cardinality(S), S)
  BY <1>1 DEF ExistsBijection
<1>3. f \in [1..Cardinality(S) -> S] /\ IsInjective(f)
  BY <1>2 DEF Bijection, Injection
<1>4. SetToSeq(S) \in [1..Cardinality(S) -> S]
  BY <1>3 DEF SetToSeq
<1> QED
  BY <1>1, <1>4, SeqDef

LEMMA PoliciesAreFinite ==
  ASSUME NEW N \in SUBSET Policies
  PROVE  IsFiniteSet(N)
<1>1. IsFiniteSet({"port", "app", "legacy", "foreign"})
  <2>1. IsFiniteSet({} \cup {"port"})
    BY FS_EmptySet, FS_AddElement
  <2>2. IsFiniteSet(({} \cup {"port"}) \cup {"app"})
    BY <2>1, FS_AddElement
  <2>3. IsFiniteSet((({} \cup {"port"}) \cup {"app"}) \cup {"legacy"})
    BY <2>2, FS_AddElement
  <2>4. IsFiniteSet(((({} \cup {"port"}) \cup {"app"}) \cup {"legacy"}) \cup {"foreign"})
    BY <2>3, FS_AddElement
  <2>5. ((({} \cup {"port"}) \cup {"app"}) \cup {"legacy"}) \cup {"foreign"}
          = {"port", "app", "legacy", "foreign"}
    OBVIOUS
  <2> QED
    BY <2>4, <2>5
<1>2. Policies = {"port", "app", "legacy", "foreign"}
  BY DEF Policies, Owned, Legacy
<1> QED
  BY <1>1, <1>2, FS_Subset

(* One write for each of some policies. *)
LEMMA PolicyWrites ==
  ASSUME NEW N \in SUBSET Policies, NEW value, \A p \in N : Only(p, value[p]) \in Allowed
  PROVE  SetToSeq({Only(p, value[p]) : p \in N}) \in Seq(Allowed)
<1> DEFINE T == {Only(p, value[p]) : p \in N}
           f == [p \in N |-> Only(p, value[p])]
<1>1. f \in Surjection(N, T)
  BY DEF Surjection
<1>2. IsFiniteSet(N)
  BY PoliciesAreFinite
<1>3. IsFiniteSet(T)
  BY <1>1, <1>2, FS_Surjection
<1>4. SetToSeq(T) \in Seq(T) /\ T \subseteq Allowed
  BY <1>3, SequenceOfSet
<1> QED
  BY <1>4, SeqMonotonic

(* What a write of an allowed kind may be. *)
LEMMA PolicyIsAllowed ==
  ASSUME NEW p \in Policies \ {"foreign"}, NEW v \in Values, Ours(p), p \in DOMAIN folder
  PROVE  Only(p, v) \in Allowed
<1>1. p \in Settings \ {"foreign"} /\ p \notin Rsc
  BY DEF Settings, Policies, Owned, Legacy, Rsc
<1>2. Only(p, v) \in Writes /\ DOMAIN Only(p, v) = {p}
  BY <1>1, OnlyWrites
<1> DEFINE w == Only(p, v)
<1>3. \A t \in DOMAIN w : t \in DOMAIN folder /\ Ours(t) /\ t \notin Rsc
  BY <1>1, <1>2
<1> HIDE DEF w
<1>4. w \in Allowed
  BY <1>2, <1>3 DEF Allowed, w
<1> QED
  BY <1>4 DEF w

LEMMA SettingIsAllowed ==
  ASSUME NEW s \in Settings \ Policies, NEW v \in Values, s \in DOMAIN folder \/ v = before[s],
         s \in Rsc => v \in Switch
  PROVE  Only(s, v) \in Allowed
<1>1. s \in Settings \ {"foreign"}
  BY DEF Policies
<1>2. Only(s, v) \in Writes /\ DOMAIN Only(s, v) = {s} /\ Only(s, v)[s] = v
  BY <1>1, OnlyWrites
<1> DEFINE w == Only(s, v)
<1>3. \A t \in DOMAIN w : t = s /\ w[t] = v
  BY <1>2
<1> HIDE DEF w
<1>4. \A t \in DOMAIN w : /\ t \in DOMAIN folder \/ w[t] = before[t]
                         /\ t \notin Policies /\ (t \in Rsc => w[t] \in Switch)
  BY <1>3
<1> QED
  BY <1>2, <1>4 DEF Allowed, w

LEMMA OnePlace ==
  ASSUME NEW S, NEW x \in S
  PROVE  <<x>> \in Seq(S)
OBVIOUS

LEMMA Joined ==
  ASSUME NEW S, NEW a \in Seq(S), NEW b \in Seq(S)
  PROVE  a \o b \in Seq(S)
BY ConcatProperties

LEMMA NoWrites == ASSUME NEW S PROVE <<>> \in Seq(S)
OBVIOUS

LEMMA DeletesAreAllowed ==
  ASSUME NEW N \in SUBSET (Policies \ {"foreign"}), \A p \in N : Ours(p) /\ p \in DOMAIN folder
  PROVE  Deletes(N) \in Seq(Allowed)
<1> DEFINE value == [p \in N |-> "absent"]
<1>1. \A p \in N : value[p] = "absent" /\ value[p] \in Values
  BY DEF Values
<1>2. \A p \in N : Only(p, value[p]) \in Allowed
  BY <1>1, PolicyIsAllowed
<1>3. {Only(p, value[p]) : p \in N} = {Only(p, "absent") : p \in N}
  BY <1>1
<1> HIDE DEF value
<1>4. SetToSeq({Only(p, value[p]) : p \in N}) \in Seq(Allowed)
  BY <1>2, PolicyWrites
<1> QED
  BY <1>3, <1>4 DEF Deletes

LEMMA CreatesAreAllowed ==
  ASSUME NEW b, \A p \in qos_names(b) : /\ p # "foreign" /\ Ours(p) /\ p \in DOMAIN folder
                                         /\ b[p] \in Values
  PROVE  Creates(b) \in Seq(Allowed)
<1>1. qos_names(b) \in SUBSET Policies
  BY DEF qos_names
<1>2. \A p \in qos_names(b) : Only(p, b[p]) \in Allowed
  BY <1>1, PolicyIsAllowed
<1>3. SetToSeq({Only(p, b[p]) : p \in qos_names(b)}) \in Seq(Allowed)
  BY <1>1, <1>2, PolicyWrites
<1> QED
  BY <1>3 DEF Creates

(* What reconcile_qos may delete. *)
LEMMA ReadAreOurs ==
  ASSUME NEW names
  PROVE  /\ read_qos(names) \in SUBSET (Policies \ {"foreign"})
         /\ \A p \in read_qos(names) : p \in Owned \/ (p \in Legacy /\ p \in names)
BY DEF read_qos, managed_qos_name, Present, Policies, Owned, Legacy

----------------------------------------------------------------------------
(* The writes of a component are allowed. *)

(* A policy of ours is in the backup folder. *)
LEMMA OursAreCovered ==
  ASSUME Ranges, BundlesAreGood, Mutating, NEW p, Ours(p)
  PROVE  p \in Policies \ {"foreign"} /\ p \in DOMAIN folder
<1>1. Good(folder) /\ Owned \subseteq DOMAIN folder
  BY DEF BundlesAreGood, Good
<1>2. CASE p \in Owned
  BY <1>1, <1>2 DEF Policies, Owned
<1>3. CASE p \in Legacy /\ mode # "apply" /\ p \in qos_names(bundle)
  <2>1. p \in Policies /\ p \in DOMAIN bundle /\ p # "foreign"
    BY <1>3 DEF qos_names, Legacy, Policies
  <2>2. bundle = IF mode = "rollback" THEN source ELSE folder
    BY DEF BundlesAreGood
  <2>3. Policies \cap DOMAIN source \subseteq DOMAIN folder
    BY DEF BundlesAreGood
  <2> QED
    BY <2>1, <2>2, <2>3
<1> QED
  BY <1>2, <1>3 DEF Ours

LEMMA UndoIsAllowed ==
  ASSUME Ranges, BundlesAreGood, Mutating, NEW names,
         names = IF mode = "apply" THEN {} ELSE qos_names(bundle)
  PROVE  /\ \A p \in read_qos(names) : Ours(p)
         /\ Deletes(read_qos(names)) \in Seq(Allowed)
<1>1. \A p \in read_qos(names) : Ours(p)
  BY ReadAreOurs DEF Ours
<1>2. \A p \in read_qos(names) : Ours(p) /\ p \in DOMAIN folder
  BY <1>1, OursAreCovered
<1>3. read_qos(names) \in SUBSET (Policies \ {"foreign"})
  BY ReadAreOurs
<1> QED
  BY <1>1, <1>2, <1>3, DeletesAreAllowed

LEMMA PutBackIsAllowed ==
  ASSUME Ranges, BundlesAreGood, Mutating, NEW b, b \in [DOMAIN b -> Values],
         \A p \in qos_names(b) : Ours(p)
  PROVE  Creates(b) \in Seq(Allowed)
<1>1. \A p \in qos_names(b) : p \in DOMAIN b
  BY DEF qos_names
<1>2. \A p \in qos_names(b) : p # "foreign" /\ Ours(p) /\ p \in DOMAIN folder /\ b[p] \in Values
  BY <1>1, OursAreCovered
<1> QED
  BY <1>2, CreatesAreAllowed

LEMMA ApplyIsAllowed ==
  ASSUME Ranges, BundlesAreGood, Mutating, mode = "apply",
         NEW component \in {"nla", "qos", "nic", "power"}
  PROVE  apply_component(component) \in Seq(Allowed)
<1>1. Good(folder) /\ bundle = folder
  BY DEF BundlesAreGood
<1>2. CASE component = "nla"
  <2>1. CASE Covered("nla", bundle)
    <3>1. "nla" \in DOMAIN folder /\ "nla" \in Settings \ (Policies \cup Rsc) /\ "1" \in Values
      BY <2>1, <1>1 DEF Covered, Settings, Policies, Owned, Legacy, Rsc, Values
    <3>2. << Only("nla", "1") >> \in Seq(Allowed)
      BY <3>1, SettingIsAllowed, OnePlace
    <3> QED
      BY <1>2, <2>1, <3>2 DEF apply_component
  <2>2. CASE ~Covered("nla", bundle)
    BY <1>2, <2>2, NoWrites DEF apply_component
  <2> QED
    BY <2>1, <2>2
<1>3. CASE component = "qos"
  <2>1. Deletes(read_qos({})) \in Seq(Allowed)
    BY UndoIsAllowed
  <2>2. DOMAIN desired_qos = {"port"} /\ desired_qos["port"] = "new"
    BY DEF desired_qos
  <2>3. desired_qos \in [DOMAIN desired_qos -> Values]
    <3>1. "new" \in Values
      BY DEF Values
    <3>2. desired_qos \in [{"port"} -> Values]
      BY <3>1 DEF desired_qos
    <3> QED
      BY <3>2, <2>2
  <2>4. \A p \in qos_names(desired_qos) : Ours(p)
    BY <2>2 DEF qos_names, Ours, Owned
  <2>5. Creates(desired_qos) \in Seq(Allowed)
    BY <2>3, <2>4, PutBackIsAllowed
  <2>6. reconcile_qos(desired_qos, {}) \in Seq(Allowed)
    BY <2>1, <2>5, Joined DEF reconcile_qos
  <2> QED
    BY <1>3, <2>6 DEF apply_component
<1>4. CASE component = "nic"
  <2>1. CASE up /\ "saving" \in DOMAIN bundle
    <3>1. "saving" \in DOMAIN folder /\ "saving" \in Settings \ (Policies \cup Rsc) /\ "0" \in Values
      BY <2>1, <1>1 DEF Settings, Policies, Owned, Legacy, Rsc, Values
    <3>2. << Only("saving", "0") >> \in Seq(Allowed)
      BY <3>1, SettingIsAllowed, OnePlace
    <3> QED
      BY <1>4, <2>1, <3>2 DEF apply_component, disable_nic_power_saving
  <2>2. CASE ~(up /\ "saving" \in DOMAIN bundle)
    BY <1>4, <2>2, NoWrites DEF apply_component, disable_nic_power_saving
  <2> QED
    BY <2>1, <2>2
<1>5. CASE component = "power"
  <2>1. "power" \in DOMAIN folder /\ "power" \in Settings \ (Policies \cup Rsc) /\ "high" \in Values
    BY <1>1 DEF Good, Settings, Policies, Owned, Legacy, Rsc, Values
  <2>2. << Only("power", "high") >> \in Seq(Allowed)
    BY <2>1, SettingIsAllowed, OnePlace
  <2> QED
    BY <1>5, <2>2 DEF apply_component, set_power_plan
<1> QED
  BY <1>2, <1>3, <1>4, <1>5

(* What a bundle says of a setting: the folder covers it, or it is what was found. *)
LEMMA BundleIsAllowed ==
  ASSUME Ranges, BundlesAreGood, Mutating, mode # "apply", NEW s \in DOMAIN bundle
  PROVE  /\ bundle[s] \in Values /\ s \in Settings
         /\ s \in DOMAIN folder \/ bundle[s] = before[s]
         /\ s \notin Policies => << Only(s, bundle[s]) >> \in Seq(Allowed)
<1>1. Good(bundle) /\ bundle = IF mode = "rollback" THEN source ELSE folder
  BY DEF BundlesAreGood
<1>2. SameOn(DOMAIN source, source, before)
  BY DEF BundlesAreGood
<1>3. bundle[s] \in Values /\ s \in Settings /\ (s \in Rsc => bundle[s] \in Switch)
  BY <1>1 DEF Good
<1>4. s \in DOMAIN folder \/ bundle[s] = before[s]
  <2>1. CASE mode = "rollback"
    BY <1>1, <1>2, <2>1 DEF SameOn
  <2>2. CASE mode # "rollback"
    BY <1>1, <2>2
  <2> QED
    BY <2>1, <2>2
<1>5. s \notin Policies => << Only(s, bundle[s]) >> \in Seq(Allowed)
  BY <1>3, <1>4, SettingIsAllowed, OnePlace
<1> QED
  BY <1>3, <1>4, <1>5

(* The call that enables, or that disables, some of the RSC versions. *)
LEMMA RscIsAllowed ==
  ASSUME Ranges, BundlesAreGood, Mutating, mode # "apply", Rsc \subseteq DOMAIN bundle,
         NEW value \in Values, value \in Switch, NEW part, part = {s \in Rsc : bundle[s] = value}
  PROVE  [s \in part |-> value] \in Allowed
<1> DEFINE w == [s \in part |-> value]
<1>1. DOMAIN w = part /\ \A s \in part : w[s] = value
  OBVIOUS
<1>2. part \in SUBSET (Settings \ {"foreign"}) /\ \A s \in part : s \notin Policies
  BY DEF Settings, Rsc, Policies, Owned, Legacy
<1>3. w \in Writes
  BY <1>2 DEF Writes
<1>4. \A s \in part : s \in DOMAIN folder \/ value = before[s]
  BY BundleIsAllowed
<1> HIDE DEF w
<1>5. \A s \in DOMAIN w : /\ s \in DOMAIN folder \/ w[s] = before[s]
                         /\ s \notin Policies /\ w[s] \in Switch
  BY <1>1, <1>2, <1>4
<1>6. w \in Allowed
  BY <1>3, <1>5 DEF Allowed
<1> QED
  BY <1>6 DEF w

LEMMA RestoreIsAllowed ==
  ASSUME Ranges, BundlesAreGood, Mutating, mode # "apply",
         NEW component \in Components, Covered(component, bundle)
  PROVE  restore_component(component) \in Seq(Allowed)
<1>1. Good(bundle)
  BY DEF BundlesAreGood
<1>2. CASE component = "qos"
  <2>1. \A p \in qos_names(bundle) : Ours(p)
    <3> SUFFICES ASSUME NEW p \in qos_names(bundle) PROVE Ours(p)
      OBVIOUS
    <3>1. p \in Policies /\ p \in DOMAIN bundle /\ p # "foreign"
      BY <1>1 DEF qos_names, Good
    <3> QED
      BY <3>1 DEF Ours, Policies
  <2>2. bundle \in [DOMAIN bundle -> Values]
    BY <1>1 DEF Good
  <2>3. Creates(bundle) \in Seq(Allowed)
    BY <2>1, <2>2, PutBackIsAllowed
  <2>4. Deletes(read_qos(qos_names(bundle))) \in Seq(Allowed)
    BY UndoIsAllowed
  <2>5. reconcile_qos(bundle, qos_names(bundle)) \in Seq(Allowed)
    BY <2>3, <2>4, Joined DEF reconcile_qos
  <2> QED
    BY <1>2, <2>5 DEF restore_component
<1>3. CASE component = "nic"
  <2>1. "saving" \in DOMAIN bundle /\ "saving" \notin Policies
    BY <1>3 DEF Covered, Policies, Owned, Legacy
  <2>2. << Only("saving", bundle["saving"]) >> \in Seq(Allowed)
    BY <2>1, BundleIsAllowed
  <2>3. restore_nic \in Seq(Allowed)
    BY <2>2, NoWrites DEF restore_nic
  <2> QED
    BY <1>3, <2>3 DEF restore_component
<1>4. CASE component = "rsc"
  <2>1. Rsc \subseteq DOMAIN bundle
    BY <1>4 DEF Covered
  <2> DEFINE part(value) == {s \in Rsc : bundle[s] = value}
             call(value) == IF part(value) = {} THEN <<>> ELSE << [s \in part(value) |-> value] >>
  <2>2. "on" \in Values /\ "off" \in Values /\ "on" \in Switch /\ "off" \in Switch
    BY DEF Values, Switch
  <2>3. [s \in part("on") |-> "on"] \in Allowed /\ [s \in part("off") |-> "off"] \in Allowed
    BY <2>1, <2>2, RscIsAllowed
  <2>4. << [s \in part("on") |-> "on"] >> \in Seq(Allowed)
        /\ << [s \in part("off") |-> "off"] >> \in Seq(Allowed)
    BY <2>3, OnePlace
  <2>5. call("on") \in Seq(Allowed) /\ call("off") \in Seq(Allowed)
    BY <2>4, NoWrites
  <2>6. restore_rsc = call("on") \o call("off")
    BY DEF restore_rsc
  <2> HIDE DEF call
  <2>7. restore_rsc \in Seq(Allowed)
    BY <2>5, <2>6, Joined
  <2> QED
    BY <1>4, <2>7 DEF restore_component
<1>5. CASE component = "power"
  <2>1. "power" \in DOMAIN bundle /\ "power" \notin Policies
    BY <1>1 DEF Good, Policies, Owned, Legacy
  <2>2. << Only("power", bundle["power"]) >> \in Seq(Allowed)
    BY <2>1, BundleIsAllowed
  <2> QED
    BY <1>5, <2>2 DEF restore_component, set_power_plan
<1>6. CASE component \in {"profile", "nla"}
  <2>1. component \in DOMAIN bundle /\ component \notin Policies
    BY <1>1, <1>6 DEF Good, Covered, Policies, Owned, Legacy
  <2>2. << Only(component, bundle[component]) >> \in Seq(Allowed)
    BY <2>1, BundleIsAllowed
  <2> QED
    BY <1>6, <2>2 DEF restore_component, restore_registry
<1> QED
  BY <1>2, <1>3, <1>4, <1>5, <1>6 DEF Components

----------------------------------------------------------------------------
(* What is published, and what is due. *)

LEMMA SaveIsGood ==
  ASSUME machine \in [Settings -> Values], \A s \in Rsc : machine[s] \in Switch, NEW names
  PROVE  /\ Good(Save(names)) /\ SameOn(DOMAIN Save(names), Save(names), machine)
         /\ \A p \in Legacy \cap DOMAIN Save(names) : p \in names
<1>1. DOMAIN Save(names) = Saved(names) /\ \A s \in Saved(names) : Save(names)[s] = machine[s]
  BY DEF Save
<1>2. read_qos(names) \in SUBSET (Policies \ {"foreign"})
      /\ \A p \in read_qos(names) : p \in Owned \/ (p \in Legacy /\ p \in names)
  BY ReadAreOurs
<1>3. registry_export \subseteq {"profile", "nla"} /\ nic_csv \subseteq {"saving"} /\ rsc_csv \subseteq Rsc
      /\ "profile" \in registry_export
  BY DEF registry_export, nic_csv, rsc_csv
<1>4. Saved(names) \subseteq Settings \ {"foreign"}
  BY <1>2, <1>3 DEF Saved, qos_xml, active_power_plan, Settings, Policies, Owned, Legacy, Rsc
<1>5. {"profile", "power"} \cup Owned \subseteq Saved(names)
  BY <1>3 DEF Saved, qos_xml, active_power_plan
<1>6. \A p \in Legacy \cap Saved(names) : p \in names
  BY <1>2, <1>3 DEF Saved, qos_xml, active_power_plan, Legacy, Rsc, Owned
<1>7. Save(names) \in [DOMAIN Save(names) -> Values]
  BY <1>4 DEF Save
<1>8. Rsc \cap Saved(names) # {} => Rsc \subseteq Saved(names)
  <2>1. CASE up
    BY <2>1 DEF Saved, rsc_csv
  <2>2. CASE ~up
    BY <1>2, <1>3, <2>2 DEF Saved, rsc_csv, nic_csv, qos_xml, active_power_plan, Rsc, Owned, Policies, Legacy
  <2> QED
    BY <2>1, <2>2
<1>9. \A s \in Rsc \cap Saved(names) : Save(names)[s] \in Switch
  BY <1>1
<1>10. \A p \in Legacy \cap Saved(names) : Save(names)[p] # "absent"
  <2>1. \A p \in Legacy \cap Saved(names) : p \in read_qos(names)
    BY <1>3 DEF Saved, qos_xml, active_power_plan, Legacy, Rsc, Owned
  <2> QED
    BY <1>1, <2>1 DEF read_qos, Present
<1> QED
  BY <1>1, <1>4, <1>5, <1>6, <1>7, <1>8, <1>9, <1>10 DEF Good, SameOn

(* The components that a bundle covers, as far as they are due. *)
Due(b) == {c \in Components : Covered(c, b)}

LEMMA ComponentsAreTold ==
  /\ "profile" \in Components /\ "nla" \in Components /\ "qos" \in Components
  /\ "nic" \in Components /\ "rsc" \in Components /\ "power" \in Components
BY DEF Components

LEMMA PartIsDue ==
  ASSUME NEW b, NEW c \in Components
  PROVE  (IF Covered(c, b) THEN <<c>> ELSE <<>>) \in Seq(Due(b))
<1>1. CASE Covered(c, b)
  <2>1. c \in Due(b)
    BY <1>1 DEF Due
  <2> QED
    BY <1>1, <2>1, OnePlace
<1>2. CASE ~Covered(c, b)
  BY <1>2, NoWrites
<1> QED
  BY <1>1, <1>2

LEMMA StagedIsDue ==
  ASSUME NEW b
  PROVE  restore_staged(b) \in Seq(Due(b))
<1> DEFINE part(c) == IF Covered(c, b) THEN <<c>> ELSE <<>>
<1>1. \A c \in Components : part(c) \in Seq(Due(b))
  BY PartIsDue
<1>2. restore_staged(b) =
        part("profile") \o part("nla") \o part("qos") \o part("nic") \o part("rsc") \o part("power")
  BY DEF restore_staged
<1> HIDE DEF part
<1>3. part("profile") \o part("nla") \in Seq(Due(b))
  BY <1>1, ComponentsAreTold, Joined
<1>4. part("profile") \o part("nla") \o part("qos") \in Seq(Due(b))
  BY <1>1, <1>3, ComponentsAreTold, Joined
<1>5. part("profile") \o part("nla") \o part("qos") \o part("nic") \in Seq(Due(b))
  BY <1>1, <1>4, ComponentsAreTold, Joined
<1>6. part("profile") \o part("nla") \o part("qos") \o part("nic") \o part("rsc") \in Seq(Due(b))
  BY <1>1, <1>5, ComponentsAreTold, Joined
<1>7. part("profile") \o part("nla") \o part("qos") \o part("nic") \o part("rsc") \o part("power")
        \in Seq(Due(b))
  BY <1>1, <1>6, ComponentsAreTold, Joined
<1> QED
  BY <1>2, <1>7

(* Every component of a sequence of those due is known, and covered. *)
LEMMA DueAreCovered ==
  ASSUME NEW b, NEW w \in Seq(Due(b))
  PROVE  w \in Seq(Components) /\ \A i \in 1..Len(w) : Covered(w[i], b)
<1>1. Due(b) \subseteq Components /\ \A c \in Due(b) : Covered(c, b)
  BY DEF Due
<1>2. \A i \in 1..Len(w) : w[i] \in Due(b)
  OBVIOUS
<1>3. w \in Seq(Components)
  BY <1>1, SeqMonotonic
<1> QED
  BY <1>1, <1>2, <1>3

LEMMA MutationsAreKnown ==
  /\ apply_mutations \in Seq(Components)
  /\ \A i \in 1..Len(apply_mutations) : apply_mutations[i] \in {"nla", "qos", "nic", "power"}
<1> DEFINE K == {"nla", "qos", "nic", "power"}
<1>1. <<"nla", "qos">> \in Seq(K) /\ <<"nic", "power">> \in Seq(K) /\ <<>> \in Seq(K)
  OBVIOUS
<1>2. apply_mutations \in Seq(K)
  BY <1>1, Joined DEF apply_mutations
<1>3. K \subseteq Components
  BY DEF Components
<1>4. apply_mutations \in Seq(Components)
  BY <1>2, <1>3, SeqMonotonic
<1> QED
  BY <1>2, <1>4

LEMMA FolderIsGood ==
  ASSUME Ranges, folder # Nothing, folder # Unverifiable
  PROVE  Good(folder) /\ IsBundle(folder)
BY DEF Ranges, Good, IsBundle

LEMMA NoBundle ==
  ~IsBundle(Nothing) /\ ~IsBundle(Unverifiable) /\ DOMAIN Nothing = {}
<1>1. DOMAIN Nothing = {}
  BY EmptySeq DEF Nothing
<1>2. DOMAIN Unverifiable = {"unverifiable"}
  BY DEF Unverifiable
<1> QED
  BY <1>1, <1>2 DEF IsBundle

----------------------------------------------------------------------------
(* The steps up to the first write. *)

(* What says nothing of a setting that is being written. *)
LEMMA SettingsAreKept ==
  ASSUME Untouched, OriginalIsRestorable, UNCHANGED <<machine, folder, before, original>>,
         at' # "idle" => at # "idle"
  PROVE  Untouched' /\ OriginalIsRestorable'
<1>1. Untouched'
  BY DEF Untouched, IsBundle
<1>2. OriginalIsRestorable'
  BY DEF OriginalIsRestorable, IsBundle
<1> QED
  BY <1>1, <1>2

LEMMA EmptyCurrent ==
  ASSUME current' = <<>>
  PROVE  (DOMAIN current \subseteq Policies)' /\ (current \in [DOMAIN current -> Values])'
         /\ DOMAIN current' = {}
<1>1. DOMAIN current' = {}
  BY EmptySeq
<1> QED
  BY <1>1

LEMMA ExecuteStep ==
  ASSUME TuningInv, NEW c \in Configs, execute(c)
  PROVE  TuningInv'
<1>1. /\ at = "idle" /\ result' = "running" /\ before' = machine
      /\ UNCHANGED <<machine, up, folder, snapshots, original>>
      /\ config' = c /\ current' = <<>>
      /\ bundle' = IF c.action = "Backup" THEN Nothing ELSE folder
      /\ mode' = IF c.action = "Restore" THEN "restore" ELSE "apply"
  BY DEF execute
<1>2. at' = CASE c.action = "Backup" -> "publish"
             [] c.action = "Restore" -> IF IsBundle(folder) THEN "snapshot" ELSE "refuse"
             [] OTHER -> apply_backup_decision
  BY DEF execute
<1>3. c.action \in {"Backup", "Restore", "Apply"}
  BY DEF Configs
<1>4. /\ at' \in {"publish", "snapshot", "refuse"}
      /\ at' = "snapshot" => /\ c.action # "Backup"
                             /\ IsBundle(folder) \/ (folder # Nothing /\ folder # Unverifiable)
      /\ at' = "publish" /\ c.action # "Backup" => folder = Nothing
      /\ at' = "publish" => c.action # "Restore"
  BY <1>2, <1>3 DEF apply_backup_decision
<1>5. at' = "snapshot" => Good(folder)
  BY <1>4, NoBundle, FolderIsGood DEF TuningInv
<1>6. ~Mutating'
  BY <1>4 DEF Mutating
<1>7. Ranges'
  BY <1>1, <1>4 DEF TuningInv, Ranges, Good
<1>8. NothingWritten'
  <2>1. (Good(folder))' <=> Good(folder)
    BY <1>1 DEF Good
  <2> QED
    BY <1>1, <1>3, <1>4, <1>5, <2>1, EmptyCurrent DEF NothingWritten
<1>9. BundlesAreGood' /\ WritesAreAllowed'
  BY <1>1, <1>4, <1>6, EmptyCurrent DEF BundlesAreGood, WritesAreAllowed
<1>10. Untouched'
  BY <1>1 DEF TuningInv, Untouched, IsBundle
<1>11. OriginalIsRestorable'
  BY <1>1 DEF TuningInv, OriginalIsRestorable, IsBundle
<1>12. FoundIsOnDisk'
  BY <1>1 DEF FoundIsOnDisk
<1> QED
  BY <1>7, <1>8, <1>9, <1>10, <1>11, <1>12 DEF TuningInv

(* An operation that ends, or stops, where it is. *)
LEMMA EndStep ==
  ASSUME TuningInv, at # "idle", at' = "idle",
         result' \in {"cancelled", "error", "crashed", "rollback failed", "backed up", "applied",
                      "restored", "rolled back"},
         UNCHANGED <<machine, folder, source, before, original, current>>,
         result' \in {"crashed", "rollback failed"} => snapshots' = snapshots
  PROVE  TuningInv'
<1>1. Ranges'
  BY DEF TuningInv, Ranges, Good
<1>2. NothingWritten' /\ BundlesAreGood'
  BY DEF NothingWritten, BundlesAreGood, Mutating
<1>3. WritesAreAllowed'
  <2>1. DOMAIN current \subseteq Policies /\ current \in [DOMAIN current -> Values]
    BY DEF TuningInv, WritesAreAllowed
  <2> QED
    BY <2>1 DEF WritesAreAllowed, Mutating
<1>4. Untouched' /\ OriginalIsRestorable'
  BY SettingsAreKept DEF TuningInv
<1>5. FoundIsOnDisk'
  <2> SUFFICES ASSUME result' \in {"crashed", "rollback failed"}, machine # before
               PROVE  /\ source = folder \/ source \in snapshots
                      /\ SameOn(DOMAIN source, source, before)
    BY DEF FoundIsOnDisk, SameOn
  <2>1. Mutating
    BY DEF TuningInv, Ranges, NothingWritten, Mutating
  <2> QED
    BY <2>1 DEF TuningInv, BundlesAreGood
<1> QED
  BY <1>1, <1>2, <1>3, <1>4, <1>5 DEF TuningInv

LEMMA PublishStep ==
  ASSUME TuningInv, publish_backup
  PROVE  TuningInv'
<1>1. /\ at = "publish" /\ folder' = Save({})
      /\ original' = IF config.action = "Backup" THEN [s \in Settings |-> "none"] ELSE original
      /\ UNCHANGED <<machine, before, mode, current, config, snapshots, writes, work>>
  BY DEF publish_backup, Keep
<1>2. \/ at' = "idle" /\ result' \in {"error", "backed up"}
      \/ /\ at' = "begin" /\ UNCHANGED result
         /\ config.action # "Backup" /\ bundle' = folder' /\ source' = folder'
  BY DEF publish_backup, End
<1>3. machine = before /\ mode = "apply" /\ result = "running"
  BY <1>1 DEF TuningInv, NothingWritten, Ranges
<1>4. Good(folder') /\ SameOn(DOMAIN folder', folder', machine)
  BY <1>1, SaveIsGood DEF TuningInv, Ranges
<1>5. IsBundle(folder') /\ DOMAIN folder' \subseteq Settings
  BY <1>4 DEF Good, IsBundle
<1>6. Ranges'
  <2>1. original' \in [Settings -> Values \cup {"none", "changed"}]
    BY <1>1 DEF TuningInv, Ranges
  <2>2. (Good(folder))'
    BY <1>4 DEF Good
  <2> QED
    BY <1>1, <1>2, <1>3, <2>1, <2>2 DEF TuningInv, Ranges
<1>7. NothingWritten'
  <2>1. (Good(folder))'
    BY <1>4 DEF Good
  <2>2. SameOn(DOMAIN folder', folder', before')
    BY <1>1, <1>3, <1>4
  <2>3. DOMAIN current' = {}
    BY <1>1 DEF TuningInv, NothingWritten
  <2> QED
    BY <1>1, <1>2, <1>3, <2>1, <2>2, <2>3 DEF NothingWritten, SameOn
<1>8. BundlesAreGood' /\ WritesAreAllowed'
  <2>1. DOMAIN current \subseteq Policies /\ current \in [DOMAIN current -> Values]
    BY DEF TuningInv, WritesAreAllowed
  <2> QED
    BY <1>1, <1>2, <2>1 DEF BundlesAreGood, WritesAreAllowed, Mutating
<1>9. Untouched'
  BY <1>1, <1>3, <1>4 DEF Untouched, SameOn
<1>10. OriginalIsRestorable'
  <2>1. CASE config.action = "Backup"
    BY <1>1, <2>1 DEF OriginalIsRestorable
  <2>2. CASE config.action # "Backup"
    <3>1. ~IsBundle(folder) /\ original' = original
      BY <1>1, <2>2, NoBundle DEF TuningInv, NothingWritten
    <3>2. \A s \in Settings : original[s] \in {"none", "changed"}
      BY <3>1 DEF TuningInv, OriginalIsRestorable
    <3> QED
      BY <3>1, <3>2 DEF OriginalIsRestorable
  <2> QED
    BY <2>1, <2>2
<1>11. FoundIsOnDisk'
  BY <1>1, <1>3 DEF FoundIsOnDisk
<1> QED
  BY <1>6, <1>7, <1>8, <1>9, <1>10, <1>11 DEF TuningInv

(* The first component is due. *)
LEMMA BeginStep ==
  ASSUME TuningInv, Begin, at \in {"snapshot", "begin"}, machine = before, folder = bundle, Good(folder),
         mode \in {"apply", "restore"}, Good(source'), SameOn(DOMAIN source', source', before),
         source' = folder \/ source' \in snapshots', Policies \cap DOMAIN source' \subseteq DOMAIN folder
  PROVE  TuningInv'
<1>1. /\ work' = IF mode = "apply" THEN apply_mutations ELSE restore_staged(bundle)
      /\ at' = "component"
      /\ UNCHANGED <<folder, mode, bundle, writes, current, result, before, original, machine>>
  BY DEF Begin, ghosts, Keep
<1>2. Ranges'
  BY <1>1 DEF TuningInv, Ranges, Good
<1>3. NothingWritten'
  BY <1>1 DEF NothingWritten
<1>4. BundlesAreGood'
  <2>1. (Good(folder))' /\ (Good(bundle))' /\ (Good(source))'
    BY <1>1 DEF Good
  <2>2. work' \in Seq(Components)
        /\ \A i \in 1..Len(work') :
             IF mode = "apply" THEN work'[i] \in {"nla", "qos", "nic", "power"} ELSE Covered(work'[i], bundle)
    <3>1. CASE mode = "apply"
      BY <1>1, <3>1, MutationsAreKnown
    <3>2. CASE mode # "apply"
      <4>1. restore_staged(bundle) \in Seq(Due(bundle))
        BY StagedIsDue
      <4>2. work' = restore_staged(bundle)
        BY <1>1, <3>2
      <4> QED
        BY <4>1, <4>2, <3>2, DueAreCovered
    <3> QED
      BY <3>1, <3>2
  <2>3. \A i \in 1..Len(work') :
          IF mode' = "apply" THEN work'[i] \in {"nla", "qos", "nic", "power"} ELSE (Covered(work[i], bundle))'
    BY <1>1, <2>2 DEF Covered
  <2>4. SameOn(DOMAIN source', source', before') /\ bundle' = folder' /\ mode' \in {"apply", "restore"}
    BY <1>1
  <2> QED
    BY <1>1, <2>1, <2>2, <2>3, <2>4 DEF BundlesAreGood, SameOn
<1>5. WritesAreAllowed'
  <2>1. DOMAIN current' \subseteq Policies /\ current' \in [DOMAIN current' -> Values]
    BY <1>1 DEF TuningInv, WritesAreAllowed
  <2>2. DOMAIN current' = {}
    BY <1>1 DEF TuningInv, NothingWritten
  <2> QED
    BY <1>1, <2>1, <2>2 DEF WritesAreAllowed
<1>6. Untouched' /\ OriginalIsRestorable'
  BY <1>1, SettingsAreKept DEF TuningInv
<1>7. FoundIsOnDisk'
  BY <1>1 DEF TuningInv, Ranges, FoundIsOnDisk
<1> QED
  BY <1>2, <1>3, <1>4, <1>5, <1>6, <1>7 DEF TuningInv

LEMMA SnapshotStep ==
  ASSUME TuningInv, publish_snapshot
  PROVE  TuningInv'
<1>1. /\ at = "snapshot" /\ Begin
      /\ source' = Save(IF mode = "restore" THEN qos_names(bundle) ELSE {})
      /\ snapshots' = snapshots \cup {source'}
  BY DEF publish_snapshot
<1>2. machine = before /\ Good(folder) /\ bundle = folder /\ mode \in {"apply", "restore"}
  BY <1>1 DEF TuningInv, NothingWritten
<1>3. before' = before
  BY <1>1 DEF Begin, ghosts
<1>4. /\ Good(source') /\ SameOn(DOMAIN source', source', machine)
      /\ \A p \in Legacy \cap DOMAIN source' : p \in qos_names(bundle)
  BY <1>1, SaveIsGood DEF TuningInv, Ranges
<1>5. Policies \cap DOMAIN source' \subseteq DOMAIN folder
  BY <1>2, <1>4 DEF Policies, Good, qos_names
<1> QED
  BY <1>1, <1>2, <1>3, <1>4, <1>5, BeginStep

LEMMA FirstStep ==
  ASSUME TuningInv, begin
  PROVE  TuningInv'
<1>1. at = "begin" /\ Begin /\ source' = source
  BY DEF begin
<1>2. /\ machine = before /\ Good(folder) /\ bundle = folder /\ mode \in {"apply", "restore"}
      /\ source = folder /\ SameOn(DOMAIN source, source, before)
  BY <1>1 DEF TuningInv, NothingWritten
<1>3. before' = before
  BY <1>1 DEF Begin, ghosts
<1> QED
  BY <1>1, <1>2, <1>3, BeginStep

----------------------------------------------------------------------------
(* The writes. *)

(* A write that is allowed, or one that was passed over. *)
LEMMA WriteStep ==
  ASSUME TuningInv, at \in {"writing", "undoing"}, writes # <<>>,
         machine' \in {machine, Over(machine, Head(writes))}, writes' = Tail(writes), Recorded,
         UNCHANGED <<folder, snapshots, at, mode, bundle, source, work, current, result, before>>
  PROVE  /\ TuningInv'
         /\ \A s \in Settings : machine'[s] # machine[s] =>
              s # "foreign" /\ (s \in Policies => Ours(s))
<1> DEFINE w == Head(writes)
<1>1. Mutating /\ writes \in Seq(Allowed)
  BY DEF TuningInv, WritesAreAllowed, Mutating
<1>2. w \in Allowed /\ Tail(writes) \in Seq(Allowed)
  BY <1>1, HeadTailProperties
<1>3. DOMAIN w \subseteq Settings \ {"foreign"} /\ w \in [DOMAIN w -> Values]
  BY <1>2 DEF Allowed, Writes
<1>4. \A s \in DOMAIN w : s \in DOMAIN folder \/ w[s] = before[s]
  BY <1>2 DEF Allowed
<1>5. \A s \in DOMAIN w : s \in Policies => Ours(s)
  BY <1>2 DEF Allowed
<1>6. \A s \in DOMAIN w : s \in Rsc => w[s] \in Switch
  BY <1>2 DEF Allowed
<1>7. /\ machine \in [Settings -> Values] /\ before \in [Settings -> Values]
      /\ original \in [Settings -> Values \cup {"none", "changed"}]
      /\ Good(folder) /\ IsBundle(folder) /\ DOMAIN folder \subseteq Settings
  BY <1>1 DEF TuningInv, Ranges, BundlesAreGood, Good, IsBundle
<1> HIDE DEF w
<1>8. /\ DOMAIN Over(machine, w) = Settings
      /\ \A s \in Settings : Over(machine, w)[s] = IF s \in DOMAIN w THEN w[s] ELSE machine[s]
  BY <1>7 DEF Over
<1>9. Over(machine, w) \in [Settings -> Values]
  BY <1>3, <1>7, <1>8 DEF Over
<1>10. /\ machine' \in [Settings -> Values]
      /\ \A s \in Settings : machine'[s] # machine[s] => s \in DOMAIN w /\ machine'[s] = w[s]
  BY <1>7, <1>8, <1>9 DEF w
<1>11. \A s \in Settings : original'[s] = IF machine'[s] # machine[s] /\ original[s] = "none"
                                         THEN machine[s] ELSE original[s]
  BY DEF Recorded
<1>12. \A v \in Values : v # "none" /\ v # "changed"
  BY DEF Values
<1>13. Ranges'
  <2>1. original' \in [Settings -> Values \cup {"none", "changed"}]
    BY <1>7 DEF Recorded
  <2>2. (folder \in {Nothing, Unverifiable} \/ Good(folder))'
    BY <1>7 DEF Good
  <2>3. \A s \in Rsc : machine'[s] \in Switch
    <3>1. \A s \in Rsc : s \in Settings /\ machine[s] \in Switch
      BY DEF TuningInv, Ranges, Settings
    <3> QED
      BY <1>6, <1>10, <3>1
  <2> QED
    BY <1>10, <2>1, <2>2, <2>3 DEF TuningInv, Ranges
<1>14. NothingWritten'
  BY DEF NothingWritten
<1>15. BundlesAreGood'
  BY <1>1 DEF TuningInv, BundlesAreGood, Mutating, SameOn, Good, Covered
<1>16. WritesAreAllowed'
  <2>1. Allowed' = Allowed
    BY DEF Allowed, Ours, qos_names
  <2> HIDE DEF w
  <2>2. writes' \in Seq(Allowed')
    BY <1>2, <2>1
  <2>3. \A p : Ours(p)' <=> Ours(p)
    BY DEF Ours, qos_names
  <2> QED
    BY <1>1, <2>2, <2>3 DEF TuningInv, WritesAreAllowed, Mutating
<1>17. Untouched'
  <2>1. \A s \in Settings : original'[s] = "none" => original[s] = "none" /\ machine'[s] = machine[s]
    BY <1>7, <1>11, <1>12
  <2> QED
    BY <1>7, <2>1 DEF TuningInv, Untouched, IsBundle
<1>18. OriginalIsRestorable'
  <2> SUFFICES ASSUME NEW s \in Settings, original'[s] \notin {"none", "changed"}
               PROVE  s \in DOMAIN folder /\ folder[s] = original'[s]
    BY <1>7 DEF OriginalIsRestorable, IsBundle
  <2>1. CASE original[s] \notin {"none", "changed"}
    BY <1>11, <2>1 DEF TuningInv, OriginalIsRestorable
  <2>2. CASE original[s] \in {"none", "changed"}
    <3>1. original[s] = "none" /\ machine'[s] # machine[s] /\ original'[s] = machine[s]
      BY <1>11, <2>2
    <3>2. machine[s] = before[s]
      BY <1>1, <3>1 DEF TuningInv, Untouched, Mutating
    <3>3. s \in DOMAIN folder
      BY <1>4, <1>10, <3>1, <3>2
    <3> QED
      BY <1>7, <3>1, <3>3 DEF TuningInv, Untouched
  <2> QED
    BY <2>1, <2>2
<1>19. FoundIsOnDisk'
  BY DEF TuningInv, Ranges, FoundIsOnDisk
<1>20. \A s \in Settings : machine'[s] # machine[s] => s # "foreign" /\ (s \in Policies => Ours(s))
  BY <1>3, <1>5, <1>10
<1> QED
  BY <1>13, <1>14, <1>15, <1>16, <1>17, <1>18, <1>19, <1>20 DEF TuningInv

(* What stays as it is while only the operation moves on. *)
LEMMA MachineIsKept ==
  ASSUME TuningInv, Mutating, Mutating',
         UNCHANGED <<machine, folder, before, original, result>>
  PROVE  Ranges' /\ NothingWritten' /\ Untouched' /\ OriginalIsRestorable' /\ FoundIsOnDisk'
<1>1. Ranges'
  BY DEF TuningInv, Ranges, Good, Mutating
<1>2. NothingWritten'
  BY DEF NothingWritten, Mutating
<1>3. Untouched' /\ OriginalIsRestorable'
  BY SettingsAreKept DEF TuningInv, Mutating
<1>4. FoundIsOnDisk'
  BY DEF TuningInv, Ranges, FoundIsOnDisk, Mutating
<1> QED
  BY <1>1, <1>2, <1>3, <1>4

LEMMA BundlesAreKept ==
  ASSUME BundlesAreGood, Mutating,
         UNCHANGED <<folder, snapshots, source, before, mode, bundle>>,
         work' = work \/ (work # <<>> /\ work' = Tail(work))
  PROVE  BundlesAreGood'
<1>1. (Good(folder))' /\ (Good(source))' /\ (Good(bundle))'
  BY DEF BundlesAreGood, Good
<1>2. work \in Seq(Components)
      /\ \A i \in 1..Len(work) :
           IF mode = "apply" THEN work[i] \in {"nla", "qos", "nic", "power"} ELSE Covered(work[i], bundle)
  BY DEF BundlesAreGood
<1>3. work' \in Seq(Components)
      /\ \A i \in 1..Len(work') :
           IF mode = "apply" THEN work'[i] \in {"nla", "qos", "nic", "power"} ELSE Covered(work'[i], bundle)
  <2>1. CASE work' = work
    BY <1>2, <2>1
  <2>2. CASE work # <<>> /\ work' = Tail(work)
    <3>1. /\ Tail(work) \in Seq(Components) /\ Len(work) \in Nat \ {0}
          /\ \A i \in 1..Len(Tail(work)) : i + 1 \in 1..Len(work) /\ Tail(work)[i] = work[i + 1]
      BY <1>2, <2>2
    <3> QED
      BY <1>2, <2>2, <3>1
  <2> QED
    BY <2>1, <2>2
<1>4. \A i \in 1..Len(work') :
        IF mode' = "apply" THEN work'[i] \in {"nla", "qos", "nic", "power"} ELSE (Covered(work[i], bundle))'
  BY <1>3 DEF Covered
<1> QED
  BY <1>1, <1>3, <1>4 DEF BundlesAreGood, SameOn

LEMMA AllowedIsKept ==
  ASSUME UNCHANGED <<folder, before, mode, bundle>>
  PROVE  Allowed' = Allowed /\ \A p : Ours(p)' <=> Ours(p)
BY DEF Allowed, Ours, qos_names

LEMMA HeadIsCovered ==
  ASSUME TuningInv, Mutating, work # <<>>
  PROVE  /\ Head(work) \in Components
         /\ IF mode = "apply" THEN Head(work) \in {"nla", "qos", "nic", "power"} ELSE Covered(Head(work), bundle)
<1>1. work \in Seq(Components)
      /\ \A i \in 1..Len(work) :
           IF mode = "apply" THEN work[i] \in {"nla", "qos", "nic", "power"} ELSE Covered(work[i], bundle)
  BY DEF TuningInv, BundlesAreGood
<1>2. 1 \in 1..Len(work) /\ Head(work) = work[1] /\ work[1] \in Components
  BY <1>1
<1> QED
  BY <1>1, <1>2

LEMMA OpenStep ==
  ASSUME TuningInv, open_component
  PROVE  TuningInv'
<1>1. /\ at = "component" /\ work # <<>> /\ at' = "writing"
      /\ UNCHANGED <<folder, snapshots, mode, bundle, source, work, result, before, original, machine>>
      /\ writes' = IF mode = "apply" THEN apply_component(Head(work)) ELSE restore_component(Head(work))
      /\ current' = IF Head(work) = "qos"
                    THEN [p \in read_qos(IF mode = "apply" THEN {} ELSE qos_names(bundle)) |-> machine[p]]
                    ELSE <<>>
  BY DEF open_component, ghosts, Keep
<1>2. Mutating /\ Mutating'
  BY <1>1 DEF Mutating
<1>3. Ranges /\ BundlesAreGood
  BY DEF TuningInv
<1>4. writes' \in Seq(Allowed)
  BY <1>1, <1>2, <1>3, HeadIsCovered, ApplyIsAllowed, RestoreIsAllowed
<1> DEFINE names == IF mode = "apply" THEN {} ELSE qos_names(bundle)
<1>5. /\ DOMAIN current' \subseteq Policies /\ current' \in [DOMAIN current' -> Values]
      /\ \A p \in DOMAIN current' : Ours(p)
  <2>1. CASE Head(work) = "qos"
    <3>1. current' = [p \in read_qos(names) |-> machine[p]]
      BY <1>1, <2>1
    <3>2. read_qos(names) \subseteq Policies
      BY ReadAreOurs
    <3>3. \A p \in read_qos(names) : Ours(p)
      BY <1>2, <1>3, UndoIsAllowed
    <3>4. \A p \in read_qos(names) : machine[p] \in Values
      BY <1>3, <3>2 DEF Ranges, Settings
    <3> QED
      BY <3>1, <3>2, <3>3, <3>4
  <2>2. CASE Head(work) # "qos"
    <3>1. current' = <<>>
      BY <1>1, <2>2
    <3>2. DOMAIN current' = {}
      BY <3>1, EmptySeq
    <3> QED
      BY <3>1, <3>2
  <2> QED
    BY <2>1, <2>2
<1>6. WritesAreAllowed'
  <2>1. Allowed' = Allowed /\ \A p : Ours(p)' <=> Ours(p)
    BY <1>1, AllowedIsKept
  <2>2. writes' \in Seq(Allowed')
    BY <1>4, <2>1
  <2> QED
    BY <1>1, <1>5, <2>1, <2>2 DEF WritesAreAllowed
<1>7. BundlesAreGood'
  BY <1>1, <1>2, <1>3, BundlesAreKept
<1>8. Ranges' /\ NothingWritten' /\ Untouched' /\ OriginalIsRestorable' /\ FoundIsOnDisk'
  BY <1>1, <1>2, MachineIsKept
<1> QED
  BY <1>6, <1>7, <1>8 DEF TuningInv

(* An error: the end of the operation, or its rollback. *)
LEMMA FailsStep ==
  ASSUME TuningInv, Mutating, Fails, Writing
  PROVE  TuningInv'
<1>1. UNCHANGED <<machine, folder, snapshots, source, before, original>>
  BY DEF Writing, ghosts, Keep
<1>2. \/ at' = "idle" /\ result' = "rollback failed" /\ UNCHANGED current
      \/ /\ mode' = "rollback" /\ bundle' = source /\ work' = restore_staged(source)
         /\ current' = <<>> /\ at' = "component" /\ UNCHANGED result
  BY DEF Fails, End
<1>3. CASE at' = "idle" /\ result' = "rollback failed" /\ UNCHANGED current
  <2>1. at # "idle"
    BY DEF Mutating
  <2> QED
    BY <1>1, <1>3, <2>1, EndStep
<1>4. CASE /\ mode' = "rollback" /\ bundle' = source /\ work' = restore_staged(source)
           /\ current' = <<>> /\ at' = "component" /\ UNCHANGED result
  <2>1. Mutating'
    BY <1>4 DEF Mutating
  <2>2. Ranges' /\ NothingWritten' /\ Untouched' /\ OriginalIsRestorable' /\ FoundIsOnDisk'
    BY <1>1, <1>4, <2>1, MachineIsKept
  <2>3. (Good(folder))' /\ (Good(source))' /\ (Good(bundle))'
    BY <1>1, <1>4 DEF TuningInv, BundlesAreGood, Good
  <2>4. work' \in Seq(Components) /\ \A i \in 1..Len(work') : Covered(work'[i], source)
    <3>1. work' \in Seq(Due(source))
      BY <1>4, StagedIsDue
    <3> QED
      BY <3>1, DueAreCovered
  <2>5. \A i \in 1..Len(work') : (Covered(work[i], bundle))'
    BY <1>4, <2>4 DEF Covered
  <2>6. /\ Policies \cap DOMAIN source' \subseteq DOMAIN folder'
        /\ SameOn(DOMAIN source', source', before')
        /\ source' = folder' \/ source' \in snapshots'
    BY <1>1 DEF TuningInv, BundlesAreGood
  <2>7. BundlesAreGood'
    BY <1>1, <1>4, <2>3, <2>4, <2>5, <2>6 DEF BundlesAreGood, SameOn
  <2>8. WritesAreAllowed'
    BY <1>4, EmptyCurrent DEF WritesAreAllowed
  <2> QED
    BY <2>2, <2>7, <2>8 DEF TuningInv
<1> QED
  BY <1>2, <1>3, <1>4

LEMMA WriteFailsStep ==
  ASSUME TuningInv, write_fails
  PROVE  TuningInv'
<1>1. at = "writing" /\ writes # <<>> /\ Writing /\ Mutating
  BY DEF write_fails, Mutating
<1>2. CASE Head(work) # "qos"
  <2>1. Fails
    BY <1>2 DEF write_fails
  <2> QED
    BY <1>1, <2>1, FailsStep
<1>3. CASE Head(work) = "qos"
  <2> DEFINE names == IF mode = "apply" THEN {} ELSE qos_names(bundle)
  <2>1. /\ writes' \in {Deletes(read_qos(names)) \o Creates(current), Creates(current)}
        /\ at' = "undoing" /\ UNCHANGED <<mode, bundle, work, current, result>>
    BY <1>3 DEF write_fails
  <2>2. UNCHANGED <<machine, folder, snapshots, source, before, original>>
    BY <1>1 DEF Writing, ghosts, Keep
  <2>3. Ranges /\ BundlesAreGood /\ Mutating'
    BY <2>1 DEF TuningInv, Mutating
  <2>4. /\ DOMAIN current \subseteq Policies /\ current \in [DOMAIN current -> Values]
        /\ \A p \in DOMAIN current : Ours(p)
        /\ work # <<>>
    BY <1>1 DEF TuningInv, WritesAreAllowed
  <2>5. Deletes(read_qos(names)) \in Seq(Allowed)
    BY <1>1, <2>3, UndoIsAllowed
  <2>6. \A p \in qos_names(current) : Ours(p)
    BY <2>4 DEF qos_names
  <2>7. Creates(current) \in Seq(Allowed)
    BY <1>1, <2>3, <2>4, <2>6, PutBackIsAllowed
  <2> HIDE DEF names
  <2>8. writes' \in Seq(Allowed)
    BY <2>1, <2>5, <2>7, Joined
  <2>9. WritesAreAllowed'
    <3>1. Allowed' = Allowed /\ \A p : Ours(p)' <=> Ours(p)
      BY <2>1, <2>2, AllowedIsKept
    <3>2. writes' \in Seq(Allowed')
      BY <2>8, <3>1
    <3> QED
      BY <1>3, <2>1, <2>4, <3>1, <3>2 DEF WritesAreAllowed
  <2>10. BundlesAreGood'
    BY <1>1, <2>1, <2>2, <2>3, BundlesAreKept
  <2>11. Ranges' /\ NothingWritten' /\ Untouched' /\ OriginalIsRestorable' /\ FoundIsOnDisk'
    BY <1>1, <2>1, <2>2, <2>3, MachineIsKept
  <2> QED
    BY <2>9, <2>10, <2>11 DEF TuningInv
<1> QED
  BY <1>2, <1>3

LEMMA DoneStep ==
  ASSUME TuningInv, component_done
  PROVE  TuningInv'
<1>1. /\ at = "writing" /\ at' = "component" /\ work' = Tail(work) /\ current' = <<>>
      /\ UNCHANGED <<mode, bundle, result>> /\ Writing
  BY DEF component_done
<1>2. UNCHANGED <<machine, folder, snapshots, source, before, original>>
  BY <1>1 DEF Writing, ghosts, Keep
<1>3. Mutating /\ Mutating' /\ work # <<>>
  BY <1>1 DEF TuningInv, WritesAreAllowed, Mutating
<1>4. BundlesAreGood'
  BY <1>1, <1>2, <1>3, BundlesAreKept DEF TuningInv
<1>5. WritesAreAllowed'
  BY <1>1, EmptyCurrent DEF WritesAreAllowed
<1>6. Ranges' /\ NothingWritten' /\ Untouched' /\ OriginalIsRestorable' /\ FoundIsOnDisk'
  BY <1>1, <1>2, <1>3, MachineIsKept
<1> QED
  BY <1>4, <1>5, <1>6 DEF TuningInv

LEMMA CancelStep ==
  ASSUME TuningInv, Cancel
  PROVE  TuningInv'
<1>1. UNCHANGED <<machine, folder, snapshots, config, at, mode, bundle, source, work, writes, current,
                  result, before, original>>
  BY DEF Cancel, progress, ghosts, Keep
<1>2. Ranges' /\ NothingWritten'
  BY <1>1 DEF TuningInv, Ranges, NothingWritten, Good, SameOn
<1>3. BundlesAreGood'
  BY <1>1 DEF TuningInv, BundlesAreGood, Mutating, SameOn, Good, Covered
<1>4. WritesAreAllowed'
  <2>1. Allowed' = Allowed /\ \A p : Ours(p)' <=> Ours(p)
    BY <1>1, AllowedIsKept
  <2>2. at \in {"writing", "undoing"} => writes' \in Seq(Allowed')
    BY <1>1, <2>1 DEF TuningInv, WritesAreAllowed
  <2> QED
    BY <1>1, <2>1, <2>2 DEF TuningInv, WritesAreAllowed, Mutating
<1>5. Untouched' /\ OriginalIsRestorable'
  BY <1>1, SettingsAreKept DEF TuningInv
<1>6. FoundIsOnDisk'
  BY <1>1 DEF TuningInv, FoundIsOnDisk, SameOn
<1> QED
  BY <1>2, <1>3, <1>4, <1>5, <1>6 DEF TuningInv

(* The user's change is the user's: no backup speaks for it. *)
LEMMA ChangeStep ==
  ASSUME TuningInv, Change
  PROVE  TuningInv'
<1>1. /\ at = "idle" /\ result' = "none"
      /\ UNCHANGED <<folder, snapshots, config, at, mode, bundle, source, work, writes, current, before>>
  BY DEF Change, progress
<1>2. \/ \E s \in Settings : \E v \in Values :
           /\ s \in Rsc => v \in Switch
           /\ machine' = [machine EXCEPT ![s] = v] /\ original' = [original EXCEPT ![s] = "changed"]
      \/ UNCHANGED <<machine, original>>
  <2>1. \A s \in {"nla", "saving", "port", "legacy", "rsc6"} :
          /\ s \in Settings /\ Range_of(s) \ {"new"} \subseteq Values
          /\ s \in Rsc => Range_of(s) \subseteq Switch
    BY DEF Settings, Policies, Owned, Legacy, Rsc, Range_of, Values, Switch
  <2> QED
    BY <2>1 DEF Change
<1>3. /\ machine \in [Settings -> Values] /\ original \in [Settings -> Values \cup {"none", "changed"}]
      /\ folder \in {Nothing, Unverifiable} \/ Good(folder)
  BY DEF TuningInv, Ranges
<1>4. \A s \in Settings : (original'[s] = original[s] /\ machine'[s] = machine[s]) \/ original'[s] = "changed"
  BY <1>2, <1>3
<1>5. Ranges'
  <2>1. /\ machine' \in [Settings -> Values]
        /\ original' \in [Settings -> Values \cup {"none", "changed"}]
    BY <1>2, <1>3
  <2>3. \A s \in Rsc : machine'[s] \in Switch
    <3>1. \A s \in Rsc : s \in Settings /\ machine[s] \in Switch
      BY DEF TuningInv, Ranges, Settings
    <3> QED
      BY <1>2, <1>3, <3>1
  <2>2. (folder \in {Nothing, Unverifiable} \/ Good(folder))'
    BY <1>1, <1>3 DEF Good
  <2> QED
    BY <1>1, <2>1, <2>2, <2>3 DEF TuningInv, Ranges
<1>6. NothingWritten' /\ BundlesAreGood'
  BY <1>1 DEF NothingWritten, BundlesAreGood, Mutating
<1>7. WritesAreAllowed'
  <2>1. DOMAIN current \subseteq Policies /\ current \in [DOMAIN current -> Values]
    BY DEF TuningInv, WritesAreAllowed
  <2> QED
    BY <1>1, <2>1 DEF WritesAreAllowed, Mutating
<1>8. Untouched'
  <2>1. IsBundle(folder) => DOMAIN folder \subseteq Settings
    BY <1>3, NoBundle DEF Good
  <2> QED
    BY <1>1, <1>4, <2>1 DEF TuningInv, Untouched, IsBundle
<1>9. OriginalIsRestorable'
  BY <1>1, <1>4 DEF TuningInv, OriginalIsRestorable, IsBundle
<1>10. FoundIsOnDisk'
  BY <1>1 DEF FoundIsOnDisk
<1> QED
  BY <1>5, <1>6, <1>7, <1>8, <1>9, <1>10 DEF TuningInv

LEMMA RefuseStep ==
  ASSUME TuningInv, refuse
  PROVE  TuningInv'
<1>1. at # "idle" /\ at' = "idle" /\ result' \in {"cancelled", "error"}
      /\ UNCHANGED <<machine, folder, source, before, original, current, snapshots>>
  BY DEF refuse, End, progress, ghosts, Keep
<1> QED
  BY <1>1, EndStep

LEMMA CrashStep ==
  ASSUME TuningInv, Crash
  PROVE  TuningInv'
<1>1. at # "idle" /\ at' = "idle" /\ result' = "crashed"
      /\ UNCHANGED <<machine, folder, source, before, original, current, snapshots>>
  BY DEF Crash, End, progress, ghosts, Keep
<1> QED
  BY <1>1, EndStep

LEMMA FinishStep ==
  ASSUME TuningInv, finish
  PROVE  TuningInv'
<1>1. at # "idle" /\ at' = "idle" /\ result' \in {"applied", "error", "restored", "rolled back"}
      /\ UNCHANGED <<machine, folder, source, before, original, current>>
  BY DEF finish, End, progress, ghosts, Keep
<1> QED
  BY <1>1, EndStep

LEMMA InitHolds ==
  ASSUME TuningInit
  PROVE  TuningInv
<1>1. PICK nla \in {"missing", "dword"}, saving \in {"1", "blank"},
           port \in {"absent", "old"}, legacy \in {"absent", "old"} :
       machine = [s \in Settings |->
                    CASE s = "nla" -> nla        [] s = "saving" -> saving
                      [] s = "port" -> port      [] s = "legacy" -> legacy
                      [] s = "power" -> "balanced" [] s = "profile" -> "as found"
                      [] s = "rsc4" -> "on"      [] s = "rsc6" -> "off"
                      [] OTHER -> "old"]
  BY DEF TuningInit
<1>2. /\ folder \in {Nothing, Unverifiable} /\ at = "idle" /\ result = "none" /\ before = machine
      /\ original = [s \in Settings |-> "none"] /\ current = <<>>
  BY DEF TuningInit
<1>3. machine \in [Settings -> Values]
  <2>1. \A s \in Settings : machine[s] \in Values
    BY <1>1 DEF Values
  <2> QED
    BY <1>1, <2>1
<1>4. Ranges
  <2>1. \A s \in Rsc : machine[s] \in Switch
    BY <1>1 DEF Rsc, Settings, Switch
  <2> QED
    BY <1>2, <1>3, <2>1 DEF Ranges
<1>5. DOMAIN current = {}
  BY <1>2, EmptySeq
<1>6. NothingWritten /\ BundlesAreGood /\ FoundIsOnDisk
  BY <1>2 DEF NothingWritten, BundlesAreGood, Mutating, FoundIsOnDisk
<1>7. WritesAreAllowed
  BY <1>2, <1>5 DEF WritesAreAllowed, Mutating
<1>8. Untouched /\ OriginalIsRestorable
  BY <1>2, NoBundle DEF Untouched, OriginalIsRestorable
<1> QED
  BY <1>4, <1>6, <1>7, <1>8 DEF TuningInv

----------------------------------------------------------------------------
(* write and undo_write give the settings of the next write their values.    *)
LEMMA WritingStep ==
  ASSUME TuningInv, write \/ undo_write
  PROVE  /\ TuningInv'
         /\ \A s \in Settings : machine'[s] # machine[s] =>
              s # "foreign" /\ (s \in Policies => Ours(s))
<1>1. /\ at \in {"writing", "undoing"} /\ writes # <<>>
      /\ writes' = Tail(writes) /\ Recorded
      /\ UNCHANGED <<folder, snapshots, at, mode, bundle, source, work, current, result, before>>
  BY DEF write, undo_write
<1>2. machine' \in {machine, Over(machine, Head(writes))}
  BY DEF write, undo_write
<1> QED
  BY <1>1, <1>2, WriteStep

LEMMA StutteringStep ==
  ASSUME TuningInv, UNCHANGED vars
  PROVE  TuningInv'
<1>1. UNCHANGED <<machine, folder, snapshots, config, at, mode, bundle, source, work, writes, current,
                  result, before, original>>
  BY DEF vars, progress, ghosts
<1>2. Ranges' /\ NothingWritten'
  BY <1>1 DEF TuningInv, Ranges, NothingWritten, Good, SameOn
<1>3. BundlesAreGood'
  BY <1>1 DEF TuningInv, BundlesAreGood, Mutating, SameOn, Good, Covered
<1>4. WritesAreAllowed'
  <2>1. Allowed' = Allowed /\ \A p : Ours(p)' <=> Ours(p)
    BY <1>1, AllowedIsKept
  <2>2. at \in {"writing", "undoing"} => writes' \in Seq(Allowed')
    BY <1>1, <2>1 DEF TuningInv, WritesAreAllowed
  <2> QED
    BY <1>1, <2>1, <2>2 DEF TuningInv, WritesAreAllowed, Mutating
<1>5. Untouched' /\ OriginalIsRestorable'
  BY <1>1, SettingsAreKept DEF TuningInv
<1>6. FoundIsOnDisk'
  BY <1>1 DEF TuningInv, FoundIsOnDisk, SameOn
<1> QED
  BY <1>2, <1>3, <1>4, <1>5, <1>6 DEF TuningInv

LEMMA TuningInvIsInductive ==
  ASSUME TuningInv, [TuningNext]_vars
  PROVE  TuningInv'
<1>1. ASSUME NEW c \in Configs, execute(c) PROVE TuningInv'
  BY <1>1, ExecuteStep
<1>2. CASE refuse
  BY <1>2, RefuseStep
<1>3. CASE publish_backup
  BY <1>3, PublishStep
<1>4. CASE publish_snapshot
  BY <1>4, SnapshotStep
<1>5. CASE begin
  BY <1>5, FirstStep
<1>6. CASE open_component
  BY <1>6, OpenStep
<1>7. CASE component_fails
  <2>1. Mutating /\ Fails /\ Writing
    BY <1>7 DEF component_fails, Mutating
  <2> QED
    BY <2>1, FailsStep
<1>8. CASE write \/ undo_write
  BY <1>8, WritingStep
<1>9. CASE write_fails
  BY <1>9, WriteFailsStep
<1>10. CASE undone
  <2>1. Mutating /\ Fails /\ Writing
    BY <1>10 DEF undone, Mutating
  <2> QED
    BY <2>1, FailsStep
<1>11. CASE component_done
  BY <1>11, DoneStep
<1>12. CASE finish
  BY <1>12, FinishStep
<1>13. CASE Cancel
  BY <1>13, CancelStep
<1>14. CASE Crash
  BY <1>14, CrashStep
<1>15. CASE Change
  BY <1>15, ChangeStep
<1>16. CASE UNCHANGED vars
  BY <1>16, StutteringStep
<1> QED
  BY <1>1, <1>2, <1>3, <1>4, <1>5, <1>6, <1>7, <1>8, <1>9, <1>10, <1>11, <1>12, <1>13, <1>14,
     <1>15, <1>16 DEF TuningNext

(* The inductive invariant of the tuning executor: what it writes, and when, *)
(* by what the backup folder covers (windows.rs:195-419).                    *)
THEOREM TuningInvariance == TuningSpec => []TuningInv
<1>1. TuningInit => TuningInv
  BY InitHolds
<1>2. TuningInv /\ [TuningNext]_vars => TuningInv'
  BY TuningInvIsInductive
<1> QED
  BY <1>1, <1>2, PTL DEF TuningSpec

(* Whatever failed and wherever it stopped, what the operation found is in a *)
(* bundle on disk, and what was there before any operation changed it can be *)
(* put back from the backup folder (windows.rs:217-246, 310-325, 776-810).   *)
THEOREM BackupsHoldHolds == TuningSpec => []BackupsHold
<1>1. TuningInv => PriorStateIsOnDisk
  BY DEF TuningInv, BundlesAreGood, FoundIsOnDisk, PriorStateIsOnDisk
<1>2. TuningInv => BackupsHold
  BY <1>1 DEF TuningInv, BackupsHold
<1> QED
  BY <1>2, TuningInvariance, PTL

(* A policy of someone else is never written, a generic legacy name only when *)
(* the bundle that is being put back names it (native/mod.rs:69-93).          *)
THEOREM OthersAreUntouchedHolds == TuningSpec => OthersAreUntouched
<1> DEFINE Touch ==
      at # "idle" =>
        /\ machine'["foreign"] = machine["foreign"]
        /\ \A p \in Legacy : machine'[p] # machine[p] => mode # "apply" /\ p \in qos_names(bundle)
<1>1. ASSUME TuningInv, [TuningNext]_vars PROVE Touch
  <2>1. CASE write \/ undo_write
    <3>1. \A s \in Settings : machine'[s] # machine[s] => s # "foreign" /\ (s \in Policies => Ours(s))
      BY <1>1, <2>1, WritingStep
    <3>2. "foreign" \in Settings /\ \A p \in Legacy : p \in Settings /\ p \in Policies /\ p \notin Owned
      BY DEF Settings, Policies, Legacy, Owned
    <3> QED
      BY <3>1, <3>2 DEF Ours
  <2>2. CASE Change
    BY <2>2 DEF Change
  <2>3. CASE ~(write \/ undo_write \/ Change)
    <3>1. UNCHANGED machine
      BY <1>1, <2>3 DEF TuningNext, vars, execute, refuse, publish_backup, publish_snapshot, begin, Begin,
         open_component, component_fails, write_fails, undone, component_done, finish, Cancel, Crash,
         Writing, Keep
    <3> QED
      BY <3>1
  <2> QED
    BY <2>1, <2>2, <2>3
<1>2. TuningInv /\ [TuningNext]_vars => [Touch]_vars
  BY <1>1
<1> HIDE DEF Touch
<1>3. TuningSpec => [][Touch]_vars
  BY <1>2, TuningInvariance, PTL DEF TuningSpec
<1> QED
  BY <1>3 DEF OthersAreUntouched, Touch

----------------------------------------------------------------------------
(* What an operation is to leave behind.                                     *)

(* The component that a setting belongs to. *)
Of(s) == CASE s \in Policies -> "qos" [] s = "saving" -> "nic" [] s \in Rsc -> "rsc" [] OTHER -> s

(* The settings that the operation is to write, and what it is to write. *)
Aimed ==
  IF mode # "apply" THEN DOMAIN bundle
  ELSE Owned \cup ({"nla"} \ skipped)
         \cup (IF config.measured
               THEN {"power"} \cup (IF up /\ "nic" \notin skipped THEN {"saving"} ELSE {}) ELSE {})
Aim(s) ==
  IF mode # "apply" THEN bundle[s]
  ELSE CASE s = "nla" -> "1" [] s = "port" -> "new" [] s = "app" -> "absent"
         [] s = "saving" -> "0" [] s = "power" -> "high" [] OTHER -> "as found"

(* Some writes leave a setting at a value. *)
Leaves(w, s, v) ==
  \/ machine[s] = v /\ \A i \in 1..Len(w) : s \in DOMAIN w[i] => w[i][s] = v
  \/ \E i \in 1..Len(w) : /\ s \in DOMAIN w[i]
                          /\ \A j \in i..Len(w) : s \in DOMAIN w[j] => w[j][s] = v

Occurs(c, q) == \E i \in 1..Len(q) : q[i] = c
IsDue(c) == Occurs(c, work)

(* What is not due any more has its value. *)
Aiming ==
  at \in {"component", "writing"} => \A s \in Aimed : IsDue(Of(s)) \/ machine[s] = Aim(s)

(* The writes that are left are those of the component, and give it its values. *)
WritesAim ==
  at = "writing" =>
    /\ \A i \in 1..Len(writes) : \A s \in DOMAIN writes[i] : Of(s) = Head(work)
    /\ \A s \in Aimed : Of(s) = Head(work) => Leaves(writes, s, Aim(s))

(* What Apply has no business with. *)
ApplyKeeps ==
  mode = "apply" /\ at \in {"component", "writing"} =>
    SameOn({"profile"} \cup Rsc \cup Legacy, machine, before)

Aims == Aiming /\ WritesAim /\ ApplyKeeps

----------------------------------------------------------------------------
(* The writes of a component leave it at its values. *)

LEMMA SetIsListed ==
  ASSUME NEW S, IsFiniteSet(S)
  PROVE  /\ SetToSeq(S) \in Seq(S)
         /\ \A i \in 1..Len(SetToSeq(S)) : SetToSeq(S)[i] \in S
         /\ \A x \in S : \E i \in 1..Len(SetToSeq(S)) : SetToSeq(S)[i] = x
<1> DEFINE n == Cardinality(S)
           q == SetToSeq(S)
<1>1. n \in Nat /\ ExistsBijection(1..n, S)
  BY FS_CardinalityType
<1>2. PICK f : f \in Bijection(1..n, S)
  BY <1>1 DEF ExistsBijection
<1>3. f \in [1..n -> S] /\ IsInjective(f)
  BY <1>2 DEF Bijection, Injection
<1>4. q \in [1..n -> S] /\ IsInjective(q)
  BY <1>3 DEF SetToSeq
<1>5. q \in Injection(1..n, S)
  BY <1>4 DEF Injection
<1>6. IsFiniteSet(1..n) /\ Cardinality(1..n) = n
  BY <1>1, FS_Interval
<1> HIDE DEF q
<1>7. q \in Surjection(1..n, S)
  BY <1>5, <1>6, FS_Injection
<1>8. \A x \in S : \E i \in 1..n : q[i] = x
  BY <1>7 DEF Surjection
<1>9. q \in Seq(S) /\ Len(q) = n
  BY <1>1, <1>4, SeqDef
<1> QED
  BY <1>4, <1>8, <1>9 DEF q

(* One write for each of some policies, and no other. *)
Each(N, value) == {Only(p, value[p]) : p \in N}
Lists(q, N, value) ==
  /\ q \in Seq(Each(N, value))
  /\ \A i \in 1..Len(q) : \A s \in DOMAIN q[i] : s \in N /\ q[i][s] = value[s]
  /\ \A p \in N : \E i \in 1..Len(q) : p \in DOMAIN q[i]

LEMMA PoliciesAreListed ==
  ASSUME NEW N \in SUBSET Policies, NEW value
  PROVE  Lists(SetToSeq(Each(N, value)), N, value)
<1> DEFINE T == Each(N, value)
           q == SetToSeq(T)
           f == [p \in N |-> Only(p, value[p])]
<1>1. f \in Surjection(N, T)
  BY DEF Surjection, Each
<1>2. IsFiniteSet(T)
  BY <1>1, PoliciesAreFinite, FS_Surjection
<1> HIDE DEF f, T
<1>3. /\ q \in Seq(T) /\ \A i \in 1..Len(q) : q[i] \in T
      /\ \A x \in T : \E i \in 1..Len(q) : q[i] = x
  BY <1>2, SetIsListed
<1> HIDE DEF q
<1>4. \A p \in N : DOMAIN Only(p, value[p]) = {p} /\ Only(p, value[p])[p] = value[p]
  BY DEF Only
<1>5. ASSUME NEW i \in 1..Len(q) PROVE \A s \in DOMAIN q[i] : s \in N /\ q[i][s] = value[s]
  <2>1. PICK p \in N : q[i] = Only(p, value[p])
    BY <1>3 DEF T, Each
  <2>2. DOMAIN q[i] = {p} /\ q[i][p] = value[p]
    BY <2>1 DEF Only
  <2> QED
    BY <2>2
<1>6. ASSUME NEW p \in N PROVE \E i \in 1..Len(q) : p \in DOMAIN q[i]
  <2>1. Only(p, value[p]) \in T
    BY DEF T, Each
  <2>2. PICK i \in 1..Len(q) : q[i] = Only(p, value[p])
    BY <1>3, <2>1
  <2> QED
    BY <1>4, <2>2
<1>7. q \in Seq(Each(N, value))
  BY <1>3 DEF T
<1>8. Lists(q, N, value)
  BY <1>5, <1>6, <1>7 DEF Lists
<1> QED
  BY <1>8 DEF q, T

(* What reconcile_qos writes: the policies it lists, deleted, then the others. *)
LEMMA ReconcileIsListed ==
  ASSUME NEW desired, NEW names, NEW w, w = reconcile_qos(desired, names)
  PROVE  \E n \in Nat :
           /\ Len(w) \in Nat /\ n <= Len(w)
           /\ \A i \in 1..n : \A s \in DOMAIN w[i] : s \in read_qos(names) /\ w[i][s] = "absent"
           /\ \A i \in n + 1..Len(w) : \A s \in DOMAIN w[i] :
                s \in qos_names(desired) /\ w[i][s] = desired[s]
           /\ \A p \in read_qos(names) : \E i \in 1..n : p \in DOMAIN w[i]
           /\ \A p \in qos_names(desired) : \E i \in n + 1..Len(w) : p \in DOMAIN w[i]
<1> DEFINE R == read_qos(names)
           Q == qos_names(desired)
           gone == [p \in R |-> "absent"]
           d == Deletes(R)
           c == Creates(desired)
<1>1. R \in SUBSET Policies /\ Q \in SUBSET Policies
  BY ReadAreOurs DEF qos_names
<1>2. \A p \in R : gone[p] = "absent"
  OBVIOUS
<1>3. d = SetToSeq(Each(R, gone))
  <2>1. Each(R, gone) = {Only(p, "absent") : p \in R}
    BY <1>2 DEF Each
  <2> QED
    BY <2>1 DEF Deletes
<1>4. c = SetToSeq(Each(Q, desired))
  BY DEF Creates, Each
<1> DEFINE D == Each(R, gone)
           C == Each(Q, desired)
<1> HIDE DEF R, Q, gone, d, c
<1>5. /\ d \in Seq(D)
      /\ \A i \in 1..Len(d) : \A s \in DOMAIN d[i] : s \in R /\ d[i][s] = gone[s]
      /\ \A p \in R : \E i \in 1..Len(d) : p \in DOMAIN d[i]
  <2>1. Lists(d, R, gone)
    BY <1>1, <1>3, PoliciesAreListed
  <2> QED
    BY <2>1 DEF Lists
<1>6. /\ c \in Seq(C)
      /\ \A i \in 1..Len(c) : \A s \in DOMAIN c[i] : s \in Q /\ c[i][s] = desired[s]
      /\ \A p \in Q : \E i \in 1..Len(c) : p \in DOMAIN c[i]
  <2>1. Lists(c, Q, desired)
    BY <1>1, <1>4, PoliciesAreListed
  <2> QED
    BY <2>1 DEF Lists
<1> HIDE DEF D, C
<1>7. w = d \o c
  BY DEF reconcile_qos, d, c, R
<1>8. d \in Seq(D \cup C) /\ c \in Seq(D \cup C)
  BY <1>5, <1>6, SeqMonotonic
<1>9. /\ Len(d) \in Nat /\ Len(c) \in Nat /\ Len(w) = Len(d) + Len(c)
      /\ \A i \in 1..Len(d) + Len(c) : w[i] = IF i <= Len(d) THEN d[i] ELSE c[i - Len(d)]
  BY <1>7, <1>8, ConcatProperties, LenProperties
<1>10. /\ \A i \in 1..Len(d) : i \in 1..Len(w) /\ w[i] = d[i]
       /\ \A i \in Len(d) + 1..Len(w) : i - Len(d) \in 1..Len(c) /\ w[i] = c[i - Len(d)]
       /\ \A i \in 1..Len(c) : i + Len(d) \in Len(d) + 1..Len(w) /\ w[i + Len(d)] = c[i]
  <2>1. \A i \in 1..Len(d) : i \in 1..Len(w) /\ w[i] = d[i]
    BY <1>9
  <2>2. \A i \in Len(d) + 1..Len(w) : i - Len(d) \in 1..Len(c) /\ w[i] = c[i - Len(d)]
    BY <1>9
  <2>3. \A i \in 1..Len(c) : i + Len(d) \in Len(d) + 1..Len(w) /\ w[i + Len(d)] = c[i]
    <3> SUFFICES ASSUME NEW i \in 1..Len(c)
                 PROVE  i + Len(d) \in Len(d) + 1..Len(w) /\ w[i + Len(d)] = c[i]
      OBVIOUS
    <3>1. i + Len(d) \in Len(d) + 1..Len(w) /\ (i + Len(d)) - Len(d) = i
      BY <1>9
    <3> QED
      BY <2>2, <3>1
  <2> QED
    BY <2>1, <2>2, <2>3
<1>11. \A i \in 1..Len(d) : \A s \in DOMAIN w[i] : s \in R /\ w[i][s] = "absent"
  <2> SUFFICES ASSUME NEW i \in 1..Len(d), NEW s \in DOMAIN w[i] PROVE s \in R /\ w[i][s] = "absent"
    OBVIOUS
  <2>1. w[i] = d[i]
    BY <1>10
  <2>2. s \in R /\ d[i][s] = gone[s]
    BY <1>5, <2>1
  <2>3. gone[s] = "absent"
    BY <1>2, <2>2
  <2> QED
    BY <2>1, <2>2, <2>3
<1>12. \A i \in Len(d) + 1..Len(w) : \A s \in DOMAIN w[i] : s \in Q /\ w[i][s] = desired[s]
  <2> SUFFICES ASSUME NEW i \in Len(d) + 1..Len(w), NEW s \in DOMAIN w[i]
               PROVE  s \in Q /\ w[i][s] = desired[s]
    OBVIOUS
  <2>1. i - Len(d) \in 1..Len(c) /\ w[i] = c[i - Len(d)]
    BY <1>10
  <2> QED
    BY <1>6, <2>1
<1>13. \A p \in R : \E i \in 1..Len(d) : p \in DOMAIN w[i]
  BY <1>5, <1>10
<1>14. \A p \in Q : \E i \in Len(d) + 1..Len(w) : p \in DOMAIN w[i]
  BY <1>6, <1>10
<1>15. Len(w) \in Nat /\ Len(d) <= Len(w)
  BY <1>9
<1> WITNESS Len(d) \in Nat
<1> QED
  BY <1>11, <1>12, <1>13, <1>14, <1>15 DEF R, Q

LEMMA ReconcileLeaves ==
  ASSUME NEW desired, NEW names, NEW w, w = reconcile_qos(desired, names)
  PROVE  /\ \A i \in 1..Len(w) : \A s \in DOMAIN w[i] : s \in Policies
         /\ \A p \in qos_names(desired) : Leaves(w, p, desired[p])
         /\ \A p \in Owned \ qos_names(desired) : Leaves(w, p, "absent")
<1>1. PICK n \in Nat :
        /\ Len(w) \in Nat /\ n <= Len(w)
        /\ \A i \in 1..n : \A s \in DOMAIN w[i] : s \in read_qos(names) /\ w[i][s] = "absent"
        /\ \A i \in n + 1..Len(w) : \A s \in DOMAIN w[i] :
             s \in qos_names(desired) /\ w[i][s] = desired[s]
        /\ \A p \in read_qos(names) : \E i \in 1..n : p \in DOMAIN w[i]
        /\ \A p \in qos_names(desired) : \E i \in n + 1..Len(w) : p \in DOMAIN w[i]
  BY ReconcileIsListed
<1>2. \A i \in 1..Len(w) : i \in 1..n \/ i \in n + 1..Len(w)
  BY <1>1
<1>3. \A i \in 1..Len(w) : \A s \in DOMAIN w[i] : s \in Policies
  <2>1. read_qos(names) \subseteq Policies /\ qos_names(desired) \subseteq Policies
    BY ReadAreOurs DEF qos_names
  <2> QED
    BY <1>1, <1>2, <2>1
<1>4. ASSUME NEW p \in qos_names(desired) PROVE Leaves(w, p, desired[p])
  <2>1. PICK i \in n + 1..Len(w) : p \in DOMAIN w[i]
    BY <1>1
  <2>2. i \in 1..Len(w) /\ \A j \in i..Len(w) : j \in n + 1..Len(w)
    BY <1>1, <2>1
  <2>3. \A j \in i..Len(w) : p \in DOMAIN w[j] => w[j][p] = desired[p]
    BY <1>1, <2>2
  <2> QED
    BY <2>1, <2>2, <2>3 DEF Leaves
<1>5. ASSUME NEW p \in Owned \ qos_names(desired) PROVE Leaves(w, p, "absent")
  <2>1. \A j \in 1..Len(w) : p \in DOMAIN w[j] => w[j][p] = "absent"
    BY <1>1, <1>2
  <2>2. CASE p \in read_qos(names)
    <3>1. PICK i \in 1..n : p \in DOMAIN w[i]
      BY <1>1, <2>2
    <3>2. i \in 1..Len(w) /\ \A j \in i..Len(w) : j \in 1..Len(w)
      BY <1>1, <3>1
    <3> QED
      BY <2>1, <3>1, <3>2 DEF Leaves
  <2>3. CASE p \notin read_qos(names)
    <3>1. machine[p] = "absent"
      BY <2>3 DEF read_qos, managed_qos_name, Present, Policies
    <3> QED
      BY <2>1, <3>1 DEF Leaves
  <2> QED
    BY <2>2, <2>3
<1> QED
  BY <1>3, <1>4, <1>5

LEMMA SettingsBelong ==
  /\ Of("profile") = "profile" /\ Of("nla") = "nla" /\ Of("saving") = "nic" /\ Of("power") = "power"
  /\ \A s \in Policies : Of(s) = "qos" /\ s \in Settings
  /\ \A s \in Rsc : Of(s) = "rsc" /\ s \in Settings
  /\ \A s \in Settings : Of(s) \in Components
  /\ \A s \in Settings : Of(s) = "qos" => s \in Policies
  /\ \A s \in Settings : Of(s) = "rsc" => s \in Rsc
  /\ \A s \in Settings : Of(s) = "nic" => s = "saving"
  /\ \A s \in Settings : Of(s) \in {"profile", "nla", "power"} => s = Of(s)
<1>1. Policies = {"port", "app", "legacy", "foreign"} /\ Rsc = {"rsc4", "rsc6"}
  BY DEF Policies, Owned, Legacy, Rsc
<1>2. Settings = {"profile", "nla", "saving", "power", "port", "app", "legacy", "foreign", "rsc4", "rsc6"}
  BY <1>1 DEF Settings
<1>3. Of("profile") = "profile" /\ Of("nla") = "nla" /\ Of("saving") = "nic" /\ Of("power") = "power"
  BY <1>1 DEF Of
<1>4. Of("port") = "qos" /\ Of("app") = "qos" /\ Of("legacy") = "qos" /\ Of("foreign") = "qos"
  BY <1>1 DEF Of
<1>5. Of("rsc4") = "rsc" /\ Of("rsc6") = "rsc"
  BY <1>1 DEF Of
<1>6. \A s \in Policies : Of(s) = "qos" /\ s \in Settings
  BY <1>1, <1>2, <1>4
<1>7. \A s \in Rsc : Of(s) = "rsc" /\ s \in Settings
  BY <1>1, <1>2, <1>5
<1>8. ASSUME NEW s \in Settings
      PROVE  /\ Of(s) \in Components
             /\ Of(s) = "qos" => s \in Policies
             /\ Of(s) = "rsc" => s \in Rsc
             /\ Of(s) = "nic" => s = "saving"
             /\ Of(s) \in {"profile", "nla", "power"} => s = Of(s)
  <2>1. CASE s \in Policies
    BY <1>6, <2>1 DEF Components
  <2>2. CASE s \in Rsc
    BY <1>7, <2>2 DEF Components
  <2>3. CASE s \in {"profile", "nla", "power"}
    BY <1>3, <2>3 DEF Components
  <2>4. CASE s = "saving"
    BY <1>3, <2>4 DEF Components
  <2> QED
    BY <1>1, <1>2, <2>1, <2>2, <2>3, <2>4
<1> QED
  BY <1>3, <1>6, <1>7, <1>8

(* A single write, or none. *)
LEMMA OneWriteLeaves ==
  ASSUME NEW s, NEW v, NEW w, w = << Only(s, v) >>
  PROVE  /\ \A i \in 1..Len(w) : \A t \in DOMAIN w[i] : t = s
         /\ Leaves(w, s, v)
<1>1. Len(w) = 1 /\ w[1] = Only(s, v)
  OBVIOUS
<1>2. DOMAIN w[1] = {s} /\ w[1][s] = v
  BY <1>1 DEF Only
<1>3. \A i \in 1..Len(w) : i = 1
  BY <1>1
<1>4. 1 \in 1..Len(w) /\ \A j \in 1..Len(w) : s \in DOMAIN w[j] => w[j][s] = v
  BY <1>1, <1>2, <1>3
<1>5. Leaves(w, s, v)
  BY <1>2, <1>4 DEF Leaves
<1> QED
  BY <1>2, <1>3, <1>5

LEMMA NoWriteLeaves ==
  ASSUME NEW w, w = <<>>
  PROVE  /\ \A i \in 1..Len(w) : \A t \in DOMAIN w[i] : FALSE
         /\ \A s, v : Leaves(w, s, v) <=> machine[s] = v
<1>1. Len(w) = 0
  OBVIOUS
<1>2. \A i \in 1..Len(w) : FALSE
  BY <1>1
<1> QED
  BY <1>2 DEF Leaves

(* restore_rsc: two calls at most. *)
LEMMA RscLeaves ==
  ASSUME \A s \in Rsc : bundle[s] \in Switch, NEW w, w = restore_rsc
  PROVE  /\ \A i \in 1..Len(w) : \A s \in DOMAIN w[i] : s \in Rsc
         /\ \A s \in Rsc : Leaves(w, s, bundle[s])
<1> DEFINE part(value) == {s \in Rsc : bundle[s] = value}
           each(value) == [s \in part(value) |-> value]
           call(value) == IF part(value) = {} THEN <<>> ELSE << each(value) >>
<1>1. w = call("on") \o call("off")
  BY DEF restore_rsc
<1>2. ASSUME NEW value \in Switch
      PROVE  /\ DOMAIN each(value) = part(value) /\ part(value) \subseteq Rsc
             /\ \A s \in part(value) : each(value)[s] = bundle[s]
  OBVIOUS
<1>3. "on" \in Switch /\ "off" \in Switch /\ \A s \in Rsc : s \in part("on") \/ s \in part("off")
  BY DEF Switch
<1> DEFINE on == each("on")
           off == each("off")
<1> DEFINE a == call("on")
           b == call("off")
<1>4. /\ a \in Seq({on, off}) /\ b \in Seq({on, off}) /\ Len(a) \in Nat /\ Len(b) \in Nat
      /\ part("on") # {} => Len(a) = 1 /\ a[1] = on
      /\ part("off") # {} => Len(b) = 1 /\ b[1] = off
  <2> HIDE DEF part, on, off
  <2>1. << on >> \in Seq({on, off}) /\ << off >> \in Seq({on, off}) /\ <<>> \in Seq({on, off})
    OBVIOUS
  <2>2. a = IF part("on") = {} THEN <<>> ELSE << on >>
    BY DEF on
  <2>3. b = IF part("off") = {} THEN <<>> ELSE << off >>
    BY DEF off
  <2> HIDE DEF a, b
  <2>4. a \in Seq({on, off}) /\ b \in Seq({on, off})
    BY <2>1, <2>2, <2>3
  <2>5. part("on") # {} => Len(a) = 1 /\ a[1] = on
    BY <2>2
  <2>6. part("off") # {} => Len(b) = 1 /\ b[1] = off
    BY <2>3
  <2> QED
    BY <2>4, <2>5, <2>6, LenProperties
<1>5. /\ \A i \in 1..Len(w) : w[i] = on \/ w[i] = off
      /\ part("on") # {} => \E i \in 1..Len(w) : w[i] = on
      /\ part("off") # {} => \E i \in 1..Len(w) : w[i] = off
      /\ Len(w) \in Nat
  <2>1. w = a \o b
    BY <1>1
  <2> HIDE DEF part, on, off, a, b
  <2>2. /\ w \in Seq({on, off}) /\ Len(w) = Len(a) + Len(b)
        /\ \A i \in 1..Len(a) + Len(b) : w[i] = IF i <= Len(a) THEN a[i] ELSE b[i - Len(a)]
    BY <1>4, <2>1, ConcatProperties
  <2>3. \A i \in 1..Len(w) : w[i] = on \/ w[i] = off
    BY <2>2
  <2>4. ASSUME part("on") # {} PROVE \E i \in 1..Len(w) : w[i] = on
    <3>1. 1 \in 1..Len(w) /\ w[1] = on
      BY <1>4, <2>2, <2>4
    <3> QED
      BY <3>1
  <2>5. ASSUME part("off") # {} PROVE \E i \in 1..Len(w) : w[i] = off
    <3>1. Len(a) + 1 \in 1..Len(w) /\ w[Len(a) + 1] = b[1]
      BY <1>4, <2>2, <2>5
    <3> QED
      BY <1>4, <2>5, <3>1
  <2>6. Len(w) \in Nat
    BY <1>4, <2>2
  <2> QED
    BY <2>3, <2>4, <2>5, <2>6
<1> HIDE DEF a, b
<1>6. \A i \in 1..Len(w) : \A s \in DOMAIN w[i] : s \in Rsc /\ w[i][s] = bundle[s]
  <2>1. \A s \in DOMAIN on : s \in Rsc /\ on[s] = bundle[s]
    BY <1>2, <1>3
  <2>2. \A s \in DOMAIN off : s \in Rsc /\ off[s] = bundle[s]
    BY <1>2, <1>3
  <2> HIDE DEF on, off
  <2> QED
    BY <1>5, <2>1, <2>2
<1>7. ASSUME NEW s \in Rsc PROVE \E i \in 1..Len(w) : s \in DOMAIN w[i]
  <2>1. CASE s \in part("on")
    <3>1. PICK i \in 1..Len(w) : w[i] = on
      BY <1>5, <2>1
    <3>2. s \in DOMAIN on
      BY <2>1
    <3> QED
      BY <3>1, <3>2
  <2>2. CASE s \in part("off")
    <3>1. PICK i \in 1..Len(w) : w[i] = off
      BY <1>5, <2>2
    <3>2. s \in DOMAIN off
      BY <2>2
    <3> QED
      BY <3>1, <3>2
  <2> QED
    BY <1>3, <2>1, <2>2
<1>8. ASSUME NEW s \in Rsc PROVE Leaves(w, s, bundle[s])
  <2>1. PICK i \in 1..Len(w) : s \in DOMAIN w[i]
    BY <1>7
  <2>2. \A j \in i..Len(w) : j \in 1..Len(w)
    BY <1>5
  <2>3. \A j \in i..Len(w) : s \in DOMAIN w[j] => w[j][s] = bundle[s]
    BY <1>6, <2>2
  <2> QED
    BY <2>1, <2>3 DEF Leaves
<1> QED
  BY <1>6, <1>8

LEMMA RestoreLeaves ==
  ASSUME Good(bundle), NEW c \in Components, Covered(c, bundle), NEW w, w = restore_component(c)
  PROVE  /\ \A i \in 1..Len(w) : \A s \in DOMAIN w[i] : Of(s) = c
         /\ \A s \in DOMAIN bundle : Of(s) = c => Leaves(w, s, bundle[s])
<1>1. DOMAIN bundle \subseteq Settings /\ "foreign" \notin DOMAIN bundle
      /\ \A p \in Legacy \cap DOMAIN bundle : bundle[p] # "absent"
  BY DEF Good
<1>2. CASE c = "qos"
  <2>1. w = reconcile_qos(bundle, qos_names(bundle))
    BY <1>2 DEF restore_component
  <2>2. /\ \A i \in 1..Len(w) : \A s \in DOMAIN w[i] : s \in Policies
        /\ \A p \in qos_names(bundle) : Leaves(w, p, bundle[p])
        /\ \A p \in Owned \ qos_names(bundle) : Leaves(w, p, "absent")
    BY <2>1, ReconcileLeaves
  <2>3. ASSUME NEW s \in DOMAIN bundle, Of(s) = c PROVE Leaves(w, s, bundle[s])
    <3>1. s \in Policies /\ s # "foreign"
      BY <1>1, <1>2, <2>3, SettingsBelong
    <3>2. CASE bundle[s] # "absent"
      <4>1. s \in qos_names(bundle)
        BY <3>1, <3>2 DEF qos_names
      <4> QED
        BY <2>2, <4>1
    <3>3. CASE bundle[s] = "absent"
      <4>1. s \in Owned \ qos_names(bundle)
        BY <1>1, <3>1, <3>3 DEF qos_names, Policies, Owned, Legacy
      <4> QED
        BY <2>2, <3>3, <4>1
    <3> QED
      BY <3>2, <3>3
  <2> QED
    BY <1>2, <2>2, <2>3, SettingsBelong
<1>3. CASE c = "nic"
  <2>1. w = restore_nic
    BY <1>3 DEF restore_component
  <2>2. \A s \in DOMAIN bundle : Of(s) = c => s = "saving"
    BY <1>1, <1>3, SettingsBelong
  <2>3. CASE machine["saving"] = bundle["saving"]
    <3>1. w = <<>>
      BY <2>1, <2>3 DEF restore_nic
    <3> QED
      BY <2>2, <2>3, <3>1, NoWriteLeaves
  <2>4. CASE machine["saving"] # bundle["saving"]
    <3>1. w = << Only("saving", bundle["saving"]) >>
      BY <2>1, <2>4 DEF restore_nic
    <3> QED
      BY <1>3, <2>2, <3>1, OneWriteLeaves, SettingsBelong
  <2> QED
    BY <2>3, <2>4
<1>4. CASE c = "rsc"
  <2>1. w = restore_rsc
    BY <1>4 DEF restore_component
  <2>2. Rsc \subseteq DOMAIN bundle
    BY <1>4 DEF Covered
  <2>3. \A s \in Rsc : bundle[s] \in Switch
    BY <2>2 DEF Good
  <2>4. /\ \A i \in 1..Len(w) : \A s \in DOMAIN w[i] : s \in Rsc
        /\ \A s \in Rsc : Leaves(w, s, bundle[s])
    BY <2>1, <2>3, RscLeaves
  <2>5. \A s \in DOMAIN bundle : Of(s) = c => s \in Rsc
    BY <1>1, <1>4, SettingsBelong
  <2> QED
    BY <1>4, <2>4, <2>5, SettingsBelong
<1>5. CASE c \in {"profile", "nla", "power"}
  <2>1. w = << Only(c, bundle[c]) >>
    BY <1>5 DEF restore_component, restore_registry, set_power_plan
  <2>2. \A s \in DOMAIN bundle : Of(s) = c => s = c
    BY <1>1, <1>5, SettingsBelong
  <2>3. Of(c) = c
    BY <1>5, SettingsBelong
  <2> QED
    BY <2>1, <2>2, <2>3, OneWriteLeaves
<1> QED
  BY <1>2, <1>3, <1>4, <1>5 DEF Components

(* What Apply writes of the settings it is to write. *)
LEMMA ApplyLeaves ==
  ASSUME mode = "apply", NEW c \in {"nla", "qos", "nic", "power"}, NEW w, w = apply_component(c),
         bundle = folder
  PROVE  /\ \A i \in 1..Len(w) : \A s \in DOMAIN w[i] : Of(s) = c
         /\ c = "qos" => \A s \in Owned : Leaves(w, s, Aim(s))
         /\ c = "power" => Leaves(w, "power", "high")
         /\ c = "nla" /\ Covered("nla", bundle) => Leaves(w, "nla", "1")
         /\ c = "nic" /\ up /\ Covered("nic", bundle) => Leaves(w, "saving", "0")
<1>1. CASE c = "nla"
  <2>1. CASE Covered("nla", bundle)
    <3>1. w = << Only("nla", "1") >>
      BY <1>1, <2>1 DEF apply_component
    <3> QED
      BY <1>1, <3>1, OneWriteLeaves, SettingsBelong
  <2>2. CASE ~Covered("nla", bundle)
    <3>1. w = <<>>
      BY <1>1, <2>2 DEF apply_component
    <3> QED
      BY <1>1, <2>2, <3>1, NoWriteLeaves
  <2> QED
    BY <2>1, <2>2
<1>2. CASE c = "qos"
  <2>1. w = reconcile_qos(desired_qos, {})
    BY <1>2 DEF apply_component
  <2>2. /\ \A i \in 1..Len(w) : \A s \in DOMAIN w[i] : s \in Policies
        /\ \A p \in qos_names(desired_qos) : Leaves(w, p, desired_qos[p])
        /\ \A p \in Owned \ qos_names(desired_qos) : Leaves(w, p, "absent")
    BY <2>1, ReconcileLeaves
  <2>3. DOMAIN desired_qos = {"port"} /\ desired_qos["port"] = "new"
    BY DEF desired_qos
  <2>4. qos_names(desired_qos) = {"port"}
    BY <2>3 DEF qos_names, Policies, Owned
  <2>5. Leaves(w, "port", "new") /\ Leaves(w, "app", "absent")
    BY <2>2, <2>3, <2>4 DEF Owned
  <2>6. Aim("port") = "new" /\ Aim("app") = "absent"
    BY DEF Aim
  <2>7. \A s \in Owned : Leaves(w, s, Aim(s))
    BY <2>5, <2>6 DEF Owned
  <2> QED
    BY <1>2, <2>2, <2>7, SettingsBelong
<1>3. CASE c = "nic"
  <2>1. CASE up /\ "saving" \in DOMAIN bundle
    <3>1. w = << Only("saving", "0") >>
      BY <1>3, <2>1 DEF apply_component, disable_nic_power_saving
    <3> QED
      BY <1>3, <3>1, OneWriteLeaves, SettingsBelong
  <2>2. CASE ~(up /\ "saving" \in DOMAIN bundle)
    <3>1. w = <<>>
      BY <1>3, <2>2 DEF apply_component, disable_nic_power_saving
    <3>2. ~(up /\ Covered("nic", bundle))
      BY <2>2 DEF Covered
    <3> QED
      BY <1>3, <3>1, <3>2, NoWriteLeaves
  <2> QED
    BY <2>1, <2>2
<1>4. CASE c = "power"
  <2>1. w = << Only("power", "high") >>
    BY <1>4 DEF apply_component, set_power_plan
  <2> QED
    BY <1>4, <2>1, OneWriteLeaves, SettingsBelong
<1> QED
  BY <1>1, <1>2, <1>3, <1>4

(* The first write of some takes its place. *)
LEMMA LeavesNext ==
  ASSUME NEW S, writes \in Seq(S), writes # <<>>, NEW s \in DOMAIN machine, NEW v,
         machine' = Over(machine, Head(writes)), writes' = Tail(writes), Leaves(writes, s, v)
  PROVE  \/ machine'[s] = v /\ \A i \in 1..Len(writes') : s \in DOMAIN writes'[i] => writes'[i][s] = v
         \/ \E i \in 1..Len(writes') : /\ s \in DOMAIN writes'[i]
                                       /\ \A j \in i..Len(writes') : s \in DOMAIN writes'[j] => writes'[j][s] = v
<1>1. /\ Len(writes) \in Nat \ {0} /\ Len(writes') = Len(writes) - 1 /\ Head(writes) = writes[1]
      /\ \A i \in 1..Len(writes') : i + 1 \in 1..Len(writes) /\ writes'[i] = writes[i + 1]
  OBVIOUS
<1>2. machine'[s] = IF s \in DOMAIN writes[1] THEN writes[1][s] ELSE machine[s]
  BY <1>1 DEF Over
<1>3. CASE machine[s] = v /\ \A i \in 1..Len(writes) : s \in DOMAIN writes[i] => writes[i][s] = v
  <2>1. \A i \in 1..Len(writes') : s \in DOMAIN writes'[i] => writes'[i][s] = v
    BY <1>1, <1>3
  <2>2. 1 \in 1..Len(writes)
    BY <1>1
  <2>3. machine'[s] = v
    BY <1>2, <1>3, <2>2
  <2> QED
    BY <2>1, <2>3
<1>4. ASSUME NEW i \in 1..Len(writes), s \in DOMAIN writes[i],
             \A j \in i..Len(writes) : s \in DOMAIN writes[j] => writes[j][s] = v
      PROVE  \/ machine'[s] = v /\ \A k \in 1..Len(writes') : s \in DOMAIN writes'[k] => writes'[k][s] = v
             \/ \E k \in 1..Len(writes') : /\ s \in DOMAIN writes'[k]
                                           /\ \A j \in k..Len(writes') : s \in DOMAIN writes'[j] => writes'[j][s] = v
  <2>1. \A j \in 1..Len(writes') : j + 1 \in i..Len(writes) /\ s \in DOMAIN writes'[j] => writes'[j][s] = v
    BY <1>1, <1>4
  <2>2. CASE i = 1
    <3>1. machine'[s] = v
      BY <1>1, <1>2, <1>4, <2>2
    <3>2. \A j \in 1..Len(writes') : j + 1 \in i..Len(writes)
      BY <1>1, <2>2
    <3> QED
      BY <2>1, <3>1, <3>2
  <2>3. CASE i # 1
    <3>1. i - 1 \in 1..Len(writes') /\ writes'[i - 1] = writes[(i - 1) + 1] /\ (i - 1) + 1 = i
      BY <1>1, <1>4, <2>3
    <3>2. \A j \in i - 1..Len(writes') : j \in 1..Len(writes') /\ j + 1 \in i..Len(writes)
      BY <1>1, <1>4, <2>3
    <3>3. \A j \in i - 1..Len(writes') : s \in DOMAIN writes'[j] => writes'[j][s] = v
      BY <2>1, <3>2
    <3>4. s \in DOMAIN writes'[i - 1]
      BY <1>4, <3>1
    <3> QED
      BY <3>1, <3>3, <3>4
  <2> QED
    BY <2>2, <2>3
<1> QED
  BY <1>3, <1>4 DEF Leaves

----------------------------------------------------------------------------
(* What is due at first. *)

LEMMA OccursJoined ==
  ASSUME NEW S, NEW a \in Seq(S), NEW b \in Seq(S), NEW c
  PROVE  Occurs(c, a \o b) <=> Occurs(c, a) \/ Occurs(c, b)
<1> DEFINE w == a \o b
<1>1. /\ Len(a) \in Nat /\ Len(b) \in Nat /\ Len(w) = Len(a) + Len(b)
      /\ \A i \in 1..Len(a) + Len(b) : w[i] = IF i <= Len(a) THEN a[i] ELSE b[i - Len(a)]
  BY ConcatProperties, LenProperties
<1> HIDE DEF w
<1>2. ASSUME Occurs(c, a) PROVE Occurs(c, w)
  <2>1. PICK i \in 1..Len(a) : a[i] = c
    BY <1>2 DEF Occurs
  <2>2. i \in 1..Len(w) /\ w[i] = c
    BY <1>1, <2>1
  <2> QED
    BY <2>2 DEF Occurs
<1>3. ASSUME Occurs(c, b) PROVE Occurs(c, w)
  <2>1. PICK i \in 1..Len(b) : b[i] = c
    BY <1>3 DEF Occurs
  <2>2. Len(a) + i \in 1..Len(w) /\ w[Len(a) + i] = c
    BY <1>1, <2>1
  <2> QED
    BY <2>2 DEF Occurs
<1>4. ASSUME Occurs(c, w) PROVE Occurs(c, a) \/ Occurs(c, b)
  <2>1. PICK i \in 1..Len(w) : w[i] = c
    BY <1>4 DEF Occurs
  <2>2. CASE i <= Len(a)
    <3>1. i \in 1..Len(a) /\ a[i] = c
      BY <1>1, <2>1, <2>2
    <3> QED
      BY <3>1 DEF Occurs
  <2>3. CASE ~(i <= Len(a))
    <3>1. i - Len(a) \in 1..Len(b) /\ b[i - Len(a)] = c
      BY <1>1, <2>1, <2>3
    <3> QED
      BY <3>1 DEF Occurs
  <2> QED
    BY <2>2, <2>3
<1> QED
  BY <1>2, <1>3, <1>4 DEF w

LEMMA StagedOccurs ==
  ASSUME NEW b, NEW c \in Components, Covered(c, b)
  PROVE  Occurs(c, restore_staged(b))
<1> DEFINE part(x) == IF Covered(x, b) THEN <<x>> ELSE <<>>
           S == Due(b)
<1>1. \A x \in Components : part(x) \in Seq(S)
  BY PartIsDue
<1>2. restore_staged(b) =
        part("profile") \o part("nla") \o part("qos") \o part("nic") \o part("rsc") \o part("power")
  BY DEF restore_staged
<1>3. Occurs(c, part(c))
  <2>1. part(c) = <<c>>
    OBVIOUS
  <2>2. Len(<<c>>) = 1 /\ <<c>>[1] = c
    OBVIOUS
  <2> QED
    BY <2>1, <2>2 DEF Occurs
<1> DEFINE two == part("profile") \o part("nla")
           three == two \o part("qos")
           four == three \o part("nic")
           five == four \o part("rsc")
           six == five \o part("power")
<1> HIDE DEF part, S
<1>4. two \in Seq(S) /\ (Occurs(c, two) <=> Occurs(c, part("profile")) \/ Occurs(c, part("nla")))
  BY <1>1, ComponentsAreTold, Joined, OccursJoined
<1> HIDE DEF two
<1>5. three \in Seq(S) /\ (Occurs(c, three) <=> Occurs(c, two) \/ Occurs(c, part("qos")))
  BY <1>1, <1>4, ComponentsAreTold, Joined, OccursJoined
<1> HIDE DEF three
<1>6. four \in Seq(S) /\ (Occurs(c, four) <=> Occurs(c, three) \/ Occurs(c, part("nic")))
  BY <1>1, <1>5, ComponentsAreTold, Joined, OccursJoined
<1> HIDE DEF four
<1>7. five \in Seq(S) /\ (Occurs(c, five) <=> Occurs(c, four) \/ Occurs(c, part("rsc")))
  BY <1>1, <1>6, ComponentsAreTold, Joined, OccursJoined
<1> HIDE DEF five
<1>8. Occurs(c, six) <=> Occurs(c, five) \/ Occurs(c, part("power"))
  BY <1>1, <1>7, ComponentsAreTold, OccursJoined
<1>9. restore_staged(b) = six
  BY <1>2 DEF two, three, four, five
<1> HIDE DEF six
<1> QED
  BY <1>3, <1>4, <1>5, <1>6, <1>7, <1>8, <1>9 DEF Components

(* Every setting that a bundle covers is among the components it covers. *)
LEMMA BundleIsStaged ==
  ASSUME NEW b, Good(b), NEW s \in DOMAIN b
  PROVE  Occurs(Of(s), restore_staged(b))
<1>1. s \in Settings /\ (s \in Rsc => Rsc \subseteq DOMAIN b)
  BY DEF Good
<1>2. Of(s) \in Components
  BY <1>1, SettingsBelong
<1>3. Covered(Of(s), b)
  <2>1. CASE Of(s) = "nla"
    <3>1. s = "nla"
      BY <1>1, <2>1, SettingsBelong
    <3> QED
      BY <3>1, <2>1 DEF Covered
  <2>2. CASE Of(s) = "nic"
    <3>1. s = "saving"
      BY <1>1, <2>2, SettingsBelong
    <3> QED
      BY <3>1, <2>2 DEF Covered
  <2>3. CASE Of(s) = "rsc"
    <3>1. s \in Rsc
      BY <1>1, <2>3, SettingsBelong
    <3> QED
      BY <1>1, <3>1, <2>3 DEF Covered
  <2>4. CASE Of(s) \notin {"nla", "nic", "rsc"}
    BY <2>4 DEF Covered
  <2> QED
    BY <2>1, <2>2, <2>3, <2>4
<1> QED
  BY <1>2, <1>3, StagedOccurs

LEMMA MutationsOccur ==
  /\ Occurs("nla", apply_mutations) /\ Occurs("qos", apply_mutations)
  /\ config.measured => Occurs("nic", apply_mutations) /\ Occurs("power", apply_mutations)
<1> DEFINE K == {"nla", "qos", "nic", "power"}
           a == <<"nla", "qos">>
           b == IF config.measured THEN <<"nic", "power">> ELSE <<>>
<1>1. a \in Seq(K) /\ b \in Seq(K) /\ apply_mutations = a \o b
  <2>1. a \in Seq(K)
    OBVIOUS
  <2>2. <<"nic", "power">> \in Seq(K) /\ <<>> \in Seq(K)
    OBVIOUS
  <2>3. b \in Seq(K)
    BY <2>2
  <2>4. apply_mutations = a \o b
    BY DEF apply_mutations
  <2> QED
    BY <2>1, <2>3, <2>4
<1>2. Occurs("nla", a) /\ Occurs("qos", a)
  <2>1. Len(a) = 2 /\ a[1] = "nla" /\ a[2] = "qos"
    OBVIOUS
  <2> QED
    BY <2>1 DEF Occurs
<1>3. config.measured => Occurs("nic", b) /\ Occurs("power", b)
  <2>1. config.measured => Len(b) = 2 /\ b[1] = "nic" /\ b[2] = "power"
    OBVIOUS
  <2> QED
    BY <2>1 DEF Occurs
<1> HIDE DEF a, b
<1> QED
  BY <1>1, <1>2, <1>3, OccursJoined

----------------------------------------------------------------------------
(* Each step keeps to what is aimed at. *)

LEMMA AimedAreSettings ==
  ASSUME mode # "apply" => Good(bundle)
  PROVE  Aimed \subseteq Settings
<1>1. CASE mode # "apply"
  BY <1>1 DEF Aimed, Good
<1>2. CASE mode = "apply"
  BY <1>2 DEF Aimed, Settings, Policies
<1> QED
  BY <1>1, <1>2

LEMMA AimIsKept ==
  ASSUME UNCHANGED <<mode, bundle, up, config>>
  PROVE  /\ \A s : Aim(s)' = Aim(s)
         /\ skipped' = skipped => Aimed' = Aimed
         /\ skipped \subseteq skipped' => Aimed' \subseteq Aimed
BY DEF Aim, Aimed

(* Where nothing is aimed at. *)
LEMMA NoAim ==
  ASSUME at' \notin {"component", "writing"}
  PROVE  Aims'
BY DEF Aims, Aiming, WritesAim, ApplyKeeps

LEMMA BeginAims ==
  ASSUME Begin, machine = before, mode # "apply" => Good(bundle)
  PROVE  Aims'
<1>1. /\ at' = "component" /\ work' = IF mode = "apply" THEN apply_mutations ELSE restore_staged(bundle)
      /\ UNCHANGED <<machine, before, mode, bundle, up, config>>
  BY DEF Begin, ghosts, Keep
<1>2. Aiming'
  <2>1. CASE mode = "apply"
    <3>1. work' = apply_mutations
      BY <1>1, <2>1
    <3>2. Occurs("nla", work') /\ Occurs("qos", work')
          /\ (config.measured => Occurs("nic", work') /\ Occurs("power", work'))
      BY <3>1, MutationsOccur
    <3>3. ASSUME NEW s \in Aimed' PROVE Occurs(Of(s), work')
      <4>1. \/ s \in Owned \/ s = "nla"
            \/ config.measured /\ s \in {"power", "saving"}
        BY <1>1, <2>1, <3>3 DEF Aimed
      <4>2. s \in Owned => Of(s) = "qos"
        BY SettingsBelong DEF Policies
      <4> QED
        BY <3>2, <4>1, <4>2, SettingsBelong
    <3> QED
      BY <3>3 DEF Aiming, IsDue
  <2>2. CASE mode # "apply"
    <3>1. work' = restore_staged(bundle) /\ Aimed' = DOMAIN bundle
      BY <1>1, <2>2 DEF Aimed
    <3>2. \A s \in Aimed' : Occurs(Of(s), work')
      BY <2>2, <3>1, BundleIsStaged
    <3> QED
      BY <3>2 DEF Aiming, IsDue
  <2> QED
    BY <2>1, <2>2
<1>3. WritesAim'
  BY <1>1 DEF WritesAim
<1>4. ApplyKeeps'
  BY <1>1 DEF ApplyKeeps, SameOn
<1> QED
  BY <1>2, <1>3, <1>4 DEF Aims

LEMMA OpenAims ==
  ASSUME TuningInv, Aims, open_component
  PROVE  Aims'
<1>1. /\ at = "component" /\ work # <<>> /\ at' = "writing"
      /\ UNCHANGED <<machine, before, mode, bundle, up, config, work>>
      /\ skipped' = IF mode = "apply" /\ ~Covered(Head(work), bundle) THEN skipped \cup {Head(work)} ELSE skipped
  BY DEF open_component, ghosts, Keep
<1>2. writes' = IF mode = "apply" THEN apply_component(Head(work)) ELSE restore_component(Head(work))
  BY DEF open_component
<1>3. (\A s : Aim(s)' = Aim(s)) /\ Aimed' \subseteq Aimed
  BY <1>1, AimIsKept
<1>4. Aiming'
  BY <1>1, <1>3 DEF Aims, Aiming, IsDue
<1>5. ApplyKeeps'
  BY <1>1 DEF Aims, ApplyKeeps, SameOn
<1> DEFINE c == Head(work)
<1>6. /\ Mutating /\ Good(bundle) /\ c \in Components /\ (mode = "apply" => bundle = folder)
      /\ IF mode = "apply" THEN c \in {"nla", "qos", "nic", "power"} ELSE Covered(c, bundle)
  <2>1. Mutating
    BY <1>1 DEF Mutating
  <2>2. Good(bundle) /\ (mode = "apply" => bundle = folder)
    BY <2>1 DEF TuningInv, BundlesAreGood
  <2> QED
    BY <1>1, <2>1, <2>2, HeadIsCovered
<1> HIDE DEF c
<1>7. /\ \A i \in 1..Len(writes') : \A s \in DOMAIN writes'[i] : Of(s) = c
      /\ \A s \in Aimed' : Of(s) = c => Leaves(writes', s, Aim(s))
  <2>1. CASE mode # "apply"
    <3>1. writes' = restore_component(c)
      BY <1>2, <2>1 DEF c
    <3>2. /\ \A i \in 1..Len(writes') : \A s \in DOMAIN writes'[i] : Of(s) = c
          /\ \A s \in DOMAIN bundle : Of(s) = c => Leaves(writes', s, bundle[s])
      BY <1>6, <2>1, <3>1, RestoreLeaves
    <3>3. Aimed' = DOMAIN bundle /\ \A s : Aim(s) = bundle[s]
      BY <1>1, <2>1 DEF Aimed, Aim
    <3> QED
      BY <3>2, <3>3
  <2>2. CASE mode = "apply"
    <3>1. writes' = apply_component(c)
      BY <1>2, <2>2 DEF c
    <3>2. /\ \A i \in 1..Len(writes') : \A s \in DOMAIN writes'[i] : Of(s) = c
          /\ c = "qos" => \A s \in Owned : Leaves(writes', s, Aim(s))
          /\ c = "power" => Leaves(writes', "power", "high")
          /\ c = "nla" /\ Covered("nla", bundle) => Leaves(writes', "nla", "1")
          /\ c = "nic" /\ up /\ Covered("nic", bundle) => Leaves(writes', "saving", "0")
      BY <1>6, <2>2, <3>1, ApplyLeaves
    <3>3. ASSUME NEW s \in Aimed', Of(s) = c PROVE Leaves(writes', s, Aim(s))
      <4>1. \/ s \in Owned \/ (s = "nla" /\ "nla" \notin skipped')
            \/ s = "power" \/ (s = "saving" /\ up /\ "nic" \notin skipped')
        BY <1>1, <2>2, <3>3 DEF Aimed
      <4>2. Covered(c, bundle) \/ c \in skipped'
        BY <1>1, <2>2 DEF c
      <4>3. CASE s \in Owned
        <5>1. c = "qos"
          BY <3>3, <4>3, SettingsBelong DEF Policies
        <5> QED
          BY <3>2, <4>3, <5>1
      <4>4. CASE s = "nla" /\ "nla" \notin skipped'
        <5>1. c = "nla" /\ Aim(s) = "1"
          BY <2>2, <3>3, <4>4, SettingsBelong DEF Aim
        <5> QED
          BY <3>2, <4>2, <4>4, <5>1
      <4>5. CASE s = "power"
        <5>1. c = "power" /\ Aim(s) = "high"
          BY <2>2, <3>3, <4>5, SettingsBelong DEF Aim
        <5> QED
          BY <3>2, <4>5, <5>1
      <4>6. CASE s = "saving" /\ up /\ "nic" \notin skipped'
        <5>1. c = "nic" /\ Aim(s) = "0"
          BY <2>2, <3>3, <4>6, SettingsBelong DEF Aim
        <5> QED
          BY <3>2, <4>2, <4>6, <5>1
      <4> QED
        BY <4>1, <4>3, <4>4, <4>5, <4>6
    <3> QED
      BY <3>2, <3>3
  <2> QED
    BY <2>1, <2>2
<1>8. WritesAim'
  <2>1. \A s \in Aimed' : Of(s) = c => (Leaves(writes, s, Aim(s)))'
    BY <1>1, <1>3, <1>7 DEF Leaves
  <2> QED
    BY <1>1, <1>7, <2>1 DEF WritesAim, c
<1> QED
  BY <1>4, <1>5, <1>8 DEF Aims

LEMMA WriteAims ==
  ASSUME TuningInv, Aims, write
  PROVE  Aims'
<1>1. /\ at = "writing" /\ at' = "writing" /\ writes # <<>>
      /\ machine' = Over(machine, Head(writes)) /\ writes' = Tail(writes)
      /\ UNCHANGED <<before, mode, bundle, up, config, work, skipped>>
  BY DEF write
<1>2. Mutating /\ writes \in Seq(Allowed) /\ work # <<>>
  BY <1>1 DEF TuningInv, WritesAreAllowed, Mutating
<1>3. /\ Good(bundle) /\ work \in Seq(Components) /\ DOMAIN machine = Settings
      /\ Aimed \subseteq Settings
  <2>1. Good(bundle) /\ work \in Seq(Components)
    BY <1>2 DEF TuningInv, BundlesAreGood
  <2> QED
    BY <2>1, AimedAreSettings DEF TuningInv, Ranges
<1>4. (\A s : Aim(s)' = Aim(s)) /\ Aimed' = Aimed
  BY <1>1, AimIsKept
<1>5. /\ \A i \in 1..Len(writes) : \A s \in DOMAIN writes[i] : Of(s) = Head(work)
      /\ \A s \in Aimed : Of(s) = Head(work) => Leaves(writes, s, Aim(s))
  BY <1>1 DEF Aims, WritesAim
<1>6. /\ Len(writes) \in Nat \ {0} /\ Head(writes) = writes[1]
      /\ \A i \in 1..Len(writes') : i + 1 \in 1..Len(writes) /\ writes'[i] = writes[i + 1]
  BY <1>1, <1>2
<1>7. \A s \in Settings : Of(s) # Head(work) => machine'[s] = machine[s]
  <2>1. 1 \in 1..Len(writes)
    BY <1>6
  <2>2. \A s \in DOMAIN Head(writes) : Of(s) = Head(work)
    BY <1>5, <1>6, <2>1
  <2> QED
    BY <1>1, <1>3, <2>2 DEF Over
<1>8. IsDue(Head(work))
  <2>1. 1 \in 1..Len(work) /\ work[1] = Head(work)
    BY <1>2, <1>3
  <2> QED
    BY <2>1 DEF IsDue, Occurs
<1>9. Aiming'
  <2>1. \A c : IsDue(c)' <=> IsDue(c)
    BY <1>1 DEF IsDue
  <2>2. \A s \in Aimed : IsDue(Of(s)) \/ machine[s] = Aim(s)
    BY <1>1 DEF Aims, Aiming
  <2>3. \A s \in Aimed : IsDue(Of(s)) \/ machine'[s] = Aim(s)
    BY <1>3, <1>7, <1>8, <2>2
  <2> QED
    BY <1>4, <2>1, <2>3 DEF Aiming
<1>10. WritesAim'
  <2>1. \A i \in 1..Len(writes') : \A s \in DOMAIN writes'[i] : Of(s) = Head(work)
    BY <1>5, <1>6
  <2>2. ASSUME NEW s \in Aimed, Of(s) = Head(work) PROVE (Leaves(writes, s, Aim(s)))'
    <3>1. Leaves(writes, s, Aim(s)) /\ s \in DOMAIN machine
      BY <1>3, <1>5, <2>2
    <3> DEFINE v == Aim(s)
    <3>2. v' = v
      BY <1>4
    <3> HIDE DEF v
    <3>3. \/ machine'[s] = v /\ \A i \in 1..Len(writes') : s \in DOMAIN writes'[i] => writes'[i][s] = v
          \/ \E i \in 1..Len(writes') : /\ s \in DOMAIN writes'[i]
                                        /\ \A j \in i..Len(writes') : s \in DOMAIN writes'[j] => writes'[j][s] = v
      BY <1>1, <1>2, <3>1, LeavesNext DEF v
    <3>4. (Leaves(writes, s, v))'
      BY <3>2, <3>3 DEF Leaves
    <3> QED
      BY <3>4 DEF v
  <2> QED
    BY <1>1, <1>4, <2>1, <2>2 DEF WritesAim
<1>11. ApplyKeeps'
  <2> SUFFICES ASSUME mode = "apply" PROVE SameOn({"profile"} \cup Rsc \cup Legacy, machine', before')
    BY <1>1 DEF ApplyKeeps, SameOn
  <2>1. SameOn({"profile"} \cup Rsc \cup Legacy, machine, before)
    BY <1>1 DEF Aims, ApplyKeeps
  <2>2. Head(work) \in {"nla", "qos", "nic", "power"}
    BY <1>2, HeadIsCovered
  <2>3. \A s \in {"profile"} \cup Rsc : s \in Settings /\ Of(s) # Head(work)
    BY <2>2, SettingsBelong DEF Settings
  <2>4. \A s \in Settings : machine'[s] # machine[s] => (s \in Policies => Ours(s))
    BY WritingStep
  <2>5. \A s \in Legacy : s \in Settings /\ s \in Policies /\ ~Ours(s)
    BY DEF Settings, Policies, Legacy, Owned, Ours
  <2> QED
    BY <1>1, <1>7, <2>1, <2>3, <2>4, <2>5 DEF SameOn
<1> QED
  BY <1>9, <1>10, <1>11 DEF Aims

LEMMA DoneAims ==
  ASSUME TuningInv, Aims, component_done
  PROVE  Aims'
<1>1. /\ at = "writing" /\ at' = "component" /\ writes = <<>> /\ work' = Tail(work)
      /\ UNCHANGED <<machine, before, mode, bundle, up, config, skipped>>
  BY DEF component_done, Writing, ghosts, Keep
<1>2. Mutating /\ work # <<>> /\ work \in Seq(Components)
  BY <1>1 DEF TuningInv, WritesAreAllowed, BundlesAreGood, Mutating
<1>3. (\A s : Aim(s)' = Aim(s)) /\ Aimed' = Aimed
  BY <1>1, AimIsKept
<1>4. Aiming'
  <2> SUFFICES ASSUME NEW s \in Aimed PROVE IsDue(Of(s))' \/ machine'[s] = Aim(s)
    BY <1>3 DEF Aiming
  <2>1. CASE Of(s) = Head(work)
    <3>1. Leaves(writes, s, Aim(s))
      BY <1>1, <2>1 DEF Aims, WritesAim
    <3>2. machine[s] = Aim(s)
      BY <1>1, <3>1, NoWriteLeaves
    <3> QED
      BY <1>1, <3>2
  <2>2. CASE Of(s) # Head(work)
    <3>1. IsDue(Of(s)) \/ machine[s] = Aim(s)
      BY <1>1 DEF Aims, Aiming
    <3>2. ASSUME IsDue(Of(s)) PROVE IsDue(Of(s))'
      <4>1. PICK i \in 1..Len(work) : work[i] = Of(s)
        BY <3>2 DEF IsDue, Occurs
      <4>2. i # 1 /\ Len(work) \in Nat /\ Len(Tail(work)) = Len(work) - 1
        BY <1>2, <2>2, <4>1
      <4>3. i - 1 \in 1..Len(Tail(work)) /\ Tail(work)[i - 1] = work[i]
        BY <1>2, <4>1, <4>2
      <4> QED
        BY <1>1, <4>1, <4>3 DEF IsDue, Occurs
    <3> QED
      BY <1>1, <3>1, <3>2
  <2> QED
    BY <2>1, <2>2
<1>5. WritesAim'
  BY <1>1 DEF WritesAim
<1>6. ApplyKeeps'
  BY <1>1 DEF Aims, ApplyKeeps, SameOn
<1> QED
  BY <1>4, <1>5, <1>6 DEF Aims

LEMMA FailsAims ==
  ASSUME TuningInv, Mutating, Fails
  PROVE  Aims'
<1>1. \/ at' = "idle"
      \/ at' = "component" /\ mode' = "rollback" /\ bundle' = source /\ work' = restore_staged(source)
  BY DEF Fails, End
<1>2. CASE at' = "idle"
  BY <1>2, NoAim
<1>3. CASE at' = "component" /\ mode' = "rollback" /\ bundle' = source /\ work' = restore_staged(source)
  <2>1. Good(source)
    BY DEF TuningInv, BundlesAreGood
  <2>2. Aimed' = DOMAIN source
    BY <1>3 DEF Aimed
  <2>3. \A s \in Aimed' : Occurs(Of(s), work')
    BY <1>3, <2>1, <2>2, BundleIsStaged
  <2>4. Aiming'
    BY <2>3 DEF Aiming, IsDue
  <2> QED
    BY <1>3, <2>4 DEF Aims, WritesAim, ApplyKeeps
<1> QED
  BY <1>1, <1>2, <1>3

LEMMA StillAims ==
  ASSUME Aims, UNCHANGED <<machine, before, at, mode, bundle, up, config, work, writes, skipped>>
  PROVE  Aims'
<1>1. (\A s : Aim(s)' = Aim(s)) /\ Aimed' = Aimed
  BY AimIsKept
<1>2. Aiming'
  BY <1>1 DEF Aims, Aiming, IsDue
<1>3. WritesAim'
  <2>1. \A s : (Leaves(writes, s, Aim(s)))' <=> Leaves(writes, s, Aim(s))
    BY <1>1 DEF Leaves
  <2> QED
    BY <1>1, <2>1 DEF Aims, WritesAim
<1>4. ApplyKeeps'
  BY DEF Aims, ApplyKeeps, SameOn
<1> QED
  BY <1>2, <1>3, <1>4 DEF Aims

----------------------------------------------------------------------------
(* How an operation ends. *)

LEMMA AtTheEnd ==
  ASSUME TuningInv, Aims, finish
  PROVE  ResultIsTrue'
<1>1. /\ at = "component" /\ work = <<>>
      /\ UNCHANGED <<machine, before, mode, bundle, source, up, config, skipped>>
      /\ \/ mode = "apply" /\ result' = "applied"
         \/ mode = "restore" /\ result' \in {"error", "restored"}
         \/ mode = "rollback" /\ result' = "rolled back"
  BY DEF finish, End, progress, ghosts, Keep
<1>2. \A c : ~IsDue(c)
  <2>1. Len(work) = 0
    BY <1>1
  <2> QED
    BY <2>1 DEF IsDue, Occurs
<1>3. \A s \in Aimed : machine[s] = Aim(s)
  BY <1>1, <1>2 DEF Aims, Aiming
<1>4. CASE mode = "apply"
  <2>1. result' = "applied"
    BY <1>1, <1>4
  <2>2. SameOn({"profile"} \cup Rsc \cup Legacy, machine, before)
    BY <1>1, <1>4 DEF Aims, ApplyKeeps
  <2>3. machine["port"] = "new" /\ machine["app"] = "absent"
    <3>1. "port" \in Aimed /\ "app" \in Aimed
      BY <1>4 DEF Aimed, Owned
    <3>2. Aim("port") = "new" /\ Aim("app") = "absent"
      BY <1>4 DEF Aim
    <3> QED
      BY <1>3, <3>1, <3>2
  <2>4. machine["nla"] = "1" \/ "nla" \in skipped
    <3> SUFFICES ASSUME "nla" \notin skipped PROVE machine["nla"] = "1"
      OBVIOUS
    <3>1. "nla" \in Aimed /\ Aim("nla") = "1"
      BY <1>4 DEF Aimed, Aim
    <3> QED
      BY <1>3, <3>1
  <2>5. config.measured => /\ machine["power"] = "high"
                           /\ machine["saving"] = "0" \/ "nic" \in skipped \/ ~up
    <3> SUFFICES ASSUME config.measured
                 PROVE  /\ machine["power"] = "high"
                        /\ machine["saving"] = "0" \/ "nic" \in skipped \/ ~up
      OBVIOUS
    <3>1. "power" \in Aimed /\ Aim("power") = "high"
      BY <1>4 DEF Aimed, Aim
    <3>2. ("nic" \notin skipped /\ up) => "saving" \in Aimed
      BY <1>4 DEF Aimed
    <3>3. Aim("saving") = "0"
      BY <1>4 DEF Aim
    <3> QED
      BY <1>3, <3>1, <3>2, <3>3
  <2>6. \A p \in Owned : machine[p] = IF p \in DOMAIN desired_qos THEN desired_qos[p] ELSE "absent"
    <3>1. DOMAIN desired_qos = {"port"} /\ desired_qos["port"] = "new"
      BY DEF desired_qos
    <3> QED
      BY <2>3, <3>1 DEF Owned
  <2>7. evaluate \/ "nla" \in skipped
    BY <2>3, <2>4 DEF evaluate
  <2>8. /\ (evaluate \/ "nla" \in skipped)'
        /\ (\A p \in Owned : machine[p] = IF p \in DOMAIN desired_qos THEN desired_qos[p] ELSE "absent")'
        /\ (SameOn({"profile"} \cup Rsc \cup Legacy, machine, before))'
    BY <1>1, <2>2, <2>6, <2>7 DEF evaluate, desired_qos, SameOn
  <2>9. config'.measured => machine'["power"] = "high"
                             /\ (machine'["saving"] = "0" \/ "nic" \in skipped' \/ ~up')
    BY <1>1, <2>5
  <2>10. SuccessIsExact'
    BY <2>1, <2>8, <2>9 DEF SuccessIsExact
  <2> QED
    BY <2>1, <2>10 DEF ResultIsTrue, RollbackUndoes
<1>5. CASE mode = "restore"
  <2>1. SameOn(DOMAIN bundle, machine, bundle)
    BY <1>3, <1>5 DEF Aimed, Aim, SameOn
  <2>2. (SameOn(DOMAIN bundle, machine, bundle))'
    BY <1>1, <2>1 DEF SameOn
  <2>3. result' \in {"error", "restored"}
    BY <1>1, <1>5
  <2> QED
    BY <2>2, <2>3 DEF ResultIsTrue, RollbackUndoes, SuccessIsExact
<1>6. CASE mode = "rollback"
  <2>1. bundle = source /\ SameOn(DOMAIN source, source, before)
    BY <1>1, <1>6 DEF TuningInv, BundlesAreGood, Mutating
  <2>2. SameOn(DOMAIN source, machine, before)
    BY <1>3, <1>6, <2>1 DEF Aimed, Aim, SameOn
  <2>3. (SameOn(DOMAIN source, machine, before))'
    BY <1>1, <2>2 DEF SameOn
  <2>4. result' = "rolled back"
    BY <1>1, <1>6
  <2> QED
    BY <2>3, <2>4 DEF ResultIsTrue, RollbackUndoes, SuccessIsExact
<1> QED
  BY <1>1, <1>4, <1>5, <1>6

(* Before and after that an operation says nothing of itself. *)
LEMMA NothingIsSaid ==
  ASSUME result' \notin {"rolled back", "applied", "restored"}
  PROVE  ResultIsTrue'
BY DEF ResultIsTrue, RollbackUndoes, SuccessIsExact

LEMMA AimsAreInductive ==
  ASSUME TuningInv, Aims, ResultIsTrue, [TuningNext]_vars
  PROVE  Aims' /\ ResultIsTrue'
<1>0. at # "idle" => result = "running"
  BY DEF TuningInv, Ranges
<1>1. ASSUME NEW c \in Configs, execute(c) PROVE Aims' /\ ResultIsTrue'
  <2>1. at' \in {"publish", "snapshot", "refuse"} /\ result' = "running"
    BY <1>1 DEF execute, Configs, apply_backup_decision
  <2> QED
    BY <2>1, NoAim, NothingIsSaid
<1>2. CASE refuse \/ Crash
  <2>1. at' = "idle" /\ result' \in {"cancelled", "error", "crashed"}
    BY <1>2 DEF refuse, Crash, End
  <2> QED
    BY <2>1, NoAim, NothingIsSaid
<1>3. CASE publish_backup
  <2>1. at' \in {"idle", "begin"} /\ result' \in {"error", "backed up", "running"}
    BY <1>0, <1>3 DEF publish_backup, End
  <2> QED
    BY <2>1, NoAim, NothingIsSaid
<1>4. CASE publish_snapshot \/ begin
  <2>1. Begin /\ at \in {"snapshot", "begin"}
    BY <1>4 DEF publish_snapshot, begin
  <2>2. machine = before /\ Good(bundle)
    BY <2>1 DEF TuningInv, NothingWritten
  <2>3. result' = "running"
    BY <1>0, <2>1 DEF Begin
  <2> QED
    BY <2>1, <2>2, <2>3, BeginAims, NothingIsSaid
<1>5. CASE open_component
  <2>1. result' = "running"
    BY <1>0, <1>5 DEF open_component
  <2> QED
    BY <1>5, <2>1, OpenAims, NothingIsSaid
<1>6. ASSUME Mutating, Fails PROVE Aims' /\ ResultIsTrue'
  <2>1. result' \in {"rollback failed", "running"}
    BY <1>0, <1>6 DEF Fails, End, Mutating
  <2> QED
    BY <1>6, <2>1, FailsAims, NothingIsSaid
<1>7. CASE component_fails \/ undone
  <2>1. Mutating /\ Fails
    BY <1>7 DEF component_fails, undone, Mutating
  <2> QED
    BY <1>6, <2>1
<1>8. CASE write
  <2>1. result' = "running"
    BY <1>0, <1>8 DEF write
  <2> QED
    BY <1>8, <2>1, WriteAims, NothingIsSaid
<1>9. CASE write_fails
  <2>1. CASE Head(work) # "qos"
    <3>1. Mutating /\ Fails
      BY <1>9, <2>1 DEF write_fails, Mutating
    <3> QED
      BY <1>6, <3>1
  <2>2. CASE Head(work) = "qos"
    <3>1. at' = "undoing" /\ result' = "running"
      BY <1>0, <1>9, <2>2 DEF write_fails
    <3> QED
      BY <3>1, NoAim, NothingIsSaid
  <2> QED
    BY <2>1, <2>2
<1>10. CASE undo_write
  <2>1. at' = "undoing" /\ result' = "running"
    BY <1>0, <1>10 DEF undo_write
  <2> QED
    BY <2>1, NoAim, NothingIsSaid
<1>11. CASE component_done
  <2>1. result' = "running"
    BY <1>0, <1>11 DEF component_done
  <2> QED
    BY <1>11, <2>1, DoneAims, NothingIsSaid
<1>12. CASE finish
  <2>1. at' = "idle"
    BY <1>12 DEF finish, End
  <2> QED
    BY <1>12, <2>1, NoAim, AtTheEnd
<1>13. CASE Cancel
  <2>1. /\ UNCHANGED <<machine, before, at, mode, bundle, up, config, work, writes, skipped>>
        /\ result' = "running"
    BY <1>0, <1>13 DEF Cancel, progress, ghosts, Keep
  <2> QED
    BY <2>1, StillAims, NothingIsSaid
<1>14. CASE Change
  <2>1. at' = "idle" /\ result' = "none"
    BY <1>14 DEF Change
  <2> QED
    BY <2>1, NoAim, NothingIsSaid
<1>15. CASE UNCHANGED vars
  <2>1. UNCHANGED <<machine, before, at, mode, bundle, source, up, config, work, writes, skipped, result>>
    BY <1>15 DEF vars, progress, ghosts
  <2>2. ResultIsTrue'
    BY <2>1 DEF ResultIsTrue, RollbackUndoes, SuccessIsExact, SameOn, evaluate, desired_qos
  <2> QED
    BY <2>1, <2>2, StillAims
<1> QED
  BY <1>1, <1>2, <1>3, <1>4, <1>5, <1>7, <1>8, <1>9, <1>10, <1>11, <1>12, <1>13, <1>14, <1>15
     DEF TuningNext

(* What an operation says of itself is true: a rollback that succeeds undid   *)
(* all that its source covers, Apply and Restore that end well did the whole  *)
(* (windows.rs:217-246, 289-352, 374-419).                                    *)
THEOREM ResultIsTrueHolds == TuningSpec => []ResultIsTrue
<1>1. TuningInit => Aims /\ ResultIsTrue
  BY DEF TuningInit, Aims, Aiming, WritesAim, ApplyKeeps, ResultIsTrue, RollbackUndoes, SuccessIsExact
<1>2. (TuningInv /\ Aims /\ ResultIsTrue) /\ [TuningNext]_vars => (Aims /\ ResultIsTrue)'
  BY AimsAreInductive
<1> QED
  BY <1>1, <1>2, TuningInvariance, PTL DEF TuningSpec
=============================================================================
