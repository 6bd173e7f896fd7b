------------------------- MODULE SchemaUpgradeProofs --------------------------
(***************************************************************************)
(* Proofs about upgrades of a document, for every document and every       *)
(* sequence of target versions that the upgrade accepts.                   *)
(***************************************************************************)
EXTENDS SchemaUpgrade, StorageRulesProofs

Added(s, v) == {k \in RequiredKeys(s) : ShouldAdd(s, k, v) /\ HasDefault(s, k)}
Removing(s, v) == {k \in RequiredKeys(s) : ~ShouldAdd(s, k, v)}

IsFunction(f) == f = [k \in DOMAIN f |-> f[k]]

LEMMA SameFunction ==
  ASSUME NEW f, NEW g, IsFunction(f), IsFunction(g), DOMAIN f = DOMAIN g,
         \A k \in DOMAIN f : f[k] = g[k]
  PROVE  f = g
<1>1. [k \in DOMAIN f |-> f[k]] = [k \in DOMAIN g |-> g[k]]
  OBVIOUS
<1> QED
  BY <1>1 DEF IsFunction

(* The keys of an upgraded object, and their values.                        *)
LEMMA ObjectUpgraded ==
  ASSUME NEW object, NEW s, NEW v
  PROVE  /\ DOMAIN UpgradedObject(object, s, v) =
              ((DOMAIN object \cup Added(s, v)) \ Removing(s, v)) \cap ListedKeys(s)
         /\ IsFunction(UpgradedObject(object, s, v))
<1> DEFINE applied == Applied(object, s, v)
           new == UpgradedObject(object, s, v)
<1>1. /\ applied = [k \in (DOMAIN object \cup Added(s, v)) \ Removing(s, v) |->
                      IF k \in DOMAIN object THEN object[k] ELSE Default(s, k)]
  BY DEF Applied, Added, Removing
<1>2. new = [k \in DOMAIN applied \cap ListedKeys(s) |-> applied[k]]
  BY DEF UpgradedObject, Rearranged
<1> HIDE DEF applied, new
<1>3. /\ DOMAIN new = ((DOMAIN object \cup Added(s, v)) \ Removing(s, v)) \cap ListedKeys(s)
      /\ new = [k \in DOMAIN new |-> new[k]]
  BY <1>1, <1>2
<1> QED
  BY <1>3 DEF IsFunction, new

LEMMA ObjectValues ==
  ASSUME NEW object, NEW s, NEW v, NEW k \in DOMAIN UpgradedObject(object, s, v)
  PROVE  UpgradedObject(object, s, v)[k] =
           IF k \in DOMAIN object THEN object[k] ELSE Default(s, k)
<1> DEFINE applied == Applied(object, s, v)
           new == UpgradedObject(object, s, v)
<1>1. applied = [j \in (DOMAIN object \cup Added(s, v)) \ Removing(s, v) |->
                   IF j \in DOMAIN object THEN object[j] ELSE Default(s, j)]
  BY DEF Applied, Added, Removing
<1>2. new = [j \in DOMAIN applied \cap ListedKeys(s) |-> applied[j]]
  BY DEF UpgradedObject, Rearranged
<1> HIDE DEF applied, new
<1>3. \A j \in DOMAIN new :
        new[j] = IF j \in DOMAIN object THEN object[j] ELSE Default(s, j)
  BY <1>1, <1>2
<1> QED
  BY <1>3 DEF new

LEMMA Listed ==
  ASSUME NEW s
  PROVE  /\ RequiredKeys(s) \subseteq ListedKeys(s)
         /\ s \in Section => "missing" \notin ListedKeys(s)
<1>1. RequiredKeys(s) \subseteq ListedKeys(s)
  BY DEF ListedKeys
<1>2. CASE s = "controller"
  BY <1>2 DEF ListedKeys, RequiredKeys, RetiredKeys, InfoKeys, ConfigurationKeys, LongRangeKeys,
              SettingKeys, VersionKeys
<1>3. CASE s = "cmdClasses"
  BY <1>3 DEF ListedKeys, RequiredKeys
<1>4. CASE s = "rfConfig"
  BY <1>4 DEF ListedKeys, RequiredKeys
<1>5. CASE s = "sucEntry"
  BY <1>5 DEF ListedKeys, RequiredKeys
<1>6. CASE s = "node"
  BY <1>6 DEF ListedKeys, RequiredKeys, CapabilityKeys, NodeFlagKeys
<1>7. CASE s = "lrNode"
  BY <1>7 DEF ListedKeys, RequiredKeys, CapabilityKeys
<1> QED
  BY <1>1, <1>2, <1>3, <1>4, <1>5, <1>6, <1>7 DEF Section

(* The two versions are keys of every version that is accepted.            *)
LEMMA VersionsStay ==
  ASSUME NEW v, UpgradeAccepts(v), v \in Nat \X Nat \X Nat
  PROVE  VersionKeys \subseteq RequiredKeys("controller") \ Removing("controller", v)
<1>1. VersionKeys \subseteq RequiredKeys("controller")
  BY DEF RequiredKeys
<1>2. UpgradeFormat(v) >= 0 /\ UpgradeFormat(v) \in Int
  <2>1. v # NoVersion /\ Major(v) \in Nat /\ Minor(v) \in Nat
    BY DEF NoVersion, Major, Minor
  <2>2. CASE Major(v) = 7
    <3>1. UpgradeFormat(v) = UpgradeFormat7(Minor(v))
      BY <2>1, <2>2 DEF UpgradeFormat
    <3>2. UpgradeFormat7(Minor(v)) \in {0, 1, 2, 3, 4, 5, Unsupported}
      BY DEF UpgradeFormat7
    <3> QED
      BY <3>1, <3>2 DEF UpgradeAccepts, Unsupported
  <2>3. CASE Major(v) >= 8
    BY <2>1, <2>3 DEF UpgradeFormat
  <2>4. CASE Major(v) < 7
    BY <2>1, <2>4 DEF UpgradeFormat, UpgradeAccepts
  <2> QED
    BY <2>1, <2>2, <2>3, <2>4
<1>3. ASSUME NEW k \in VersionKeys
      PROVE  ShouldAdd("controller", k, v)
  <2>1. CreatedVersion("controller", k) = NoVersion
    BY DEF CreatedVersion, VersionKeys, SettingKeys
  <2>2. Created("controller", k) = 0
    BY <2>1 DEF Created, VersionKeys, LongRangeKeys
  <2>3. Removed("controller", k) = -1
    BY DEF Removed, VersionKeys, RetiredKeys
  <2> QED
    BY <1>2, <2>2, <2>3 DEF ShouldAdd
<1> QED
  BY <1>1, <1>3 DEF Removing

SettledSection(object, s, v) ==
  /\ IsFunction(object)
  /\ Added(s, v) \subseteq DOMAIN object
  /\ DOMAIN object \subseteq ListedKeys(s) \ Removing(s, v)

(* An object that has all keys to be added and none to be dropped is left  *)
(* as it is.                                                               *)
LEMMA ObjectSettled ==
  ASSUME NEW object, NEW s, NEW v, SettledSection(object, s, v)
  PROVE  UpgradedObject(object, s, v) = object
<1> DEFINE new == UpgradedObject(object, s, v)
<1>1. DOMAIN new = ((DOMAIN object \cup Added(s, v)) \ Removing(s, v)) \cap ListedKeys(s)
  BY ObjectUpgraded
<1>2. IsFunction(new)
  BY ObjectUpgraded
<1>3. ASSUME NEW k \in DOMAIN new, k \in DOMAIN object
      PROVE  new[k] = object[k]
  BY <1>3, ObjectValues
<1> HIDE DEF new
<1>4. DOMAIN new = DOMAIN object
  BY <1>1 DEF SettledSection
<1>5. \A k \in DOMAIN new : new[k] = object[k]
  BY <1>4, <1>3
<1>6. new = object
  BY <1>2, <1>4, <1>5, SameFunction DEF SettledSection
<1> QED
  BY <1>6 DEF new

(* What an upgrade makes of an object is one.                              *)
LEMMA ObjectIsSettled ==
  ASSUME NEW object, NEW s, NEW v
  PROVE  SettledSection(UpgradedObject(object, s, v), s, v)
<1> DEFINE new == UpgradedObject(object, s, v)
<1>1. /\ DOMAIN new = ((DOMAIN object \cup Added(s, v)) \ Removing(s, v)) \cap ListedKeys(s)
      /\ IsFunction(new)
  BY ObjectUpgraded
<1>2. Added(s, v) \subseteq ListedKeys(s) \ Removing(s, v)
  BY Listed DEF Added, Removing
<1> QED
  BY <1>1, <1>2 DEF SettledSection

LEMMA NotMissing ==
  ASSUME NEW s \in Section, NEW object, DOMAIN object \subseteq ListedKeys(s)
  PROVE  object # Missing
<1>1. DOMAIN Missing = {"missing"}
  BY DEF Missing
<1> QED
  BY <1>1, Listed

------------------------------------------------------------------------------
LEMMA DocumentUpgraded ==
  ASSUME NEW d, NEW v
  PROVE  /\ IsFunction(Upgraded(d, v)) /\ DOMAIN Upgraded(d, v) = Section
         /\ \A s \in Section \ {"controller"} : Upgraded(d, v)[s] = UpgradedSection(d, s, v)
         /\ IsFunction(Upgraded(d, v)["controller"])
         /\ DOMAIN Upgraded(d, v)["controller"] =
              DOMAIN UpgradedSection(d, "controller", v) \cup VersionKeys
         /\ \A k \in DOMAIN UpgradedSection(d, "controller", v) \cup VersionKeys :
              Upgraded(d, v)["controller"][k] =
                IF k \in VersionKeys THEN "value"
                ELSE UpgradedSection(d, "controller", v)[k]
<1>1. "controller" \in Section
  BY DEF Section
<1> DEFINE c == UpgradedSection(d, "controller", v)
           new == Upgraded(d, v)
           upgraded == [s \in Section |-> UpgradedSection(d, s, v)]
           controller == [k \in DOMAIN c \cup VersionKeys |->
                            IF k \in VersionKeys THEN "value" ELSE c[k]]
<1>2. upgraded["controller"] = c
  BY <1>1
<1>3. new = [upgraded EXCEPT !["controller"] = controller]
  BY <1>2 DEF Upgraded
<1> HIDE DEF controller, new
<1>4. /\ new = [s \in DOMAIN new |-> new[s]] /\ DOMAIN new = Section
      /\ \A s \in Section \ {"controller"} : new[s] = UpgradedSection(d, s, v)
      /\ new["controller"] = controller
  BY <1>1, <1>3
<1>5. /\ controller = [k \in DOMAIN controller |-> controller[k]]
      /\ DOMAIN controller = DOMAIN c \cup VersionKeys
      /\ \A k \in DOMAIN c \cup VersionKeys :
           controller[k] = IF k \in VersionKeys THEN "value" ELSE c[k]
  BY DEF controller
<1> HIDE DEF c
<1> QED
  BY <1>4, <1>5 DEF IsFunction, new, c

(* Every section of an upgraded document is settled or missing.            *)
LEMMA SectionUpgraded ==
  ASSUME NEW d, NEW v, NEW s \in Section
  PROVE  \/ SettledSection(UpgradedSection(d, s, v), s, v)
         \/ UpgradedSection(d, s, v) = Missing /\ s \notin CreatedSections
<1>1. CASE d[s] # Missing
  BY <1>1, ObjectIsSettled DEF UpgradedSection
<1>2. CASE d[s] = Missing /\ s \in CreatedSections
  BY <1>2, ObjectIsSettled DEF UpgradedSection
<1>3. CASE d[s] = Missing /\ s \notin CreatedSections
  BY <1>3 DEF UpgradedSection
<1> QED
  BY <1>1, <1>2, <1>3

LEMMA ControllerUpgraded ==
  ASSUME NEW d, NEW v, UpgradeAccepts(v), v \in Nat \X Nat \X Nat
  PROVE  /\ SettledSection(Upgraded(d, v)["controller"], "controller", v)
         /\ VersionKeys \subseteq DOMAIN Upgraded(d, v)["controller"]
         /\ \A k \in VersionKeys : Upgraded(d, v)["controller"][k] = "value"
<1> DEFINE c == UpgradedSection(d, "controller", v)
           new == Upgraded(d, v)["controller"]
<1>1. SettledSection(c, "controller", v)
  BY SectionUpgraded DEF CreatedSections, Section
<1>2. /\ IsFunction(new) /\ DOMAIN new = DOMAIN c \cup VersionKeys
      /\ \A k \in DOMAIN c \cup VersionKeys :
           new[k] = IF k \in VersionKeys THEN "value" ELSE c[k]
  BY DocumentUpgraded
<1>3. VersionKeys \subseteq ListedKeys("controller") \ Removing("controller", v)
  BY VersionsStay, Listed
<1> HIDE DEF c, new
<1>4. SettledSection(new, "controller", v)
  BY <1>1, <1>2, <1>3 DEF SettledSection
<1>5. VersionKeys \subseteq DOMAIN new /\ \A k \in VersionKeys : new[k] = "value"
  BY <1>2
<1> QED
  BY <1>4, <1>5 DEF new

LEMMA UpgradedTwice ==
  ASSUME NEW d, NEW v, UpgradeAccepts(v), v \in Nat \X Nat \X Nat
  PROVE  Upgraded(Upgraded(d, v), v) = Upgraded(d, v)
<1> DEFINE new == Upgraded(d, v)
           again == Upgraded(new, v)
           e == new["controller"]
<1>1. /\ IsFunction(new) /\ DOMAIN new = Section
      /\ \A s \in Section \ {"controller"} : new[s] = UpgradedSection(d, s, v)
  BY DocumentUpgraded
<1>2. /\ SettledSection(e, "controller", v)
      /\ VersionKeys \subseteq DOMAIN e
      /\ \A k \in VersionKeys : e[k] = "value"
  BY ControllerUpgraded
<1> HIDE DEF new
<1>3. /\ IsFunction(again) /\ DOMAIN again = Section
      /\ \A s \in Section \ {"controller"} : again[s] = UpgradedSection(new, s, v)
      /\ IsFunction(again["controller"])
      /\ DOMAIN again["controller"] =
           DOMAIN UpgradedSection(new, "controller", v) \cup VersionKeys
      /\ \A k \in DOMAIN UpgradedSection(new, "controller", v) \cup VersionKeys :
           again["controller"][k] =
             IF k \in VersionKeys THEN "value" ELSE UpgradedSection(new, "controller", v)[k]
  BY DocumentUpgraded
<1> HIDE DEF again
<1>4. ASSUME NEW s \in Section, SettledSection(new[s], s, v)
      PROVE  UpgradedSection(new, s, v) = new[s]
  <2>1. new[s] # Missing
    BY <1>4, NotMissing DEF SettledSection
  <2>2. UpgradedObject(new[s], s, v) = new[s]
    BY <1>4, ObjectSettled
  <2> QED
    BY <2>1, <2>2 DEF UpgradedSection
<1>5. ASSUME NEW s \in Section \ {"controller"}
      PROVE  again[s] = new[s]
  <2>1. SettledSection(new[s], s, v) \/ (new[s] = Missing /\ s \notin CreatedSections)
    BY <1>1, SectionUpgraded
  <2>2. CASE SettledSection(new[s], s, v)
    BY <1>3, <1>4, <2>2
  <2>3. CASE new[s] = Missing /\ s \notin CreatedSections
    BY <1>3, <2>3 DEF UpgradedSection
  <2> QED
    BY <2>1, <2>2, <2>3
<1>6. again["controller"] = e
  <2>1. UpgradedSection(new, "controller", v) = e
    BY <1>2, <1>4 DEF Section
  <2>2. IsFunction(e)
    BY <1>2 DEF SettledSection
  <2> HIDE DEF e
  <2>3. DOMAIN again["controller"] = DOMAIN e
    BY <1>2, <1>3, <2>1
  <2>4. \A k \in DOMAIN e : again["controller"][k] = e[k]
    BY <1>2, <1>3, <2>1
  <2> QED
    BY <1>3, <2>2, <2>3, <2>4, SameFunction
<1>7. \A s \in Section : again[s] = new[s]
  BY <1>5, <1>6
<1>8. again = new
  BY <1>1, <1>3, <1>7, SameFunction
<1> QED
  BY <1>8 DEF again, new

(* Settled, for every document and sequence of target versions.            *)
THEOREM UpgradeSettles == Spec => []Settled
<1> DEFINE IInv == version # NoVersion =>
                     /\ version \in Target
                     /\ \E d : doc = Upgraded(d, version)
<1>1. Init => IInv
  BY DEF Init
<1>2. IInv /\ [Next]_vars => IInv'
  BY DEF Next, Upgrade, vars
<1>3. IInv => Settled
  <2>1. ASSUME IInv, version # NoVersion
        PROVE  Upgraded(doc, version) = doc
    <3>1. UpgradeAccepts(version) /\ version \in Nat \X Nat \X Nat
      BY <2>1, UpgradeAssumption
    <3>2. PICK d : doc = Upgraded(d, version)
      BY <2>1
    <3> QED
      BY <3>1, <3>2, UpgradedTwice
  <2> QED
    BY <2>1 DEF Settled
<1> HIDE DEF IInv
<1> QED
  BY <1>1, <1>2, <1>3, PTL DEF Spec

------------------------------------------------------------------------------
(* An object keeps the listed keys that the target has, each at its value. *)
LEMMA ObjectKeeps ==
  ASSUME NEW object, NEW s, NEW v, NEW k \in DOMAIN object,
         k \in ListedKeys(s), k \in RequiredKeys(s) => ShouldAdd(s, k, v)
  PROVE  /\ k \in DOMAIN UpgradedObject(object, s, v)
         /\ UpgradedObject(object, s, v)[k] = object[k]
<1>1. k \notin Removing(s, v)
  BY DEF Removing
<1>2. DOMAIN UpgradedObject(object, s, v) =
        ((DOMAIN object \cup Added(s, v)) \ Removing(s, v)) \cap ListedKeys(s)
  BY ObjectUpgraded
<1>3. k \in DOMAIN UpgradedObject(object, s, v)
  BY <1>1, <1>2
<1> QED
  BY <1>3, ObjectValues

(* So does a section, and the versions, set afterwards, are values again.  *)
LEMMA SectionKeeps ==
  ASSUME NEW d, NEW s \in Section, NEW v, d[s] # Missing, NEW k \in DOMAIN d[s],
         d[s][k] = "value", k \in ListedKeys(s),
         k \in RequiredKeys(s) => ShouldAdd(s, k, v)
  PROVE  k \in DOMAIN Upgraded(d, v)[s] /\ Upgraded(d, v)[s][k] = "value"
<1>1. UpgradedSection(d, s, v) = UpgradedObject(d[s], s, v)
  BY DEF UpgradedSection
<1>2. k \in DOMAIN UpgradedSection(d, s, v) /\ UpgradedSection(d, s, v)[k] = "value"
  BY <1>1, ObjectKeeps
<1>3. CASE s = "controller"
  BY <1>2, <1>3, DocumentUpgraded
<1>4. CASE s # "controller"
  <2>1. Upgraded(d, v)[s] = UpgradedSection(d, s, v)
    BY <1>4, DocumentUpgraded
  <2> QED
    BY <1>2, <2>1
<1> QED
  BY <1>3, <1>4

(* ValuesKept, for every document and sequence of target versions: the     *)
(* upgrade populates, drops and sets keys, and no listed key that the      *)
(* target has loses its value on the way.                                  *)
THEOREM UpgradeKeepsValues == Spec => ValuesKept
<1>1. ASSUME [Next]_vars
      PROVE  [\A s \in Section : \A k \in Keys(s) :
                doc[s][k] = "value" /\ k \in ListedKeys(s)
                /\ (k \in RequiredKeys(s) => ShouldAdd(s, k, version'))
                  => /\ doc'[s] # Missing
                     /\ k \in DOMAIN doc'[s]
                     /\ doc'[s][k] = "value"]_vars
  <2>1. CASE UNCHANGED vars
    BY <2>1
  <2>2. ASSUME NEW v \in Target, Upgrade(v), NEW s \in Section, NEW k \in Keys(s),
               doc[s][k] = "value", k \in ListedKeys(s),
               k \in RequiredKeys(s) => ShouldAdd(s, k, version')
        PROVE  /\ doc'[s] # Missing
               /\ k \in DOMAIN doc'[s]
               /\ doc'[s][k] = "value"
    <3>1. doc' = Upgraded(doc, v) /\ version' = v
      BY <2>2 DEF Upgrade
    <3>2. doc[s] # Missing /\ k \in DOMAIN doc[s]
      BY <2>2 DEF Keys
    <3>3. k \in DOMAIN doc'[s] /\ doc'[s][k] = "value"
      BY <2>2, <3>1, <3>2, SectionKeeps
    <3>4. k # "missing"
      BY <2>2, Listed
    <3>5. DOMAIN Missing = {"missing"}
      BY DEF Missing
    <3> QED
      BY <3>3, <3>4, <3>5
  <2> QED
    BY <1>1, <2>1, <2>2 DEF Next
<1> QED
  BY <1>1, PTL DEF Spec, ValuesKept

------------------------------------------------------------------------------
(***************************************************************************)
(* Upgrading step by step                                                  *)
(***************************************************************************)
LEMMA AcceptedVersions ==
  ASSUME NEW v \in Version, UpgradeAccepts(v)
  PROVE  /\ \/ Major(v) >= 8
            \/ Major(v) = 7 /\ Minor(v) \in {11, 12, 15, 16, 17, 18} \cup 19 .. 24
         /\ UpgradeFormat(v) = IF Major(v) >= 8 THEN 5 ELSE UpgradeFormat7(Minor(v))
<1>1. CASE Major(v) >= 8
  <2>1. v # NoVersion /\ Major(v) \in Nat
    BY Components
  <2>2. UpgradeFormat(v) = 5
    BY <1>1, <2>1 DEF UpgradeFormat
  <2> QED
    BY <1>1, <2>2
<1>2. CASE Major(v) = 7
  <2>1. UpgradeFormat(v) = UpgradeFormat7(Minor(v))
    BY <1>2, Components DEF UpgradeFormat
  <2> QED
    BY <1>2, <2>1, Components, Minors7 DEF UpgradeAccepts, Releases7
<1>3. CASE Major(v) < 7
  BY <1>3, Components DEF UpgradeFormat, UpgradeAccepts
<1> QED
  BY <1>1, <1>2, <1>3, Components

(* A later version has the same format or a later one.                     *)
LEMMA FormatsAscend ==
  ASSUME NEW v \in Version, NEW w \in Version,
         UpgradeAccepts(v), UpgradeAccepts(w), NotOlder(w, v)
  PROVE  /\ UpgradeFormat(v) \in 0 .. 5 /\ UpgradeFormat(w) \in 0 .. 5
         /\ UpgradeFormat(v) <= UpgradeFormat(w)
<1>1. /\ \/ Major(v) >= 8
         \/ Major(v) = 7 /\ Minor(v) \in {11, 12, 15, 16, 17, 18} \cup 19 .. 24
      /\ UpgradeFormat(v) = IF Major(v) >= 8 THEN 5 ELSE UpgradeFormat7(Minor(v))
  BY AcceptedVersions
<1>2. /\ \/ Major(w) >= 8
         \/ Major(w) = 7 /\ Minor(w) \in {11, 12, 15, 16, 17, 18} \cup 19 .. 24
      /\ UpgradeFormat(w) = IF Major(w) >= 8 THEN 5 ELSE UpgradeFormat7(Minor(w))
  BY AcceptedVersions
<1>3. Major(w) > Major(v) \/ (Major(w) = Major(v) /\ Minor(w) >= Minor(v))
  BY Components DEF NotOlder
<1>4. /\ Major(v) \in Nat /\ Minor(v) \in Nat
      /\ Major(w) \in Nat /\ Minor(w) \in Nat
  BY Components
<1>5. Major(v) >= 8 => UpgradeFormat(v) = 5 /\ UpgradeFormat(w) = 5
  BY <1>1, <1>2, <1>3, <1>4
<1>6. Major(v) = 7 /\ Major(w) >= 8 => /\ UpgradeFormat(v) \in 0 .. 5
                                     /\ UpgradeFormat(w) = 5
  BY <1>1, <1>2, <1>4, UpgradeRows
<1>7. CASE Major(v) = 7 /\ Major(w) = 7
  <2>1. UpgradeFormat(v) = UpgradeFormat7(Minor(v)) /\ UpgradeFormat(w) = UpgradeFormat7(Minor(w))
    BY <1>1, <1>2, <1>7
  <2>2. Minor(v) <= Minor(w)
    BY <1>3, <1>4, <1>7
  <2> QED
    BY <1>1, <1>2, <1>4, <1>7, <2>1, <2>2, UpgradeRows
<1> QED
  BY <1>1, <1>2, <1>3, <1>4, <1>5, <1>6, <1>7

LEMMA NotOlderTransitive ==
  ASSUME NEW u \in Version, NEW v \in Version, NEW w \in Version,
         NotOlder(v, u), NotOlder(w, v)
  PROVE  NotOlder(w, u)
BY Components DEF NotOlder

(* The rules of a required key: no required key is retired, so a version   *)
(* that has it is followed only by versions that have it.                  *)
LEMMA RequiredRules ==
  ASSUME NEW s \in Section, NEW k \in RequiredKeys(s)
  PROVE  /\ Removed(s, k) = -1
         /\ Created(s, k) \in {-1, 0, 2}
         /\ CreatedVersion(s, k) # NoVersion => CreatedVersion(s, k) \in Version
<1>1. k \notin RetiredKeys \cup {"lrTxpower"}
  <2>1. CASE s = "controller"
    BY <2>1 DEF RequiredKeys, RetiredKeys, InfoKeys, ConfigurationKeys, LongRangeKeys,
                SettingKeys, VersionKeys
  <2>2. CASE s = "cmdClasses"
    BY <2>2 DEF RequiredKeys, RetiredKeys
  <2>3. CASE s = "rfConfig"
    BY <2>3 DEF RequiredKeys, RetiredKeys
  <2>4. CASE s = "sucEntry"
    BY <2>4 DEF RequiredKeys, RetiredKeys
  <2>5. CASE s = "node"
    BY <2>5 DEF RequiredKeys, RetiredKeys, CapabilityKeys, NodeFlagKeys
  <2>6. CASE s = "lrNode"
    BY <2>6 DEF RequiredKeys, RetiredKeys
  <2> QED
    BY <2>1, <2>2, <2>3, <2>4, <2>5, <2>6 DEF Section
<1>2. Removed(s, k) = -1
  BY <1>1 DEF Removed
<1>3. Created(s, k) \in {-1, 0, 2}
  BY DEF Created
<1>4. CreatedVersion(s, k) \in
        {NoVersion, <<7, 11, 0>>, <<7, 15, 3>>, <<7, 18, 0>>, <<7, 19, 0>>,
         <<7, 20, 0>>, <<7, 21, 0>>}
  BY Zenon DEF CreatedVersion
<1> QED
  BY <1>2, <1>3, <1>4 DEF Version

LEMMA KeysStay ==
  ASSUME NEW s \in Section, NEW k \in RequiredKeys(s),
         NEW v \in Version, NEW w \in Version,
         UpgradeAccepts(v), UpgradeAccepts(w), NotOlder(w, v),
         ShouldAdd(s, k, v)
  PROVE  ShouldAdd(s, k, w)
<1>1. /\ UpgradeFormat(v) \in 0 .. 5 /\ UpgradeFormat(w) \in 0 .. 5
      /\ UpgradeFormat(v) <= UpgradeFormat(w)
  BY FormatsAscend
<1>2. /\ Removed(s, k) = -1
      /\ Created(s, k) \in {-1, 0, 2}
      /\ CreatedVersion(s, k) # NoVersion => CreatedVersion(s, k) \in Version
  BY RequiredRules
<1>3. CASE Created(s, k) >= 0 /\ Created(s, k) <= UpgradeFormat(v)
  BY <1>1, <1>2, <1>3 DEF ShouldAdd
<1>4. CASE CreatedVersion(s, k) # NoVersion /\ NotOlder(v, CreatedVersion(s, k))
  <2>1. NotOlder(w, CreatedVersion(s, k))
    BY <1>2, <1>4, NotOlderTransitive
  <2> QED
    BY <1>2, <1>4, <2>1 DEF ShouldAdd
<1> QED
  BY <1>3, <1>4 DEF ShouldAdd

(* The object an upgrade of section s starts from.                         *)
Start(d, s) == IF d[s] = Missing THEN <<>> ELSE d[s]

(* An upgraded section, key by key.                                        *)
LEMMA SectionContents ==
  ASSUME NEW d, NEW s \in Section, NEW v \in Version, UpgradeAccepts(v),
         d[s] # Missing \/ s \in CreatedSections
  PROVE  /\ Upgraded(d, v)[s] # Missing
         /\ \A k : k \in DOMAIN Upgraded(d, v)[s] <=>
              \/ s = "controller" /\ k \in VersionKeys
              \/ /\ k \in DOMAIN Start(d, s) \/ k \in Added(s, v)
                 /\ k \in ListedKeys(s) \ Removing(s, v)
         /\ \A k \in DOMAIN Upgraded(d, v)[s] :
              Upgraded(d, v)[s][k] =
                IF s = "controller" /\ k \in VersionKeys THEN "value"
                ELSE IF k \in DOMAIN Start(d, s) THEN Start(d, s)[k]
                ELSE Default(s, k)
<1> DEFINE start == Start(d, s)
           section == UpgradedSection(d, s, v)
           new == Upgraded(d, v)[s]
<1>1. section = UpgradedObject(start, s, v)
  BY DEF UpgradedSection, Start
<1>2. /\ DOMAIN section = ((DOMAIN start \cup Added(s, v)) \ Removing(s, v)) \cap ListedKeys(s)
      /\ \A k \in DOMAIN section :
           section[k] = IF k \in DOMAIN start THEN start[k] ELSE Default(s, k)
  <2> DEFINE object == UpgradedObject(start, s, v)
  <2>1. section = object
    BY <1>1
  <2> HIDE DEF start, section
  <2>2. DOMAIN object = ((DOMAIN start \cup Added(s, v)) \ Removing(s, v)) \cap ListedKeys(s)
    BY ObjectUpgraded
  <2>3. \A k \in DOMAIN object :
          object[k] = IF k \in DOMAIN start THEN start[k] ELSE Default(s, k)
    BY ObjectValues
  <2> HIDE DEF object
  <2> QED
    BY <2>1, <2>2, <2>3
<1>3. CASE s # "controller"
  <2>1. new = section
    BY <1>3, DocumentUpgraded
  <2>2. section # Missing
    BY <1>2, NotMissing
  <2> HIDE DEF start, section, new
  <2>3. QED
    BY <1>2, <1>3, <2>1, <2>2 DEF start, section, new
<1>4. CASE s = "controller"
  <2>1. /\ DOMAIN new = DOMAIN section \cup VersionKeys
        /\ \A k \in DOMAIN section \cup VersionKeys :
             new[k] = IF k \in VersionKeys THEN "value" ELSE section[k]
    BY <1>4, DocumentUpgraded
  <2>2. new # Missing
    <3>1. VersionKeys \subseteq DOMAIN new /\ "protocolVersion" \in VersionKeys
      BY <2>1 DEF VersionKeys
    <3>2. DOMAIN Missing = {"missing"}
      BY DEF Missing
    <3> HIDE DEF new
    <3>3. QED
      BY <3>1, <3>2
  <2> HIDE DEF start, section, new
  <2>3. QED
    BY <1>2, <1>4, <2>1, <2>2 DEF start, section, new
<1> QED
  BY <1>3, <1>4

LEMMA SectionStaysMissing ==
  ASSUME NEW d, NEW s \in Section, NEW v,
         d[s] = Missing, s \notin CreatedSections
  PROVE  Upgraded(d, v)[s] = Missing
<1>1. s # "controller"
  BY DEF CreatedSections
<1> QED
  BY <1>1, DocumentUpgraded DEF UpgradedSection

(* Two documents say the same of a key.                                    *)
SameKey(d, e, s, k) ==
  /\ d[s] = Missing <=> e[s] = Missing
  /\ d[s] # Missing =>
       /\ k \in DOMAIN d[s] <=> k \in DOMAIN e[s]
       /\ k \in DOMAIN d[s] => d[s][k] = e[s][k]

(* Document d is where an upgrade of o to p leads to, as far as key k      *)
(* goes.  Then it is also the same to go on to v from d or from o: for a   *)
(* key that o has before its time the upgrade to p may have dropped it.    *)
LEMMA StepAgrees ==
  ASSUME NEW o, NEW d, NEW s \in Section, NEW k \in ListedKeys(s),
         NEW p \in Version, NEW v \in Version,
         UpgradeAccepts(p), UpgradeAccepts(v), NotOlder(v, p),
         k \in RequiredKeys(s) /\ o[s] # Missing /\ k \in DOMAIN o[s] => ShouldAdd(s, k, p),
         SameKey(d, Upgraded(o, p), s, k)
  PROVE  SameKey(Upgraded(d, v), Upgraded(o, v), s, k)
<1>1. CASE o[s] = Missing /\ s \notin CreatedSections
  <2>1. Upgraded(o, p)[s] = Missing /\ Upgraded(o, v)[s] = Missing
    BY <1>1, SectionStaysMissing
  <2>2. d[s] = Missing
    BY <2>1 DEF SameKey
  <2>3. Upgraded(d, v)[s] = Missing
    BY <1>1, <2>2, SectionStaysMissing
  <2> QED
    BY <2>1, <2>3 DEF SameKey
<1>2. CASE o[s] # Missing \/ s \in CreatedSections
  <2> DEFINE fixed == s = "controller" /\ k \in VersionKeys
             start == Start(o, s)
             first == Upgraded(o, p)[s]
             once == Upgraded(o, v)[s]
             now == d[s]
             next == Upgraded(d, v)[s]
  <2>1. /\ first # Missing
        /\ k \in DOMAIN first <=>
              \/ fixed
              \/ (k \in DOMAIN start \/ k \in Added(s, p)) /\ k \notin Removing(s, p)
        /\ k \in DOMAIN first =>
             first[k] = IF fixed THEN "value"
                        ELSE IF k \in DOMAIN start THEN start[k] ELSE Default(s, k)
    BY <1>2, SectionContents
  <2>2. /\ once # Missing
        /\ k \in DOMAIN once <=>
              \/ fixed
              \/ (k \in DOMAIN start \/ k \in Added(s, v)) /\ k \notin Removing(s, v)
        /\ k \in DOMAIN once =>
             once[k] = IF fixed THEN "value"
                       ELSE IF k \in DOMAIN start THEN start[k] ELSE Default(s, k)
    BY <1>2, SectionContents
  <2>3. /\ now # Missing
        /\ k \in DOMAIN now <=> k \in DOMAIN first
        /\ k \in DOMAIN now => now[k] = first[k]
    BY <2>1 DEF SameKey
  <2>4. Start(d, s) = now
    BY <2>3 DEF Start
  <2>5. /\ next # Missing
        /\ k \in DOMAIN next <=>
              \/ fixed
              \/ (k \in DOMAIN now \/ k \in Added(s, v)) /\ k \notin Removing(s, v)
        /\ k \in DOMAIN next =>
             next[k] = IF fixed THEN "value"
                       ELSE IF k \in DOMAIN now THEN now[k] ELSE Default(s, k)
    BY <2>3, <2>4, SectionContents
  <2>6. k \in DOMAIN start => o[s] # Missing /\ k \in DOMAIN o[s]
    BY DEF Start
  <2>7. /\ k \in DOMAIN start => k \notin Removing(s, p)
        /\ k \in Added(s, p) => k \in Added(s, v)
        /\ k \in Added(s, v) => k \in Added(s, p) \/ k \in Removing(s, p)
    BY <2>6, KeysStay DEF Added, Removing
  <2>8. k \in Added(s, p) => k \notin Removing(s, p)
    BY DEF Added, Removing
  <2> HIDE DEF fixed, start, first, once, now, next
  <2>9. /\ k \in DOMAIN next <=> k \in DOMAIN once
        /\ k \in DOMAIN next => next[k] = once[k]
    BY <2>1, <2>2, <2>3, <2>5, <2>7, <2>8
  <2> QED
    BY <2>2, <2>5, <2>9 DEF SameKey, next, once
<1> QED
  BY <1>1, <1>2

(* How far the upgrades have come.                                         *)
StepInv ==
  /\ source \in Source
  /\ version = NoVersion => doc = origin
  /\ version # NoVersion => version \in Target
  /\ version # NoVersion /\ direct =>
       /\ NotOlder(version, source)
       /\ \A s \in Section : \A k \in ListedKeys(s) :
            Ahead(s, k) \/ SameKey(doc, Upgraded(origin, version), s, k)

LEMMA Versions ==
  /\ \A v \in Source \cup Target : v \in Version /\ UpgradeAccepts(v)
  /\ \A v \in Source \cup Target : v # NoVersion
BY UpgradeAssumption, Components DEF Version

LEMMA NextStep == StepInv /\ [Next]_vars => StepInv'
<1> SUFFICES ASSUME StepInv, [Next]_vars PROVE StepInv'
  OBVIOUS
<1>1. CASE UNCHANGED vars
  BY <1>1 DEF vars, StepInv, Ahead
<1>2. ASSUME NEW v \in Target, Upgrade(v)
      PROVE  StepInv'
  <2>1. /\ doc' = Upgraded(doc, v)
        /\ version' = v
        /\ direct' = (direct /\ NotOlder(v, IF version = NoVersion THEN source ELSE version))
        /\ origin' = origin /\ source' = source
    BY <1>2 DEF Upgrade
  <2>2. source \in Source /\ v \in Version /\ v # NoVersion
    BY Versions DEF StepInv
  <2>3. SUFFICES ASSUME direct'
                 PROVE  /\ NotOlder(v, source)
                        /\ \A s \in Section : \A k \in ListedKeys(s) :
                             Ahead(s, k) \/ SameKey(doc', Upgraded(origin, v), s, k)
    BY <2>1, <2>2 DEF StepInv, Ahead
  <2>4. CASE version = NoVersion
    <3>1. doc' = Upgraded(origin, v)
      BY <2>1, <2>4 DEF StepInv
    <3> QED
      BY <2>1, <2>3, <2>4, <3>1 DEF SameKey
  <2>5. CASE version # NoVersion
    <3>1. /\ direct /\ NotOlder(v, version) /\ NotOlder(version, source)
          /\ version \in Version /\ source \in Version
          /\ UpgradeAccepts(version) /\ UpgradeAccepts(source) /\ UpgradeAccepts(v)
      BY <2>1, <2>2, <2>3, <2>5, Versions DEF StepInv
    <3>2. NotOlder(v, source)
      BY <2>2, <3>1, NotOlderTransitive
    <3>3. ASSUME NEW s \in Section, NEW k \in ListedKeys(s), ~Ahead(s, k)
          PROVE  SameKey(Upgraded(doc, v), Upgraded(origin, v), s, k)
      <4>1. SameKey(doc, Upgraded(origin, version), s, k)
        BY <2>5, <3>1, <3>3 DEF StepInv
      <4>2. k \in RequiredKeys(s) /\ origin[s] # Missing /\ k \in DOMAIN origin[s]
              => ShouldAdd(s, k, version)
        BY <3>1, <3>3, KeysStay DEF Ahead
      <4> QED
        BY <2>2, <3>1, <4>1, <4>2, StepAgrees
    <3> QED
      BY <2>1, <3>2, <3>3
  <2> QED
    BY <2>4, <2>5
<1> QED
  BY <1>1, <1>2 DEF Next

(* Upgrading version by version leads to the document that one upgrade to  *)
(* the last version leads to, whatever document and whatever ascending     *)
(* versions, up to keys the document has before the schema gives them to   *)
(* its version (json_upgrade.c:87-178).                                    *)
THEOREM StepsAgree == Spec => []StepwiseAsDirect
<1>1. Init => StepInv
  BY DEF Init, StepInv
<1>2. StepInv => StepwiseAsDirect
  BY DEF StepInv, StepwiseAsDirect, SameKey, Agree
<1> QED
  BY <1>1, <1>2, NextStep, PTL DEF Spec

------------------------------------------------------------------------------
(***************************************************************************)
(* The keys of the converter and those of the schema                       *)
(***************************************************************************)
(* Whether a key that is never retired is in a version.                    *)
LEMMA InVersion ==
  ASSUME NEW s \in Section, NEW v \in Version, UpgradeAccepts(v),
         NEW k, k \notin RetiredKeys \cup {"lrTxpower"},
         CreatedVersion(s, k) # NoVersion => NotOlder(v, CreatedVersion(s, k)),
         k \in LongRangeKeys => UpgradeFormat(v) >= 2
  PROVE  ShouldAdd(s, k, v)
<1>1. UpgradeFormat(v) \in 0 .. 5
  BY Components, FormatsAscend DEF NotOlder
<1>2. Removed(s, k) = -1
  BY DEF Removed
<1>3. CASE CreatedVersion(s, k) # NoVersion
  BY <1>2, <1>3 DEF ShouldAdd
<1>4. CASE CreatedVersion(s, k) = NoVersion
  <2>1. Created(s, k) = IF k \in LongRangeKeys THEN 2 ELSE 0
    BY <1>4 DEF Created
  <2> QED
    BY <1>1, <1>2, <2>1 DEF ShouldAdd
<1> QED
  BY <1>3, <1>4

(* The versions that bring keys, as the code compares numbers.             *)
LEMMA VersionSteps ==
  ASSUME NEW v \in Version, UpgradeAccepts(v)
  PROVE  /\ NotOlder(v, <<7, 11, 0>>)
         /\ ~PreV7_15_3(v) => NotOlder(v, <<7, 15, 3>>)
         /\ Is719OrNewer(v) => NotOlder(v, <<7, 19, 0>>)
         /\ Is720OrNewer(v) => NotOlder(v, <<7, 20, 0>>)
         /\ ReadStruct(v) = "7_21_x" => NotOlder(v, <<7, 21, 0>>)
         /\ SinceLongRange(v) => UpgradeFormat(v) >= 2
<1>1. /\ Major(v) \in Nat /\ Minor(v) \in Nat /\ Patch(v) \in Nat /\ v # NoVersion
      /\ \/ Major(v) >= 8
         \/ Major(v) = 7 /\ Minor(v) \in {11, 12, 15, 16, 17, 18} \cup 19 .. 24
      /\ UpgradeFormat(v) = IF Major(v) >= 8 THEN 5 ELSE UpgradeFormat7(Minor(v))
  BY AcceptedVersions, Components
<1>2. \A a \in Nat, b \in Nat :
        NotOlder(v, <<7, a, b>>) <=>
          \/ Major(v) > 7
          \/ Major(v) = 7 /\ Minor(v) > a
          \/ Major(v) = 7 /\ Minor(v) = a /\ Patch(v) >= b
  BY <1>1 DEF NotOlder, Major, Minor, Patch
<1>3. NotOlder(v, <<7, 11, 0>>)
  BY <1>1, <1>2
<1>4. ~PreV7_15_3(v) => NotOlder(v, <<7, 15, 3>>)
  BY <1>1, <1>2 DEF PreV7_15_3
<1>5. Is719OrNewer(v) => NotOlder(v, <<7, 19, 0>>)
  BY <1>1, <1>2 DEF Is719OrNewer
<1>6. Is720OrNewer(v) => NotOlder(v, <<7, 20, 0>>)
  BY <1>1, <1>2 DEF Is720OrNewer
<1>7. ReadStruct(v) = "7_21_x" => NotOlder(v, <<7, 21, 0>>)
  BY <1>1, <1>2 DEF ReadStruct, PreV7_21
<1>8. SinceLongRange(v) => UpgradeFormat(v) >= 2
  BY <1>1, UpgradeRows DEF SinceLongRange, Generation, Is719OrNewer
<1> QED
  BY <1>3, <1>4, <1>5, <1>6, <1>7, <1>8

(* What the converter exports the schema has for that version, up to the   *)
(* transmit power of a Long Range node and the DC/DC configuration.        *)
LEMMA ExportedListed ==
  ASSUME NEW s \in Section, NEW v \in Version, UpgradeAccepts(v),
         NEW k \in ExportedKeys(s, v),
         ~(s = "lrNode" /\ k \in {"txPower", "lrTxPower"}),
         ~(k = "dcdcConfig" /\ ~ShouldAdd(s, k, v))
  PROVE  /\ k \in ListedKeys(s)
         /\ k \in RequiredKeys(s) => ShouldAdd(s, k, v)
<1>1. CASE k = "dcdcConfig"
  <2>1. s = "controller"
    BY <1>1 DEF Section, ExportedKeys, RequiredKeys, CapabilityKeys, NodeFlagKeys
  <2> QED
    BY <1>1, <2>1 DEF ListedKeys, RequiredKeys
<1>2. CASE k # "dcdcConfig" /\ s = "controller"
  <2>1. \/ k \in InfoKeys \cup VersionKeys
        \/ k \in SettingKeys \cup {"applicationData"}
        \/ k \in LongRangeKeys /\ SinceLongRange(v)
        \/ k = "longRangeChannelAutoMode" /\ Is719OrNewer(v)
        \/ k = "applicationName" /\ Is720OrNewer(v)
    BY <1>2 DEF ExportedKeys
  <2>2. k \in RequiredKeys(s)
    BY <1>2, <2>1 DEF RequiredKeys
  <2>3. k \notin RetiredKeys \cup {"lrTxpower"}
    BY <2>1 DEF RetiredKeys, InfoKeys, ConfigurationKeys, VersionKeys, SettingKeys, LongRangeKeys
  <2>4. CASE k \in InfoKeys \cup VersionKeys
    <3>1. CreatedVersion(s, k) = NoVersion
      BY <1>2, <2>4 DEF CreatedVersion, InfoKeys, ConfigurationKeys, VersionKeys, SettingKeys
    <3>2. k \notin LongRangeKeys
      BY <2>4 DEF LongRangeKeys, InfoKeys, ConfigurationKeys, VersionKeys
    <3> QED
      BY <2>2, <2>3, <3>1, <3>2, InVersion DEF ListedKeys
  <2>5. CASE k \in SettingKeys \cup {"applicationData"}
    <3>1. CreatedVersion(s, k) = <<7, 11, 0>>
      BY <1>2, <2>5 DEF CreatedVersion, SettingKeys
    <3>2. k \notin LongRangeKeys
      BY <2>5 DEF LongRangeKeys, SettingKeys
    <3> QED
      BY <2>2, <2>3, <3>1, <3>2, InVersion, VersionSteps DEF ListedKeys
  <2>6. CASE k \in LongRangeKeys /\ SinceLongRange(v)
    <3>1. CreatedVersion(s, k) = NoVersion
      BY <1>2, <2>6 DEF CreatedVersion, LongRangeKeys, SettingKeys
    <3> QED
      BY <2>2, <2>3, <2>6, <3>1, InVersion, VersionSteps DEF ListedKeys
  <2>7. CASE k = "longRangeChannelAutoMode" /\ Is719OrNewer(v)
    <3>1. CreatedVersion(s, k) = <<7, 19, 0>>
      BY <1>2, <2>7 DEF CreatedVersion, SettingKeys
    <3>2. k \notin LongRangeKeys
      BY <2>7 DEF LongRangeKeys
    <3> QED
      BY <2>2, <2>3, <2>7, <3>1, <3>2, InVersion, VersionSteps DEF ListedKeys
  <2>8. CASE k = "applicationName" /\ Is720OrNewer(v)
    <3>1. CreatedVersion(s, k) = <<7, 20, 0>>
      BY <1>2, <2>8 DEF CreatedVersion, SettingKeys
    <3>2. k \notin LongRangeKeys
      BY <2>8 DEF LongRangeKeys
    <3> QED
      BY <2>2, <2>3, <2>8, <3>1, <3>2, InVersion, VersionSteps DEF ListedKeys
  <2> QED
    BY <2>1, <2>4, <2>5, <2>6, <2>7, <2>8
<1>3. CASE s = "cmdClasses"
  <2>1. /\ k \in {"includedInsecurely", "includedSecurelyInsecureCCs",
                  "includedSecurelySecureCCs"}
        /\ k \in RequiredKeys(s)
    BY <1>3 DEF ExportedKeys, RequiredKeys
  <2>2. /\ k \notin RetiredKeys \cup {"lrTxpower"} /\ k \notin LongRangeKeys
        /\ CreatedVersion(s, k) = <<7, 11, 0>>
    BY <1>3, <2>1 DEF RetiredKeys, LongRangeKeys, CreatedVersion
  <2> QED
    BY <2>1, <2>2, InVersion, VersionSteps DEF ListedKeys
<1>4. CASE s = "rfConfig"
  <2>1. /\ \/ k \in {"rfRegion", "txPower", "measured0dBm"}
           \/ k \in {"enablePTI", "maxTxPower"} /\ ~PreV7_15_3(v)
           \/ k = "nodeIdType" /\ ReadStruct(v) = "7_21_x"
        /\ k \in RequiredKeys(s)
    BY <1>4 DEF ExportedKeys, RequiredKeys
  <2>2. k \notin RetiredKeys \cup {"lrTxpower"} /\ k \notin LongRangeKeys
    BY <2>1 DEF RetiredKeys, LongRangeKeys
  <2>3. \/ CreatedVersion(s, k) = <<7, 11, 0>>
        \/ CreatedVersion(s, k) = <<7, 15, 3>> /\ ~PreV7_15_3(v)
        \/ CreatedVersion(s, k) = <<7, 21, 0>> /\ ReadStruct(v) = "7_21_x"
    BY <1>4, <2>1 DEF CreatedVersion
  <2> QED
    BY <2>1, <2>2, <2>3, InVersion, VersionSteps DEF ListedKeys
<1>5. CASE s = "sucEntry"
  <2>1. k \in {"nodeId", "changeType", "supportedCCs", "controlledCCs"} /\ k \in ListedKeys(s)
    BY <1>5 DEF ExportedKeys, ListedKeys, RequiredKeys
  <2>2. /\ k \notin RetiredKeys \cup {"lrTxpower"} /\ k \notin LongRangeKeys
        /\ CreatedVersion(s, k) = NoVersion
    BY <1>5, <2>1 DEF RetiredKeys, LongRangeKeys, CreatedVersion
  <2> QED
    BY <2>1, <2>2, InVersion
<1>6. CASE s = "node"
  <2>1. /\ k \in CapabilityKeys \cup NodeFlagKeys
                   \cup {"isFrequentListening", "specificDeviceClass", "lwr", "nlwr"}
        /\ k \in ListedKeys(s)
    BY <1>6 DEF ExportedKeys, ListedKeys, RequiredKeys
  <2>2. /\ k \notin RetiredKeys \cup {"lrTxpower"} /\ k \notin LongRangeKeys
        /\ CreatedVersion(s, k) = NoVersion
    BY <1>6, <2>1 DEF RetiredKeys, LongRangeKeys, CreatedVersion, CapabilityKeys, NodeFlagKeys
  <2> QED
    BY <2>1, <2>2, InVersion
<1>7. CASE s = "lrNode"
  <2>1. /\ k \in CapabilityKeys \cup {"isFrequentListening", "specificDeviceClass"}
        /\ k \in ListedKeys(s)
    BY <1>7 DEF ExportedKeys, ListedKeys, RequiredKeys
  <2>2. /\ k \notin RetiredKeys \cup {"lrTxpower"} /\ k \notin LongRangeKeys
        /\ CreatedVersion(s, k) = NoVersion
    BY <1>7, <2>1 DEF RetiredKeys, LongRangeKeys, CreatedVersion, CapabilityKeys
  <2> QED
    BY <2>1, <2>2, InVersion
<1> QED
  BY <1>1, <1>2, <1>3, <1>4, <1>5, <1>6, <1>7 DEF Section

(* ExportedKeysKept, for every exported version and all ascending upgrades.*)
KeptInv ==
  /\ source \in Source
  /\ version # NoVersion => version \in Target
  /\ version = NoVersion => doc = origin
  /\ version # NoVersion /\ direct => NotOlder(version, source)
  /\ direct /\ origin = ExportedDocument(source) =>
       \A s \in Section : \A k \in ExportedKeys(s, source) :
         \/ doc[s] # Missing /\ k \in DOMAIN doc[s] /\ doc[s][k] = "value"
         \/ s = "lrNode" /\ k \in {"txPower", "lrTxPower"}
         \/ k = "dcdcConfig" /\ ~ShouldAdd(s, k, source)

LEMMA NeverMissing ==
  ASSUME NEW s \in Section, NEW k \in ListedKeys(s), NEW object, k \in DOMAIN object
  PROVE  object # Missing
<1>1. k # "missing" /\ DOMAIN Missing = {"missing"}
  BY Listed DEF Missing
<1> QED
  BY <1>1

THEOREM ExportsKept == Spec => []ExportedKeysKept
<1>1. Init => KeptInv
  <2> SUFFICES ASSUME Init PROVE KeptInv
    OBVIOUS
  <2>1. source \in Source /\ version = NoVersion /\ doc = origin
    BY DEF Init
  <2>2. ASSUME NEW s \in Section, NEW k \in ExportedKeys(s, source),
               origin = ExportedDocument(source),
               ~(s = "lrNode" /\ k \in {"txPower", "lrTxPower"}),
               ~(k = "dcdcConfig" /\ ~ShouldAdd(s, k, source))
        PROVE  doc[s] # Missing /\ k \in DOMAIN doc[s] /\ doc[s][k] = "value"
    <3>1. k \in DOMAIN doc[s] /\ doc[s][k] = "value"
      BY <2>1, <2>2 DEF ExportedDocument
    <3>2. k \in ListedKeys(s)
      BY <2>1, <2>2, ExportedListed, Versions
    <3> QED
      BY <3>1, <3>2, NeverMissing
  <2> QED
    BY <2>1, <2>2 DEF KeptInv
<1>2. KeptInv /\ [Next]_vars => KeptInv'
  <2> SUFFICES ASSUME KeptInv, [Next]_vars PROVE KeptInv'
    OBVIOUS
  <2>1. CASE UNCHANGED vars
    BY <2>1 DEF vars, KeptInv
  <2>2. ASSUME NEW v \in Target, Upgrade(v)
        PROVE  KeptInv'
    <3>1. /\ doc' = Upgraded(doc, v) /\ version' = v
          /\ direct' = (direct /\ NotOlder(v, IF version = NoVersion THEN source ELSE version))
          /\ origin' = origin /\ source' = source
      BY <2>2 DEF Upgrade
    <3>2. /\ source \in Source /\ source \in Version /\ UpgradeAccepts(source)
          /\ v \in Version /\ v # NoVersion /\ UpgradeAccepts(v)
      BY Versions DEF KeptInv
    <3>3. ASSUME direct'
          PROVE  direct /\ NotOlder(v, source)
      <4>1. CASE version = NoVersion
        BY <3>1, <3>3, <4>1
      <4>2. CASE version # NoVersion
        <5>1. /\ direct /\ NotOlder(v, version) /\ NotOlder(version, source)
              /\ version \in Version
          BY <3>1, <3>3, <4>2, Versions DEF KeptInv
        <5> QED
          BY <3>2, <5>1, NotOlderTransitive
      <4> QED
        BY <4>1, <4>2
    <3>4. ASSUME NEW s \in Section, NEW k \in ExportedKeys(s, source), direct',
                 origin = ExportedDocument(source),
                 ~(s = "lrNode" /\ k \in {"txPower", "lrTxPower"}),
                 ~(k = "dcdcConfig" /\ ~ShouldAdd(s, k, source))
          PROVE  doc'[s] # Missing /\ k \in DOMAIN doc'[s] /\ doc'[s][k] = "value"
      <4>1. doc[s] # Missing /\ k \in DOMAIN doc[s] /\ doc[s][k] = "value"
        BY <3>3, <3>4 DEF KeptInv
      <4>2. k \in ListedKeys(s) /\ (k \in RequiredKeys(s) => ShouldAdd(s, k, source))
        BY <3>2, <3>4, ExportedListed
      <4>3. k \in RequiredKeys(s) => ShouldAdd(s, k, v)
        BY <3>2, <3>3, <3>4, <4>2, KeysStay
      <4>4. k \in DOMAIN doc'[s] /\ doc'[s][k] = "value"
        BY <3>1, <4>1, <4>2, <4>3, SectionKeeps
      <4> QED
        BY <4>2, <4>4, NeverMissing
    <3> QED
      BY <3>1, <3>2, <3>3, <3>4 DEF KeptInv
  <2> QED
    BY <2>1, <2>2 DEF Next
<1>3. KeptInv => ExportedKeysKept
  BY DEF KeptInv, ExportedKeysKept, Keys
<1> QED
  BY <1>1, <1>2, <1>3, PTL DEF Spec

------------------------------------------------------------------------------
(* What the importer requires, up to the gaps, the schema has for every    *)
(* version, with a default the importer reads.                             *)
LEMMA ImportedAdded ==
  ASSUME NEW s \in Section \ {"sucEntry"}, NEW v \in Version, UpgradeAccepts(v),
         NEW k \in ImportedKeys(s, v), <<s, k>> \notin Gaps
  PROVE  \/ s = "controller" /\ k \in VersionKeys
         \/ k \in Added(s, v) /\ Default(s, k) = "default"
<1>1. ASSUME k \in RequiredKeys(s), k \notin RetiredKeys \cup {"lrTxpower"},
             CreatedVersion(s, k) # NoVersion => NotOlder(v, CreatedVersion(s, k)),
             k \in LongRangeKeys => UpgradeFormat(v) >= 2,
             HasDefault(s, k), Default(s, k) = "default"
      PROVE  k \in Added(s, v) /\ Default(s, k) = "default"
  BY <1>1, InVersion DEF Added
<1>2. CASE s = "controller" /\ k \notin VersionKeys
  <2>1. /\ \/ k \in InfoKeys
           \/ k \in SettingKeys \cup {"applicationData"}
           \/ k \in LongRangeKeys /\ SinceLongRange(v)
           \/ k = "longRangeChannelAutoMode" /\ Is719OrNewer(v)
        /\ k # "specificDeviceClass"
    BY <1>2 DEF ImportedKeys, Gaps
  <2>2. k \in RequiredKeys(s)
    BY <1>2, <2>1 DEF RequiredKeys
  <2>3. k \notin RetiredKeys \cup {"lrTxpower"}
    BY <2>1 DEF RetiredKeys, InfoKeys, ConfigurationKeys, SettingKeys, LongRangeKeys
  <2>4. HasDefault(s, k) /\ Default(s, k) = "default"
    BY <1>2, <2>1 DEF HasDefault, Default
  <2>5. CASE k \in InfoKeys
    <3>1. CreatedVersion(s, k) = NoVersion
      BY <1>2, <2>5 DEF CreatedVersion, InfoKeys, ConfigurationKeys, SettingKeys
    <3>2. k \notin LongRangeKeys
      BY <2>5 DEF LongRangeKeys, InfoKeys, ConfigurationKeys
    <3> QED
      BY <1>1, <2>2, <2>3, <2>4, <3>1, <3>2
  <2>6. CASE k \in SettingKeys \cup {"applicationData"}
    <3>1. CreatedVersion(s, k) = <<7, 11, 0>>
      BY <1>2, <2>6 DEF CreatedVersion, SettingKeys
    <3>2. k \notin LongRangeKeys
      BY <2>6 DEF LongRangeKeys, SettingKeys
    <3> QED
      BY <1>1, <2>2, <2>3, <2>4, <3>1, <3>2, VersionSteps
  <2>7. CASE k \in LongRangeKeys /\ SinceLongRange(v)
    <3>1. CreatedVersion(s, k) = NoVersion
      BY <1>2, <2>7 DEF CreatedVersion, LongRangeKeys, SettingKeys
    <3> QED
      BY <1>1, <2>2, <2>3, <2>4, <2>7, <3>1, VersionSteps
  <2>8. CASE k = "longRangeChannelAutoMode" /\ Is719OrNewer(v)
    <3>1. CreatedVersion(s, k) = <<7, 19, 0>>
      BY <1>2, <2>8 DEF CreatedVersion, SettingKeys
    <3>2. k \notin LongRangeKeys
      BY <2>8 DEF LongRangeKeys
    <3> QED
      BY <1>1, <2>2, <2>3, <2>4, <2>8, <3>1, <3>2, VersionSteps
  <2> QED
    BY <2>1, <2>5, <2>6, <2>7, <2>8
<1>3. CASE s = "cmdClasses"
  <2>1. /\ k \in {"includedInsecurely", "includedSecurelyInsecureCCs",
                  "includedSecurelySecureCCs"}
        /\ k \in RequiredKeys(s)
    BY <1>3 DEF ImportedKeys, RequiredKeys
  <2>2. /\ k \notin RetiredKeys \cup {"lrTxpower"} /\ k \notin LongRangeKeys
        /\ CreatedVersion(s, k) = <<7, 11, 0>>
        /\ HasDefault(s, k) /\ Default(s, k) = "default"
    BY <1>3, <2>1 DEF RetiredKeys, LongRangeKeys, CreatedVersion, HasDefault, Default
  <2> QED
    BY <1>1, <2>1, <2>2, VersionSteps
<1>4. CASE s = "rfConfig"
  BY <1>4 DEF ImportedKeys
<1>5. CASE s = "node"
  <2>1. /\ k \in CapabilityKeys \cup {"isVirtual", "neighbours", "routeSlaveSuc"}
        /\ k \in RequiredKeys(s)
    BY <1>5 DEF ImportedKeys, RequiredKeys, NodeFlagKeys, Gaps
  <2>2. /\ k \notin RetiredKeys \cup {"lrTxpower"} /\ k \notin LongRangeKeys
        /\ CreatedVersion(s, k) = NoVersion
        /\ HasDefault(s, k) /\ Default(s, k) = "default"
    BY <1>5, <2>1 DEF RetiredKeys, LongRangeKeys, CreatedVersion, CapabilityKeys, HasDefault,
                      Default
  <2> QED
    BY <1>1, <2>1, <2>2
<1>6. CASE s = "lrNode"
  <2>1. /\ k \in {"isListening", "isRouting", "optionalFunctionality", "supportsBeaming",
                  "genericDeviceClass"}
        /\ k \in RequiredKeys(s)
    BY <1>6 DEF ImportedKeys, RequiredKeys, Gaps
  <2>2. /\ k \notin RetiredKeys \cup {"lrTxpower"} /\ k \notin LongRangeKeys
        /\ CreatedVersion(s, k) = NoVersion
        /\ HasDefault(s, k) /\ Default(s, k) = "default"
    BY <1>6, <2>1 DEF RetiredKeys, LongRangeKeys, CreatedVersion, HasDefault, Default
  <2> QED
    BY <1>1, <2>1, <2>2
<1> QED
  BY <1>2, <1>3, <1>4, <1>5, <1>6 DEF Section

(* The sections that are there, what they say, and what the last upgrade   *)
(* has put into them.                                                      *)
SectionsThere(d) ==
  \A s \in Section : d[s] = Missing => s \in {"sucEntry", "cmdClasses", "rfConfig"}
ValuesOrDefaults(d) ==
  \A s \in Section : \A k \in DOMAIN d[s] :
    d[s] # Missing => d[s][k] \in {"value", Default(s, k)}
ServedInv ==
  /\ SectionsThere(doc)
  /\ ValuesOrDefaults(doc)
  /\ doc["sucEntry"] = Missing <=> origin["sucEntry"] = Missing
  /\ version # NoVersion =>
       /\ version \in Target
       /\ \A s \in CreatedSections : doc[s] # Missing
       /\ VersionKeys \subseteq DOMAIN doc["controller"]
       /\ \A k \in VersionKeys : doc["controller"][k] = "value"
       /\ \A s \in Section : doc[s] # Missing => Added(s, version) \subseteq DOMAIN doc[s]

LEMMA ServedByUpgrade ==
  ASSUME NEW d, NEW v \in Version, UpgradeAccepts(v), SectionsThere(d), ValuesOrDefaults(d)
  PROVE  /\ SectionsThere(Upgraded(d, v))
         /\ ValuesOrDefaults(Upgraded(d, v))
         /\ Upgraded(d, v)["sucEntry"] = Missing <=> d["sucEntry"] = Missing
         /\ \A s \in CreatedSections : Upgraded(d, v)[s] # Missing
         /\ VersionKeys \subseteq DOMAIN Upgraded(d, v)["controller"]
         /\ \A k \in VersionKeys : Upgraded(d, v)["controller"][k] = "value"
         /\ \A s \in Section : Upgraded(d, v)[s] # Missing =>
              Added(s, v) \subseteq DOMAIN Upgraded(d, v)[s]
<1>1. CreatedSections \subseteq Section /\ "sucEntry" \in Section \ CreatedSections
  BY DEF CreatedSections, Section
<1>2. ASSUME NEW s \in Section
      PROVE  Upgraded(d, v)[s] = Missing <=> d[s] = Missing /\ s \notin CreatedSections
  BY SectionContents, SectionStaysMissing
<1>3. /\ SectionsThere(Upgraded(d, v))
      /\ Upgraded(d, v)["sucEntry"] = Missing <=> d["sucEntry"] = Missing
      /\ \A s \in CreatedSections : Upgraded(d, v)[s] # Missing
  BY <1>1, <1>2 DEF SectionsThere
<1>4. ASSUME NEW s \in Section, NEW k \in DOMAIN Upgraded(d, v)[s], Upgraded(d, v)[s] # Missing
      PROVE  Upgraded(d, v)[s][k] \in {"value", Default(s, k)}
  <2>1. d[s] # Missing \/ s \in CreatedSections
    BY <1>2, <1>4
  <2>2. Upgraded(d, v)[s][k] =
          IF s = "controller" /\ k \in VersionKeys THEN "value"
          ELSE IF k \in DOMAIN Start(d, s) THEN Start(d, s)[k]
          ELSE Default(s, k)
    BY <2>1, SectionContents
  <2>3. k \in DOMAIN Start(d, s) => Start(d, s)[k] \in {"value", Default(s, k)}
    BY DEF Start, ValuesOrDefaults
  <2> QED
    BY <2>2, <2>3
<1>5. ASSUME NEW s \in Section, Upgraded(d, v)[s] # Missing, NEW k \in Added(s, v)
      PROVE  k \in DOMAIN Upgraded(d, v)[s]
  <2>1. d[s] # Missing \/ s \in CreatedSections
    BY <1>2, <1>5
  <2>2. k \in ListedKeys(s) \ Removing(s, v)
    BY Listed DEF Added, Removing
  <2> QED
    BY <2>1, <2>2, SectionContents
<1>6. /\ VersionKeys \subseteq DOMAIN Upgraded(d, v)["controller"]
      /\ \A k \in VersionKeys : Upgraded(d, v)["controller"][k] = "value"
  BY ControllerUpgraded DEF Version
<1> QED
  BY <1>3, <1>4, <1>5, <1>6 DEF ValuesOrDefaults

(* The documents to start from.                                            *)
LEMMA ServedAtFirst == Init => ServedInv
<1> SUFFICES ASSUME Init PROVE ServedInv
  OBVIOUS
<1> DEFINE exported == ExportedDocument(source)
<1>1. /\ DOMAIN exported = Section
      /\ exported = [s \in Section |-> exported[s]]
      /\ \A s \in Section : /\ DOMAIN exported[s] = ExportedKeys(s, source)
                            /\ \A k \in DOMAIN exported[s] : exported[s][k] = "value"
  BY DEF ExportedDocument
<1>2. ASSUME NEW s \in Section
      PROVE  \E a \in ExportedKeys(s, source), b \in ExportedKeys(s, source) :
               a # b /\ a # "missing" /\ b # "missing"
  <2>1. CASE s = "controller"
    <3>1. "homeId" \in ExportedKeys(s, source) /\ "nodeId" \in ExportedKeys(s, source)
      BY <2>1 DEF ExportedKeys, InfoKeys
    <3> QED
      BY <3>1
  <2>2. CASE s = "cmdClasses"
    <3>1. /\ "includedInsecurely" \in ExportedKeys(s, source)
          /\ "includedSecurelyInsecureCCs" \in ExportedKeys(s, source)
      BY <2>2 DEF ExportedKeys, RequiredKeys
    <3> QED
      BY <3>1
  <2>3. CASE s = "rfConfig"
    <3>1. "rfRegion" \in ExportedKeys(s, source) /\ "txPower" \in ExportedKeys(s, source)
      BY <2>3 DEF ExportedKeys
    <3> QED
      BY <3>1
  <2>4. CASE s = "sucEntry"
    <3>1. "nodeId" \in ExportedKeys(s, source) /\ "changeType" \in ExportedKeys(s, source)
      BY <2>4 DEF ExportedKeys
    <3> QED
      BY <3>1
  <2>5. CASE s = "node"
    <3>1. "lwr" \in ExportedKeys(s, source) /\ "nlwr" \in ExportedKeys(s, source)
      BY <2>5 DEF ExportedKeys
    <3> QED
      BY <3>1
  <2>6. CASE s = "lrNode"
    <3>1. /\ "isFrequentListening" \in ExportedKeys(s, source)
          /\ "specificDeviceClass" \in ExportedKeys(s, source)
      BY <2>6 DEF ExportedKeys
    <3> QED
      BY <3>1
  <2> QED
    BY <2>1, <2>2, <2>3, <2>4, <2>5, <2>6 DEF Section
<1>3. DOMAIN Missing = {"missing"}
  BY DEF Missing
<1> HIDE DEF exported
<1>4. ASSUME NEW s \in Section
      PROVE  \/ origin[s] = Missing /\ s \in {"sucEntry", "cmdClasses", "rfConfig"}
             \/ origin[s] = exported[s]
             \/ \E k \in DOMAIN exported[s] : origin[s] = Without(exported[s], k)
             \/ \E k : origin[s] = With(exported[s], k)
  BY <1>1 DEF Init, exported, CreatedSections
<1>5. ASSUME NEW s \in Section
      PROVE  /\ origin[s] = Missing => s \in {"sucEntry", "cmdClasses", "rfConfig"}
             /\ \A k \in DOMAIN origin[s] : origin[s] # Missing => origin[s][k] = "value"
  <2>1. PICK a \in DOMAIN exported[s], b \in DOMAIN exported[s] :
               a # b /\ a # "missing" /\ b # "missing"
    BY <1>1, <1>2
  <2>2. CASE origin[s] = Missing /\ s \in {"sucEntry", "cmdClasses", "rfConfig"}
    BY <2>2
  <2>3. CASE origin[s] = exported[s]
    BY <1>1, <1>3, <2>1, <2>3
  <2>4. ASSUME NEW k \in DOMAIN exported[s], origin[s] = Without(exported[s], k)
        PROVE  /\ origin[s] = Missing => s \in {"sucEntry", "cmdClasses", "rfConfig"}
               /\ \A j \in DOMAIN origin[s] : origin[s] # Missing => origin[s][j] = "value"
    <3>1. /\ DOMAIN origin[s] = DOMAIN exported[s] \ {k}
          /\ \A j \in DOMAIN origin[s] : origin[s][j] = exported[s][j]
      BY <2>4 DEF Without
    <3>2. a \in DOMAIN origin[s] \/ b \in DOMAIN origin[s]
      BY <2>1, <3>1
    <3> QED
      BY <1>1, <1>3, <2>1, <3>1, <3>2
  <2>5. ASSUME NEW k, origin[s] = With(exported[s], k)
        PROVE  /\ origin[s] = Missing => s \in {"sucEntry", "cmdClasses", "rfConfig"}
               /\ \A j \in DOMAIN origin[s] : origin[s] # Missing => origin[s][j] = "value"
    <3>1. /\ DOMAIN origin[s] = DOMAIN exported[s] \cup {k}
          /\ \A j \in DOMAIN origin[s] : origin[s][j] = "value"
      BY <2>5 DEF With
    <3> QED
      BY <1>3, <2>1, <3>1
  <2> QED
    BY <1>4, <2>2, <2>3, <2>4, <2>5
<1>6. doc = origin /\ version = NoVersion
  BY DEF Init
<1> QED
  BY <1>5, <1>6 DEF ServedInv, SectionsThere, ValuesOrDefaults

(* ImporterServed, for every document and sequence of target versions.     *)
THEOREM ImportsServed == Spec => []ImporterServed
<1>1. ServedInv /\ [Next]_vars => ServedInv'
  <2> SUFFICES ASSUME ServedInv, [Next]_vars PROVE ServedInv'
    OBVIOUS
  <2>1. CASE UNCHANGED vars
    BY <2>1 DEF vars, ServedInv, SectionsThere, ValuesOrDefaults
  <2>2. ASSUME NEW v \in Target, Upgrade(v)
        PROVE  ServedInv'
    <3>1. doc' = Upgraded(doc, v) /\ version' = v /\ origin' = origin
      BY <2>2 DEF Upgrade
    <3>2. /\ SectionsThere(Upgraded(doc, v)) /\ ValuesOrDefaults(Upgraded(doc, v))
          /\ Upgraded(doc, v)["sucEntry"] = Missing <=> doc["sucEntry"] = Missing
          /\ \A s \in CreatedSections : Upgraded(doc, v)[s] # Missing
          /\ VersionKeys \subseteq DOMAIN Upgraded(doc, v)["controller"]
          /\ \A k \in VersionKeys : Upgraded(doc, v)["controller"][k] = "value"
          /\ \A s \in Section : Upgraded(doc, v)[s] # Missing =>
               Added(s, v) \subseteq DOMAIN Upgraded(doc, v)[s]
      BY Versions, ServedByUpgrade DEF ServedInv
    <3>3. SectionsThere(doc)' /\ ValuesOrDefaults(doc)'
      BY <3>1, <3>2 DEF SectionsThere, ValuesOrDefaults
    <3> QED
      BY <3>1, <3>2, <3>3 DEF ServedInv
  <2> QED
    BY <2>1, <2>2 DEF Next
<1>2. ServedInv => ImporterServed
  <2> SUFFICES ASSUME ServedInv, version # NoVersion PROVE ImporterServed
    BY DEF ImporterServed
  <2>1. ASSUME NEW s \in Section \ {"sucEntry"}, NEW k \in ImportedKeys(s, version),
               <<s, k>> \notin Gaps
        PROVE  k \in Keys(s) /\ doc[s][k] # "misfit"
    <3>1. \/ s = "controller" /\ k \in VersionKeys
          \/ k \in Added(s, version) /\ Default(s, k) = "default"
      BY <2>1, Versions, ImportedAdded DEF ServedInv
    <3>2. s # "rfConfig"
      BY <2>1 DEF ImportedKeys
    <3>3. doc[s] # Missing
      BY <3>2 DEF ServedInv, SectionsThere, CreatedSections
    <3>4. k \in DOMAIN doc[s]
      BY <3>1, <3>3 DEF ServedInv
    <3>5. doc[s][k] \in {"value", "default"}
      BY <3>1, <3>3, <3>4 DEF ServedInv, ValuesOrDefaults
    <3> QED
      BY <3>3, <3>4, <3>5 DEF Keys
  <2> QED
    BY <2>1 DEF ImporterServed, ServedInv
<1> QED
  BY <1>1, <1>2, ServedAtFirst, PTL DEF Spec
==============================================================================
