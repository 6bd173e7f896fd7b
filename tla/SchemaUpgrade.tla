---------------------------- MODULE SchemaUpgrade ----------------------------
(***************************************************************************)
(* A JSON document and the upgrades it goes through (-u), one version      *)
(* after another, in any order.  The document holds one object of each     *)
(* section; the SUC list has one entry or is missing.  A key is at the     *)
(* value it was exported with, or at a default of the schema.              *)
(***************************************************************************)
EXTENDS SchemaRules

CONSTANTS
  Source,       \* the versions of the documents to start from
  Target,       \* the versions they are upgraded to
  Foreign,      \* a key that is in no schema
  MaxUpgrades   \* bound on the number of upgrades

ASSUME UpgradeAssumption ==
  /\ \A v \in Source \cup Target : v \in Nat \X Nat \X Nat /\ UpgradeAccepts(v)
  /\ \A s \in Section : Foreign \notin ListedKeys(s)
  /\ MaxUpgrades \in Nat \ {0}

Missing == [missing |-> TRUE]

------------------------------------------------------------------------------
(***************************************************************************)
(* The keys of the converter                                               *)
(***************************************************************************)
SinceLongRange(v) == Generation(v) \in {715, 719}

(* The keys the exporter writes for an image of version v, and those the   *)
(* importer requires.                                                      *)
ExportedKeys(s, v) ==
  CASE s = "controller" ->
         InfoKeys \cup SettingKeys \cup VersionKeys \cup {"applicationData"}
           \cup (IF SinceLongRange(v) THEN LongRangeKeys \cup {"dcdcConfig"} ELSE {})
           \cup (IF Is719OrNewer(v) THEN {"longRangeChannelAutoMode"} ELSE {})
           \cup (IF Is720OrNewer(v) THEN {"applicationName"} ELSE {})
    [] s = "cmdClasses" -> RequiredKeys(s)
    [] s = "rfConfig" ->
         {"rfRegion", "txPower", "measured0dBm"}
           \cup (IF PreV7_15_3(v) THEN {} ELSE {"enablePTI", "maxTxPower"})
           \cup (IF ReadStruct(v) = "7_21_x" THEN {"nodeIdType"} ELSE {})
    [] s = "sucEntry" -> {"nodeId", "changeType", "supportedCCs", "controlledCCs"}
    [] s = "node" ->
         CapabilityKeys \cup NodeFlagKeys
           \cup {"isFrequentListening", "specificDeviceClass", "lwr", "nlwr"}
    [] s = "lrNode" ->
         CapabilityKeys \cup {"isFrequentListening", "specificDeviceClass"}
           \cup (IF TargetFormat(v) = 2 THEN {"lrTxPower"} ELSE {})
           \cup (IF TargetFormat(v) = 3 THEN {"txPower"} ELSE {})

ImportedKeys(s, v) ==
  CASE s = "controller" ->
         InfoKeys \cup SettingKeys \cup VersionKeys \cup {"applicationData"}
           \cup (IF SinceLongRange(v) THEN LongRangeKeys ELSE {})
           \cup (IF Is719OrNewer(v) THEN {"longRangeChannelAutoMode"} ELSE {})
    [] s = "cmdClasses" -> RequiredKeys(s)
    [] s = "rfConfig" -> {}
    [] s = "sucEntry" -> {"nodeId", "changeType"}
    [] s = "node" ->
         CapabilityKeys
           \cup {"specificDeviceClass", "isVirtual", "neighbours", "sucUpdateIndex", "routeSlaveSuc"}
    [] s = "lrNode" ->
         {"isListening", "isRouting", "optionalFunctionality", "supportsBeaming",
          "genericDeviceClass", "specificDeviceClass"}
           \cup (IF TargetFormat(v) \in {2, 3} THEN {"lrTxPower"} ELSE {})

------------------------------------------------------------------------------
VARIABLES
  origin,     \* the document as it was before the first upgrade: history
  source,     \* its version: history
  doc,        \* the document
  version,    \* the version of the last upgrade, NoVersion before it
  direct,     \* whether no upgrade went to an older version: history
  upgrades    \* the number of upgrades

vars == <<origin, source, doc, version, direct, upgrades>>

(* An exported document; the user may have removed a key or the SUC list,  *)
(* or added a key of his own.                                              *)
ExportedDocument(v) == [s \in Section |-> [k \in ExportedKeys(s, v) |-> "value"]]

Without(object, k) == [other \in DOMAIN object \ {k} |-> object[other]]
With(object, k) == [other \in DOMAIN object \cup {k} |-> "value"]

Init ==
  /\ source \in Source
  /\ LET exported == ExportedDocument(source)
     IN  \/ origin = exported
         \/ origin = [exported EXCEPT !["sucEntry"] = Missing]
         \/ \E s \in Section :
              \/ \E k \in DOMAIN exported[s] : origin = [exported EXCEPT ![s] = Without(@, k)]
              \/ origin = [exported EXCEPT ![s] = With(@, Foreign)]
              \/ \E k \in ListedKeys(s) : origin = [exported EXCEPT ![s] = With(@, k)]
         \/ \E s \in CreatedSections \ {"controller"} : origin = [exported EXCEPT ![s] = Missing]
  /\ doc = origin
  /\ version = NoVersion
  /\ direct = TRUE
  /\ upgrades = 0

(* A fault: a section is created and not filled.                           *)
SectionNotFilled(d, s, v) ==
  IF d[s] # Missing THEN UpgradedObject(d[s], s, v)
  ELSE IF s \in CreatedSections THEN <<>>
  ELSE Missing

(* upgrade_json_to_version: the sections that are objects are created if   *)
(* there is none, arrays and tables are upgraded entry by entry; then both *)
(* versions are set to the target.                                         *)
UpgradedSection(d, s, v) ==
  IF d[s] # Missing THEN UpgradedObject(d[s], s, v)
  ELSE IF s \in CreatedSections THEN UpgradedObject(<<>>, s, v)
  ELSE Missing

Upgraded(d, v) ==
  LET upgraded == [s \in Section |-> UpgradedSection(d, s, v)]
      controller == upgraded["controller"]
  IN  [upgraded EXCEPT !["controller"] =
         [k \in DOMAIN controller \cup VersionKeys |->
            IF k \in VersionKeys THEN "value" ELSE controller[k]]]

Upgrade(v) ==
  /\ upgrades < MaxUpgrades
  /\ doc' = Upgraded(doc, v)
  /\ version' = v
  /\ direct' = (direct /\ NotOlder(v, IF version = NoVersion THEN source ELSE version))
  /\ upgrades' = upgrades + 1
  /\ UNCHANGED <<origin, source>>

Next == \E v \in Target : Upgrade(v)

Spec == Init /\ [][Next]_vars

------------------------------------------------------------------------------
(***************************************************************************)
(* Properties                                                              *)
(***************************************************************************)
Keys(s) == IF doc[s] = Missing THEN {} ELSE DOMAIN doc[s]

(* Upgrading to the version a document is already at changes nothing after *)
(* the first time: what is populated, created and dropped is settled in    *)
(* one pass (json_upgrade.c:87-178, 329-397).                              *)
Settled == version # NoVersion => Upgraded(doc, version) = doc

(* An upgrade never replaces a value by a default: it stays, or its key is *)
(* dropped because the target version or the schema does not have it.      *)
ValuesKept ==
  [][\A s \in Section : \A k \in Keys(s) :
       doc[s][k] = "value" /\ k \in ListedKeys(s)
       /\ (k \in RequiredKeys(s) => ShouldAdd(s, k, version'))
         => /\ doc'[s] # Missing
            /\ k \in DOMAIN doc'[s]
            /\ doc'[s][k] = "value"]_vars

(* Upgrading version by version leads to the document that one upgrade to  *)
(* the last version leads to, for the keys the schema gives to the source  *)
(* version.  The converter exports the DC/DC configuration from 7.15 on,   *)
(* the schema has it from 7.18.0 on: an intermediate version drops it.     *)
Agree(s, k) ==
  LET once == Upgraded(origin, version)[s]
  IN  IF doc[s] = Missing THEN once = Missing
      ELSE /\ k \in DOMAIN doc[s] <=> k \in DOMAIN once
           /\ k \in DOMAIN doc[s] => doc[s][k] = once[k]

Ahead(s, k) ==
  /\ k \in RequiredKeys(s)
  /\ origin[s] # Missing /\ k \in DOMAIN origin[s]
  /\ ~ShouldAdd(s, k, source)

StepwiseAsDirect ==
  version # NoVersion /\ direct =>
    \A s \in Section : \A k \in ListedKeys(s) :
      Ahead(s, k) \/ Agree(s, k)

(* The importer finds the keys it requires, of the type it requires, in a  *)
(* document upgraded to a version it writes, whichever key was missing: up *)
(* to the gaps of the schema, each of which the importer reports as an     *)
(* error and replaces by a default.  A missing SUC list, which the schema  *)
(* requires, stays missing: an array of objects is upgraded entry by entry *)
(* and not created (json_upgrade.c:137-160).                               *)
Gaps ==
  {<<"node", "specificDeviceClass">>, <<"lrNode", "specificDeviceClass">>,
   <<"lrNode", "lrTxPower">>, <<"controller", "specificDeviceClass">>,
   <<"node", "sucUpdateIndex">>, <<"sucEntry", "nodeId">>}

ImporterServed ==
  version # NoVersion /\ TargetFormat(version) # Unsupported =>
    /\ \A s \in Section \ {"sucEntry"} : \A k \in ImportedKeys(s, version) :
         <<s, k>> \in Gaps \/ (k \in Keys(s) /\ doc[s][k] # "misfit")
    /\ doc["sucEntry"] = Missing <=> origin["sucEntry"] = Missing

(* Everything the converter exports at a version is still there after an   *)
(* upgrade to a later one, except the transmit power of a Long Range node, *)
(* which the schema spells differently, and a DC/DC configuration of a     *)
(* version before 7.18.0.                                                  *)
ExportedKeysKept ==
  version # NoVersion /\ direct /\ origin = ExportedDocument(source) =>
    \A s \in Section : \A k \in ExportedKeys(s, source) :
      \/ k \in Keys(s) /\ doc[s][k] = "value"
      \/ s = "lrNode" /\ k \in {"txPower", "lrTxPower"}
      \/ k = "dcdcConfig" /\ ~ShouldAdd(s, k, source)
==============================================================================
