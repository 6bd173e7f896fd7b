----------------------------- MODULE SchemaRules -----------------------------
(***************************************************************************)
(* The schema file of the tool, zwave_data_description_scheme.json, as the *)
(* rules the upgrade reads from it, and the upgrade of one JSON object.    *)
(*                                                                         *)
(* A key is known by its section, the object it is in: "controller", the   *)
(* two objects in it, an entry of the SUC list, a node and a Long Range    *)
(* node.  An object of a document is a function from its keys to their     *)
(* contents.                                                               *)
(***************************************************************************)
EXTENDS VersionRules

Section == {"controller", "cmdClasses", "rfConfig", "sucEntry", "node", "lrNode"}

(* Sections whose object the upgrade creates if there is none.             *)
CreatedSections == {"controller", "cmdClasses", "rfConfig"}

ConfigurationKeys ==
  {"controllerIsSecondary", "controllerOnOtherNetwork", "controllerNodeIdServerPresent",
   "controllerIsRealPrimary", "controllerIsSuc", "noNodesIncluded"}
InfoKeys ==
  {"homeId", "nodeId", "staticControllerNodeId", "lastNodeId", "sucLastIndex",
   "maxNodeId", "reservedId", "systemState"} \cup ConfigurationKeys
LongRangeKeys == {"lastNodeIdLR", "maxNodeIdLR", "reservedIdLR", "primaryLongRangeChannelId"}
SettingKeys == {"isListening", "genericDeviceClass", "specificDeviceClass"}
VersionKeys == {"protocolVersion", "applicationVersion"}
RetiredKeys ==
  {"sucAwarenessPushNeeded", "preferedRepeater", "s2Keys", "s2KeysAssigned", "span", "mpan"}
CapabilityKeys ==
  {"isListening", "isRouting", "supportedDataRates", "protocolVersion", "optionalFunctionality",
   "nodeType", "supportsSecurity", "supportsBeaming", "genericDeviceClass"}
NodeFlagKeys ==
  {"isVirtual", "neighbours", "sucUpdateIndex", "appRouteLock", "routeSlaveSuc",
   "sucPendingUpdate", "pendingDiscovery"}

(* "required": the keys the upgrade looks at, those that are objects or    *)
(* arrays of objects apart.                                                *)
RequiredKeys(s) ==
  CASE s = "controller" ->
         InfoKeys \cup LongRangeKeys \cup SettingKeys \cup VersionKeys
           \cup {"applicationName", "longRangeChannelAutoMode", "applicationData", "dcdcConfig"}
    [] s = "cmdClasses" ->
         {"includedInsecurely", "includedSecurelyInsecureCCs", "includedSecurelySecureCCs"}
    [] s = "rfConfig" ->
         {"rfRegion", "txPower", "measured0dBm", "enablePTI", "maxTxPower", "nodeIdType"}
    [] s = "sucEntry" -> {"changeType", "supportedCCs", "controlledCCs"}
    [] s = "node" -> CapabilityKeys \cup NodeFlagKeys \cup {"isFrequentListening"}
    [] s = "lrNode" ->
         {"isListening", "isRouting", "optionalFunctionality", "supportsSecurity",
          "supportsBeaming", "genericDeviceClass"}

(* "properties": the keys that are still there after rearrange_keys.       *)
ListedKeys(s) ==
  RequiredKeys(s) \cup
  (CASE s = "controller" -> RetiredKeys
     [] s = "sucEntry" -> {"nodeId"}
     [] s = "node" -> {"specificDeviceClass", "lwr", "nlwr"}
     [] s = "lrNode" ->
          CapabilityKeys \cup {"isFrequentListening", "specificDeviceClass", "lrTxpower"}
     [] OTHER -> {})

(* "created" or "createdVersion", "removed", and whether there is a        *)
(* default_value: one of the type the importer asks for, or null or a      *)
(* fraction where it asks for an integer.                                  *)
CreatedVersion(s, k) ==
  CASE s \in {"cmdClasses", "rfConfig"} ->
         (CASE k \in {"enablePTI", "maxTxPower"} -> <<7, 15, 3>>
            [] k = "nodeIdType" -> <<7, 21, 0>>
            [] OTHER -> <<7, 11, 0>>)
    [] s = "controller" /\ k \in SettingKeys \cup {"applicationData"} -> <<7, 11, 0>>
    [] s = "controller" /\ k = "dcdcConfig" -> <<7, 18, 0>>
    [] s = "controller" /\ k = "longRangeChannelAutoMode" -> <<7, 19, 0>>
    [] s = "controller" /\ k = "applicationName" -> <<7, 20, 0>>
    [] OTHER -> NoVersion

Created(s, k) ==
  CASE CreatedVersion(s, k) # NoVersion -> -1
    [] k \in LongRangeKeys \cup {"lrTxpower"} -> 2
    [] OTHER -> 0

Removed(s, k) ==
  CASE k \in RetiredKeys -> 2
    [] k = "lrTxpower" -> 4
    [] OTHER -> -1

HasDefault(s, k) ==
  ~(s = "controller" /\ k \in VersionKeys) /\ ~(s = "node" /\ k = "sucUpdateIndex")

Default(s, k) ==
  IF \/ s = "controller" /\ k = "specificDeviceClass"   \* null
     \/ s = "rfConfig" /\ k = "txPower"                 \* 20.0
    THEN "misfit" ELSE "default"

------------------------------------------------------------------------------
(* handle_version_based_addition_removal: whether a key is in a document   *)
(* of version v.                                                           *)
ShouldAdd(s, k, v) ==
  LET format == UpgradeFormat(v)
  IN  /\ \/ Created(s, k) >= 0 /\ Created(s, k) <= format
         \/ CreatedVersion(s, k) # NoVersion /\ NotOlder(v, CreatedVersion(s, k))
      /\ ~(Removed(s, k) >= 0 /\ format >= Removed(s, k))

(* Faults: nothing is added, values are overwritten by defaults.           *)
AppliedWithoutAdding(object, s, v) ==
  LET removed == {k \in RequiredKeys(s) : ~ShouldAdd(s, k, v)}
  IN  [k \in DOMAIN object \ removed |-> object[k]]
AppliedOverwriting(object, s, v) ==
  LET added == {k \in RequiredKeys(s) : ShouldAdd(s, k, v) /\ HasDefault(s, k)}
      removed == {k \in RequiredKeys(s) : ~ShouldAdd(s, k, v)}
  IN  [k \in (DOMAIN object \cup added) \ removed |->
         IF k \in added THEN Default(s, k) ELSE object[k]]

(* apply_schema_changes on one object of section s: the required keys are  *)
(* added or removed, the others are left alone.                            *)
Applied(object, s, v) ==
  LET added == {k \in RequiredKeys(s) : ShouldAdd(s, k, v) /\ HasDefault(s, k)}
      removed == {k \in RequiredKeys(s) : ~ShouldAdd(s, k, v)}
  IN  [k \in (DOMAIN object \cup added) \ removed |->
         IF k \in DOMAIN object THEN object[k] ELSE Default(s, k)]

(* A fault: only the required keys are copied.                             *)
RearrangedRequired(object, s) == [k \in DOMAIN object \cap RequiredKeys(s) |-> object[k]]

(* rearrange_keys: the schema's keys, in the schema's order.               *)
Rearranged(object, s) == [k \in DOMAIN object \cap ListedKeys(s) |-> object[k]]

UpgradedObject(object, s, v) == Rearranged(Applied(object, s, v), s)
==============================================================================
