--------------------------- MODULE MCControllerInfo ---------------------------
(* Targets of all generations, structures and layouts, and documents with  *)
(* values inside, at the edge of and outside of each field.                *)
EXTENDS ControllerInfo

To(lay, hw, v) == [layout |-> lay, hw |-> hw, prot |-> v]

MCTarget ==
  {To("700s", "ZW_700s", <<7, 12, 0>>),
   To("700s", "ZW_700s", <<7, 15, 2>>),
   To("800s_PRIOR_719", "EFR32XG23", <<7, 18, 0>>),
   To("800s_PRIOR_719", "EFR32XG28", <<7, 18, 1>>),
   To("700s", "ZW_700s", <<7, 19, 0>>),
   To("700s", "ZW_700s", <<7, 21, 0>>),
   To("800s_FROM_719", "EFR32XG28", <<7, 20, 0>>),
   To("800s_FROM_719", "EFR32XG23", <<7, 22, 0>>),
   To("800s_FROM_719", "EFR32XG28", <<8, 0, 0>>)}

IntKeys ==
  {"nodeId", "staticControllerNodeId", "lastNodeId", "lastNodeIdLR", "sucLastIndex",
   "maxNodeId", "maxNodeIdLR", "reservedId", "reservedIdLR", "systemState",
   "primaryLongRangeChannelId", "dcdcConfig", "genericDeviceClass", "specificDeviceClass"}
BoolKeys ==
  {"controllerIsSecondary", "controllerOnOtherNetwork", "controllerNodeIdServerPresent",
   "controllerIsRealPrimary", "controllerIsSuc", "noNodesIncluded",
   "longRangeChannelAutoMode", "isListening"}

MCText(bytes) == base64_encode(bytes, 0)

(* All numbers are n, all flags b.                                         *)
MCDoc(n, b, home, list, text, name) ==
  [key \in IntKeys |-> n] @@ [key \in BoolKeys |-> b]
    @@ "homeId" :> home
    @@ "cmdClasses" :> [key \in ClassKeys |-> list]
    @@ "rfConfig" :> ([key \in {"rfRegion", "txPower", "measured0dBm", "maxTxPower",
                                "nodeIdType"} |-> n] @@ "enablePTI" :> b)
    @@ "applicationData" :> text
    @@ "applicationName" :> name
    @@ "sucUpdateEntries" :> <<1>>

(* The second document is at the limits of the fields, the third and the   *)
(* fourth are beyond them.                                                 *)
MCWhole ==
  {MCDoc(1, TRUE, 5, <<1, 2>>, MCText(<<7>>), "name"),
   MCDoc(127, FALSE, 998, <<255>>, MCText(<<0, 3, 255, 0>>), "name"),
   MCDoc(300, TRUE, 0, <<1, 2, 300>>, MCText(<<9, 8, 7, 6, 5>>), LongName),
   MCDoc(40000, TRUE, 5, <<1>>, MCText(<<7>>), "name"),
   MCDoc(-1, FALSE, 999, <<>>, <<>>, "name"),
   MCDoc(255, TRUE, 5, <<1>>, MCText(<<0, 0>>), "name"),
   MCDoc(1, FALSE, 5, <<1>>, <<1, 2, 3>>, "name")}

Without(object, keys) == [key \in DOMAIN object \ keys |-> object[key]]

(* One key or a few are missing.                                           *)
MCDocument(t) ==
  MCWhole \cup {Without(MCDoc(1, TRUE, 5, <<1, 2>>, MCText(<<7>>), "name"), keys) :
                  keys \in {{"cmdClasses"}, {"rfConfig"}, {"sucUpdateEntries"},
                            {"dcdcConfig", "applicationName"}, {"applicationData"},
                            IntKeys \cup {"homeId"}}}

MCUnwritable ==
  {"APPLICATIONCONFIGURATION", "tables", "CONTROLLERINFO", "APPLICATIONCMDINFO",
   "APPLICATIONDATA", "APP_NAME", "PROPRIETARY_1"}
==============================================================================
