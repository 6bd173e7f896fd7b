------------------------------- MODULE NodeInfo -------------------------------
(***************************************************************************)
(* What a document says of a classic node in single bits, and the bytes it *)
(* is kept in: capability, security and reserved of the node information,  *)
(* and the configuration byte of a route.  A byte is the set of its bits.  *)
(***************************************************************************)
EXTENDS Integers, Sequences

Bit == 0 .. 7

(* ZW_transport_api_small.h.                                               *)
Baud9600 == 3
Baud40000 == 4
RoutingSupport == 6
ListeningSupport == 7
Baud100K == 0                   \* of reserved
SecuritySupport == 0
ControllerNode == 1             \* 0x02
SpecificDeviceType == 2
SlaveRouting == 3               \* 0x08
BeamCapability == 4
Wakeup250 == 5
Wakeup1000 == 6
OptionalFunc == 7

PowerOf2 == <<1, 2, 4, 8, 16, 32, 64, 128>>

(* The bits that an integer has as a byte.                                 *)
Bits(value) == {i \in Bit : (value \div PowerOf2[i + 1]) % 2 = 1}
(* A fault: the mask of the version has a bit too many.                    *)
LowValueWide(bits) ==
  (IF 0 \in bits THEN 1 ELSE 0) + (IF 1 \in bits THEN 2 ELSE 0) + (IF 2 \in bits THEN 4 ELSE 0)
    + (IF 3 \in bits THEN 8 ELSE 0)

LowValue(bits) ==
  (IF 0 \in bits THEN 1 ELSE 0) + (IF 1 \in bits THEN 2 ELSE 0) + (IF 2 \in bits THEN 4 ELSE 0)

If(condition, bit) == IF condition THEN {bit} ELSE {}
KeyOr(object, key, default) == IF key \in DOMAIN object THEN object[key] ELSE default

------------------------------------------------------------------------------
(***************************************************************************)
(* A node of a document: a record without the keys it lacks.  A wake-up    *)
(* period is "250ms", "1000ms" or "none", where the document has false.    *)
(***************************************************************************)

(* json_get_intarray takes three rates at most.                            *)
Rates(node) ==
  LET rates == KeyOr(node, "supportedDataRates", <<>>)
  IN  {rates[i] : i \in DOMAIN rates \cap 1 .. 3}

(* parse_node_capability: the protocol version is not cut to its bits.     *)
Capability(node) ==
  If(KeyOr(node, "isListening", TRUE), ListeningSupport)
    \cup If(KeyOr(node, "isRouting", FALSE), RoutingSupport)
    \cup If(9600 \in Rates(node), Baud9600)
    \cup If(40000 \in Rates(node), Baud40000)
    \cup Bits(KeyOr(node, "protocolVersion", 1))

Reserved(node) == If(100000 \in Rates(node), Baud100K)

(* A fault: a node with a specific device class is taken for a controller. *)
SecurityMixed(node) ==
  If(KeyOr(node, "isFrequentListening", "none") # "none", Wakeup1000)
    \cup If(KeyOr(node, "optionalFunctionality", FALSE), OptionalFunc)
    \cup {IF KeyOr(node, "nodeType", 0) # 0 THEN SlaveRouting ELSE ControllerNode}
    \cup If(KeyOr(node, "supportsSecurity", TRUE), SecuritySupport)
    \cup If(KeyOr(node, "supportsBeaming", TRUE), BeamCapability)
    \cup If(KeyOr(node, "specificDeviceClass", 0) % 256 # 0, ControllerNode)

(* parse_node_security: the text is compared by its address, so a period   *)
(* is always 1000 ms.  parse_node_table_json adds the last bit.            *)
Security(node) ==
  If(KeyOr(node, "isFrequentListening", "none") # "none", Wakeup1000)
    \cup If(KeyOr(node, "optionalFunctionality", FALSE), OptionalFunc)
    \cup {IF KeyOr(node, "nodeType", 0) # 0 THEN SlaveRouting ELSE ControllerNode}
    \cup If(KeyOr(node, "supportsSecurity", TRUE), SecuritySupport)
    \cup If(KeyOr(node, "supportsBeaming", TRUE), BeamCapability)
    \cup If(KeyOr(node, "specificDeviceClass", 0) % 256 # 0, SpecificDeviceType)

StoredNode(node) ==
  [capability |-> Capability(node),
   security |-> Security(node),
   reserved |-> Reserved(node),
   generic |-> KeyOr(node, "genericDeviceClass", 0) % 256,
   specific |-> KeyOr(node, "specificDeviceClass", 0) % 256]

(* node_table_to_json, of what is in these bytes.                          *)
Rate(condition, rate) == IF condition THEN <<rate>> ELSE <<>>

ExportedNode(info) ==
  [isListening |-> ListeningSupport \in info.capability,
   isFrequentListening |->
     IF info.security \cap {Wakeup250, Wakeup1000} = {Wakeup250} THEN "250ms"
     ELSE IF info.security \cap {Wakeup250, Wakeup1000} = {Wakeup1000} THEN "1000ms"
     ELSE "none",
   isRouting |-> RoutingSupport \in info.capability,
   supportedDataRates |->
     Rate(Baud9600 \in info.capability, 9600)
       \o Rate(Baud40000 \in info.capability, 40000)
       \o Rate(Baud100K \in info.reserved, 100000),
   protocolVersion |-> LowValue(info.capability),
   optionalFunctionality |-> OptionalFunc \in info.security,
   nodeType |->
     IF info.security \cap {ControllerNode, SlaveRouting} = {SlaveRouting} THEN 1 ELSE 0,
   supportsSecurity |-> SecuritySupport \in info.security,
   supportsBeaming |-> BeamCapability \in info.security,
   genericDeviceClass |-> info.generic,
   specificDeviceClass |-> info.specific]

------------------------------------------------------------------------------
(***************************************************************************)
(* A line of the route cache.                                              *)
(***************************************************************************)
Beam250 == 5
Beam1000 == 6

RateValue(bits) == (IF 0 \in bits THEN 1 ELSE 0) + (IF 1 \in bits THEN 2 ELSE 0)

(* parse_route_cache_line_json: the rate is not cut to its bits either.    *)
StoredRoute(line) ==
  LET beaming == KeyOr(line, "beaming", "none")
  IN  (CASE beaming = "none" -> {}
         [] beaming = "250ms" -> {Beam250}
         [] OTHER -> {Beam1000})
        \cup Bits(KeyOr(line, "protocolRate", 0))

(* route_cache_line_to_json: both bits of beaming leave out the key.       *)
ExportedRoute(bits) ==
  LET rate == RateValue(bits)
      beam == bits \cap {Beam250, Beam1000}
  IN  CASE beam = {} -> [beaming |-> "none", protocolRate |-> rate]
        [] beam = {Beam250} -> [beaming |-> "250ms", protocolRate |-> rate]
        [] beam = {Beam1000} -> [beaming |-> "1000ms", protocolRate |-> rate]
        [] OTHER -> [protocolRate |-> rate]
==============================================================================
