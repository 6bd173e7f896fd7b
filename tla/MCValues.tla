------------------------------- MODULE MCValues -------------------------------
(* Values inside, at the edge of and outside of each field.  A node varies *)
(* in what becomes its capability or in what becomes its security.         *)
EXTENDS Values

MCRates ==
  {<<>>, <<9600>>, <<40000, 9600>>, <<9600, 40000, 100000>>, <<100000, 9600, 100000>>,
   <<1, 2, 3, 9600>>, <<40000, 9600, 9600, 100000>>}

MCCapabilities ==
  [isListening : BOOLEAN, isRouting : BOOLEAN, supportedDataRates : MCRates,
   protocolVersion : {0, 3, 7, 8, 16, 32, 64, 129, 255, 256, -1}]

MCSecurities ==
  [isFrequentListening : {"none", "250ms", "1000ms"}, optionalFunctionality : BOOLEAN,
   nodeType : {0, 1, 2}, supportsSecurity : BOOLEAN, supportsBeaming : BOOLEAN,
   genericDeviceClass : {1, 300}, specificDeviceClass : {0, 1, 255, 256}]

MCNodes == MCCapabilities \cup MCSecurities

MCRoutes ==
  [beaming : {"none", "250ms", "1000ms"},
   protocolRate : {0, 1, 2, 3, 4, 32, 64, 96, 255, 256, -1}]
    \cup {[protocolRate |-> 2], [beaming |-> "250ms"]}

(* All lengths of up to three blocks, with all bits set or not, and two    *)
(* values with bits on both sides of each cut.                             *)
MCByteStrings ==
  UNION {[1 .. n -> {0, 255}] : n \in 0 .. 4}
    \cup {[i \in 1 .. n |-> (37 * i + 90) % 256] : n \in 0 .. 28}

MCHexInputs ==
  {[bytes |-> [i \in 1 .. n |-> i], start |-> s, readable |-> r, ferror |-> e] :
     n \in 0 .. 20, s \in {0, 3, 6, 7, 8, 9, 16, 17}, r \in {0, 3, 4, 9, 20}, e \in BOOLEAN}

MCWords == {"-e", "-m", "-o", "-h", "-x", "a", "b"}
MCLines == UNION {[1 .. n -> MCWords] : n \in 0 .. 3}
             \cup {<<w>> \o rest : w \in {"a", "-o"}, rest \in [1 .. 4 -> {"-e", "-i", "a", "b"}]}
             \cup {<<"-m", "a", "b">> \o rest : rest \in [1 .. 3 -> MCWords]}

(* Stems on both sides of each limit: of the copy of a name and of the     *)
(* names that are made from it.                                            *)
MCStemLength ==
  "output" :> 6 @@ "none" :> 0 @@ "a" :> 1 @@ "b" :> 1 @@ "c" :> 32 @@ "d" :> 33
    @@ "e" :> 36 @@ "f" :> 37 @@ "g" :> 41 @@ "h" :> 42 @@ "i" :> 43 @@ "j" :> 46
    @@ "k" :> 47 @@ "l" :> 51
MCStem == DOMAIN MCStemLength
MCNames == {Name(s, u, e) : s \in MCStem, u \in 0 .. 1, e \in Extension}
==============================================================================
