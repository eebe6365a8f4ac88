------------------------------- MODULE MCData -------------------------------
(***************************************************************************)
(* The parts that compute for TLC, one at a time: frames on their two      *)
(* wires, the codec, the map of the matrix, the configuration, the         *)
(* converters of rates and the identity of the panel.                      *)
(***************************************************************************)
EXTENDS MCFraming, MCG711, Config, RateConversion, Identity

VARIABLES
  part,         \* which of them is looked at, the others stay as they start
  map, items    \* MCMapParser

configuration == configVars
panel == profileVars

\* Ports at both ends of the known range and past it, keys equal to the tag of the key and
\* past the last key shown, up to three records.
Names == INSTANCE MCMapParser
  WITH Indexes <- {0, 13, 14}, Types <- {0, 6}, Keys <- {31, 32}, MaxItems <- 3

-----------------------------------------------------------------------------
DefaultOf == [f \in Fields |->
  CASE f = "user_version" -> "default" [] f = "control" -> "/c" [] f = "audio" -> "/a"
    [] OTHER -> "zero"]
WithSlash == [p \in {"/", "/a", "/c", "a", "c"} |->
  CASE p = "a" -> "/a" [] p = "c" -> "/c" [] OTHER -> p]

Unset == [f \in Fields |-> "absent"]
UnsetAlias == [f \in {"device", "user_version"} |-> "absent"]
File(file, simulation, instance, instanceSimulation) ==
  [file |-> file, simulation |-> simulation, instance |-> instance,
   instanceSimulation |-> instanceSimulation, chosen |-> FALSE]

\* Every combination of who sets what: settings by their section, and paths and keys.
SomeOf(fields, values) ==
  {[f \in Fields |-> IF f \in fields THEN s[f] ELSE "absent"] : s \in [fields -> values]}
MergeFiles ==
  {File(a, b, c, d) :
     a \in SomeOf({"peer", "device", "user_version"}, {"absent", "zero", "file"}),
     b \in [DOMAIN UnsetAlias -> {"absent", "alias"}],
     c \in SomeOf({"peer", "device", "user_version"}, {"absent", "instance"}),
     d \in [DOMAIN UnsetAlias -> {"absent", "instance alias"}]}
PathFiles ==
  {File(a, UnsetAlias, b, UnsetAlias) :
     a \in SomeOf({"control", "audio"}, {"absent", "zero", "/", "a", "/a", "c"}),
     b \in SomeOf({"control", "audio"}, {"absent", "a", "/c"})}
FlagFiles ==
  {File(a, UnsetAlias, b, UnsetAlias) :
     a \in SomeOf({"capture", "cert", "key"}, {"absent", "on"}),
     b \in SomeOf({"capture", "cert", "key"}, {"zero", "on"})}
BadFiles == {File(a, UnsetAlias, Unset, UnsetAlias) : a \in SomeOf({"peer"}, {"bad", "file"})}

SomeFiles == MergeFiles \union PathFiles \union FlagFiles \union BadFiles

-----------------------------------------------------------------------------
\* Down by a ratio that divides nothing, down by more than a piece, up, and equal rates.
SomeRates == {<<5, 2>>, <<7, 2>>, <<2, 5>>, <<3, 4>>, <<3, 3>>}
SomeSamples == {-32768, 5, 32767}
SomeCoeffs == <<1, -2, 3>>

-----------------------------------------------------------------------------
\* "TP5024-NET3": longer than the room there is.
DefaultName(model, port) == IF port = Nil THEN <<model, "A">> ELSE <<model, "A", port, "A">>

\* All names of up to two characters more than an identity has room for, keys and versions
\* at their bounds.
SomeNames == UNION {[1 .. n -> {"A", "blank", "odd"}] : n \in 0 .. 5}
SomeVersions == {<<<<1, 3, 0>>, <<0, 0>>>>, <<<<255, 0, 65535>>, <<15, 15>>>>, <<<<0, 255, 256>>, <<1, 2>>>>,
                 <<<<0, 256, 0>>, <<0, 0>>>>, <<<<1, 0, 65536>>, <<0, 0>>>>, <<<<1, 0, 0>>, <<16, 0>>>>}
SomeConfigs ==
  {[device |-> d, name |-> n, keys |-> k, user |-> v[1], fpga |-> v[2]] :
     d \in {"auto", Nil, "TP5024", "TP9999"}, n \in SomeNames, k \in {-1, 0, 3, 120, 121}, v \in SomeVersions}

\* One code is of no panel, one beyond a byte.
SomeCodes == {28, 30, 26, 256 + 29}

-----------------------------------------------------------------------------
ASSUME ConfigAssumption /\ ConversionAssumption /\ ProfileAssumption

\* The parts that may start in several states, in one of them.
Idle == File(Unset, UnsetAlias, Unset, UnsetAlias)
Plain == [device |-> "auto", name |-> <<>>, keys |-> 0, user |-> <<1, 3, 0>>, fpga |-> <<0, 0>>]

InitData ==
  /\ part \in {"wire", "codec", "names", "settings", "converters", "profile"}
  /\ InitWire /\ InitCodec /\ Names!Init
  /\ IF part = "settings" THEN ConfigInit
     ELSE stage = "start" /\ input = Idle /\ config = Idle /\ accepted = FALSE /\ routes = <<>>
  /\ IF part = "profile" THEN ProfileInit ELSE cfg = Plain /\ profile = Nil /\ asked = Nil
  /\ ConversionInit
  /\ part # "converters" => conv.inRate = 3 /\ conv.outRate = 3

NextData ==
  \/ part = "wire" /\ NextWire /\ UNCHANGED <<part, low, map, items, configuration, conversion, panel>>
  \/ part = "codec" /\ NextCodec /\ UNCHANGED <<part, payload, map, items, configuration, conversion, panel>>
  \/ part = "names" /\ Names!Next /\ UNCHANGED <<part, payload, low, configuration, conversion, panel>>
  \/ part = "settings" /\ ConfigNext /\ UNCHANGED <<part, payload, low, map, items, conversion, panel>>
  \/ part = "converters" /\ ConversionNext /\ UNCHANGED <<part, payload, low, map, items, configuration, panel>>
  \/ part = "profile" /\ ProfileNext /\ UNCHANGED <<part, payload, low, map, items, configuration, conversion>>

SpecData == InitData /\ [][NextData]_<<part, payload, low, map, items, configuration, conversion, panel>>

-----------------------------------------------------------------------------
\* Frames survive their stuffing on both wires and in packets, and their check byte tells
\* up to two flipped bits, but not two frames glued together by a lost terminator (prtp).
FramesRoundTrip ==
  part = "wire" =>
    /\ ControlRoundTrip /\ WireRoundTrip /\ PacketRoundTrip
    /\ OneCheckByte /\ TwoFlipsDetected /\ GluedFramesPass

\* A sample comes back as the nearest there is a code for, in the order of samples, and
\* audio that was decoded once unchanged (g711).
CodecNearest == part = "codec" => Nearest /\ Monotone /\ Relay

\* Names and labels come out of a map of either format under their own port and key, from
\* one cut short the first of them (ParseMapData).
LabelsKeyed == part = "names" => Names!KeyedByPort /\ Names!PortsMerge /\ Names!CutKeepsThePrefix
=============================================================================
