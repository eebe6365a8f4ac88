------------------------------ MODULE Identity ------------------------------
(***************************************************************************)
(* The profile of the emulated panel: made from the configuration or from  *)
(* the type the matrix map gives the port, compared with the one in force, *)
(* and sent to the matrix as an identity of fixed length.                  *)
(*                                                                         *)
(* A name is a sequence of characters, of which Blank and Odd (one the     *)
(* identity cannot hold) are told apart; versions are numbers.             *)
(***************************************************************************)
EXTENDS Integers, FiniteSets, SequencesExt

CONSTANTS
  Blank, Odd, Underscore,   \* characters
  Width,                    \* of the name in an identity: ten
  NameOf(_, _),             \* the default name of a model, at a port
  Port,                     \* matrix_port
  Nil

Panels == {[model |-> "BP7100", type |-> 28, keys |-> 4], [model |-> "TP5012", type |-> 29, keys |-> 12],
           [model |-> "TP5024", type |-> 30, keys |-> 24], [model |-> "TP5008", type |-> 33, keys |-> 8]}
VirtualPanelTypeCode == 47

\* BP7100 has names for its first four keys.
DefaultEmulationLabels(model, keyCount) ==
  [k \in 1 .. keyCount |-> IF model = "BP7100" /\ k <= 4 THEN <<"named", k>> ELSE <<"K", k>>]

TrimRight(name) == LET last == {i \in DOMAIN name : name[i] # Blank}
                   IN SubSeq(name, 1, CHOOSE n \in 0 .. Len(name) : /\ \A i \in last : i <= n
                                                                    /\ n = 0 \/ n \in last)
TrimSpace(name) == Reverse(TrimRight(Reverse(TrimRight(name))))

\* Mutant: keys up to what seven bits of a key event can tell.
KeysAllowedMore(n) == n >= 0 /\ n <= 127
KeysAllowed(n) == n >= 0 /\ n <= 120

\* Nothing for a device that is not known or a number of keys out of range.
NewEmulationProfile(model, name, keyOverride) ==
  IF ~KeysAllowed(keyOverride) \/ \A p \in Panels : p.model # model THEN Nil
  ELSE LET panel == CHOOSE p \in Panels : p.model = model
           n == IF keyOverride > 0 THEN keyOverride ELSE panel.keys
       IN [Model |-> model, TypeCode |-> panel.type, KeyCount |-> n,
           Name |-> IF TrimSpace(name) = <<>> THEN NameOf(model, Nil) ELSE TrimSpace(name),
           Labels |-> DefaultEmulationLabels(model, n),
           UserVersion |-> <<1, 3, 0, 0>>, FPGAVersion |-> 0]

\* <<major, minor, patch>> and <<major, minor>>, as bytes.
UserVersionFits(v) == v[1] \in 0 .. 255 /\ v[2] \in 0 .. 255 /\ v[3] \in 0 .. 256 * 256 - 1
ParseUserVersion(v) == <<v[1], v[2], v[3] \div 256, v[3] % 256>>
FormatUserVersion(b) == <<b[1], b[2], b[3] * 256 + b[4]>>
FPGAVersionFits(v) == v[1] \in 0 .. 15 /\ v[2] \in 0 .. 15
ParseFPGAVersion(v) == v[1] * 16 + v[2]
FormatFPGAVersion(b) == <<b \div 16, b % 16>>

ApplyEmulationVersions(p, user, fpga) ==
  IF p = Nil \/ ~UserVersionFits(user) \/ ~FPGAVersionFits(fpga) THEN Nil
  ELSE [p EXCEPT !.UserVersion = ParseUserVersion(user), !.FPGAVersion = ParseFPGAVersion(fpga)]

\* emulationProfileFromMatrixTarget, of a type code; nothing for other devices.
FromTarget(code, c) ==
  LET model == {p.model : p \in {q \in Panels : q.type = code % 256}} IN
    IF model = {} THEN Nil
    ELSE LET m == CHOOSE x \in model : TRUE
             name == IF TrimSpace(c.name) = <<>> THEN NameOf(m, Port) ELSE TrimSpace(c.name)
         IN ApplyEmulationVersions(NewEmulationProfile(m, name, c.keys), c.user, c.fpga)

BitmapGroupCount(keyCount) == IF keyCount <= 0 THEN 0 ELSE (keyCount + 7) \div 8

\* Every character, up to the width if a printable one ends there; one that is not printable
\* does not end the name, and the next goes beyond.  Mutant: short names are not padded.
Written(name) ==
  LET last == IF Len(name) >= Width /\ name[Width] # Odd THEN Width ELSE Len(name)
  IN [i \in 1 .. last |-> IF name[i] = Odd THEN Underscore ELSE name[i]]
EmulationIdentityCodeShort(p) == Written(IF TrimSpace(p.Name) = <<>> THEN NameOf(p.Model, Nil) ELSE TrimSpace(p.Name))
EmulationIdentityCode(p) ==
  LET text == Written(IF TrimSpace(p.Name) = <<>> THEN NameOf(p.Model, Nil) ELSE TrimSpace(p.Name))
  IN text \o [i \in 1 .. Width - Len(text) |-> Blank]

IdentityTypeCode(p) == IF p = Nil \/ p.TypeCode = 0 THEN VirtualPanelTypeCode ELSE p.TypeCode
IdentityPayload(p) == <<73, 208, IdentityTypeCode(p)>> \o EmulationIdentityCode(p) \o p.UserVersion \o <<p.FPGAVersion>>

\* Of a payload as long as an identity.
ParseIdentityText(payload) == TrimRight(SubSeq(payload, 4, 3 + Width))

-----------------------------------------------------------------------------
CONSTANTS
  Configs,   \* emulation sections
  Codes,     \* type codes in maps
  AutoDevice

VARIABLES
  cfg,       \* the emulation section
  profile,   \* the profile in force
  asked      \* history: the last one selected

profileVars == <<cfg, profile, asked>>

\* Names are sequences, those of models begin and end with a character; versions have three
\* numbers and two.
IsName(name) == Len(name) \in Nat /\ name = [i \in 1 .. Len(name) |-> name[i]]
Neat(name) == IsName(name) /\ name # <<>> /\ name[1] # Blank /\ name[Len(name)] # Blank

ProfileAssumption ==
  /\ Width \in Nat \ {0} /\ Codes \subseteq Int
  /\ \A p \in Panels, port \in {Nil, Port} : Neat(NameOf(p.model, port))
  /\ \A c \in Configs :
       /\ IsName(c.name) /\ c.keys \in Int
       /\ c.user \in Int \X Int \X Int /\ c.fpga \in Int \X Int

\* Serve: a profile that cannot be made ends the program.
ProfileInit ==
  /\ cfg \in Configs
  /\ profile = IF cfg.device = AutoDevice THEN Nil
               ELSE ApplyEmulationVersions(NewEmulationProfile(cfg.device, cfg.name, cfg.keys), cfg.user, cfg.fpga)
  /\ cfg.device \notin {AutoDevice, Nil} => profile # Nil
  /\ asked = profile

\* What setEmulation compares.  Mutant: the names only.
SameName(p, q) == p.Name = q.Name
Same(p, q) ==
  /\ p.Model = q.Model /\ p.Name = q.Name /\ p.TypeCode = q.TypeCode /\ p.KeyCount = q.KeyCount
  /\ p.UserVersion = q.UserVersion /\ p.FPGAVersion = q.FPGAVersion

\* applyAutoEmulation of the names of one fetch.
Detect(code) ==
  LET next == FromTarget(code, cfg) IN
    /\ cfg.device = AutoDevice /\ next # Nil
    /\ asked' = next
    /\ profile' = IF profile # Nil /\ Same(profile, next) THEN profile ELSE next
    /\ UNCHANGED cfg

ProfileNext == \E code \in Codes : Detect(code)
ProfileSpec == ProfileInit /\ [][ProfileNext]_profileVars

-----------------------------------------------------------------------------
\* The profile in force is the one last selected, its labels too, which setEmulation does
\* not compare.
InForce == profile = asked

\* The keys of a panel fit in its bitmaps, whose number fits in four bits of a frame.
PanelFits ==
  profile # Nil => LET groups == BitmapGroupCount(profile.KeyCount) IN
                  /\ groups \in 1 .. 15
                  /\ profile.KeyCount <= 8 * groups /\ 8 * groups < profile.KeyCount + 8
                  /\ Len(profile.Labels) = profile.KeyCount

Printable(name) == Odd \notin ToSet(name)

\* What the matrix reads from an identity is the profile: its type, as much of its name as
\* fits and the versions of the configuration, each at its place and in bytes; for printable
\* names.
IdentityRead ==
  profile # Nil /\ Printable(profile.Name) =>
    LET payload == IdentityPayload(profile) IN
      /\ Len(payload) = Width + 8
      /\ payload[3] \in {p.type : p \in Panels}
      /\ ParseIdentityText(payload) =
           TrimRight(SubSeq(profile.Name, 1, IF Len(profile.Name) < Width THEN Len(profile.Name) ELSE Width))
      /\ \A i \in Width + 4 .. Width + 8 : payload[i] \in 0 .. 255
      /\ FormatUserVersion(SubSeq(payload, Width + 4, Width + 7)) = cfg.user
      /\ FormatFPGAVersion(payload[Width + 8]) = cfg.fpga

\* The profile in force is the one selected last, its keys fit in its bitmaps, and the
\* matrix reads from its identity what was configured (EmulationState, IdentityPayload).
ProfileRead == InForce /\ PanelFits /\ IdentityRead
=============================================================================
