------------------------------- MODULE Config -------------------------------
(***************************************************************************)
(* The configuration of a process: the file read over the defaults, legacy *)
(* sections, one instance merged into it, validation, and the routes the   *)
(* gateway registers for it.                                               *)
(***************************************************************************)
EXTENDS Naturals, FiniteSets, SequencesExt

CONSTANTS
  Fields, Flags,        \* all settings; those that are booleans
  Emulated,             \* those of the emulation section, which simulation is an alias of
  Zero, Absent,         \* the empty value; not in the file
  Default,              \* what Default() sets, Zero for the rest
  Bad,                  \* a value Validate refuses where it is checked
  Slashed,              \* a path with its slash in front
  Files                 \* [file, simulation, instance, instanceSimulation]

\* The sections of a file: settings, of the file and of one instance, and their aliases.
Sectioned(x) ==
  /\ x = [file |-> x.file, simulation |-> x.simulation, instance |-> x.instance,
          instanceSimulation |-> x.instanceSimulation, chosen |-> x.chosen]
  /\ x.chosen \in BOOLEAN /\ DOMAIN x.file = Fields /\ DOMAIN x.instance = Fields
  /\ DOMAIN x.simulation \subseteq Emulated /\ DOMAIN x.instanceSimulation \subseteq Emulated

ConfigAssumption ==
  /\ Flags \subseteq Fields /\ Emulated \subseteq Fields /\ Flags \cap Emulated = {}
  /\ {"control", "audio", "cert", "key"} \subseteq Fields
  /\ Default \in [Fields -> {Default[f] : f \in Fields}]
  /\ \A f \in Flags : Default[f] = Zero
  /\ \A x \in Files : Sectioned(x)

VARIABLES
  stage,      \* "start", "loaded", "resolved", "serving"
  input,      \* the file
  config,     \* the settings so far, and the sections merged later
  accepted, routes

configVars == <<stage, input, config, accepted, routes>>

\* What a section that is decoded into an empty structure holds.
Decoded(section) == [f \in DOMAIN section |-> IF section[f] = Absent THEN Zero ELSE section[f]]

\* Every merge of the code is this one: an empty value is filled from elsewhere.
Fill(settings, from) ==
  [f \in DOMAIN settings |->
     IF settings[f] = Zero /\ f \in DOMAIN from THEN from[f] ELSE settings[f]]

noDefaults(c) == c
applyDefaults(c) == Fill(c, Default)
mergeEmulationAlias(settings, simulation) == Fill(settings, simulation)
mergeInstanceReversed(c, instance) == Fill(c, instance)
mergeInstance(c, instance) == Fill(instance, c)

-----------------------------------------------------------------------------
ConfigInit ==
  /\ stage = "start" /\ input \in Files
  /\ config = [settings |-> Default] /\ accepted = FALSE /\ routes = <<>>

\* The file is decoded over the defaults.
Load ==
  /\ stage = "start" /\ stage' = "loaded"
  /\ LET read == [f \in Fields |-> IF input.file[f] = Absent THEN Default[f] ELSE input.file[f]]
         simulation == Decoded(input.simulation) IN
       config' = [settings |-> applyDefaults(mergeEmulationAlias(read, simulation)),
                  simulation |-> simulation,
                  instance |-> mergeEmulationAlias(Decoded(input.instance),
                                                   Decoded(input.instanceSimulation))]
  /\ UNCHANGED <<input, accepted, routes>>

NormalizeWSPathOf(c, f) == c[f]
NormalizeWSPath(c, f) == Slashed[c[f]]

Validate(c) ==
  /\ \A f \in Fields : c[f] # Bad
  /\ Zero \notin {c["control"], c["audio"]}
  /\ NormalizeWSPath(c, "control") # NormalizeWSPath(c, "audio")
  /\ (c["cert"] = Zero) = (c["key"] = Zero)

ResolveWith(settings) ==
  LET done == applyDefaults(mergeEmulationAlias(settings, config.simulation)) IN
    /\ config' = [config EXCEPT !.settings = done]
    /\ accepted' = Validate(done)

\* ResolveInstance, with or without an instance
ResolveInstance(chosen) ==
  /\ stage = "loaded" /\ stage' = "resolved"
  /\ ResolveWith(IF chosen THEN mergeInstance(config.settings, config.instance)
                           ELSE config.settings)
  /\ input' = [input EXCEPT !.chosen = chosen]
  /\ UNCHANGED routes

\* The gateway registers the static files and the two sockets, and panics on a duplicate.
Serve ==
  /\ stage = "resolved" /\ accepted
  /\ stage' = "serving"
  /\ routes' = <<"/", Slashed[config.settings["control"]], Slashed[config.settings["audio"]]>>
  /\ UNCHANGED <<input, config, accepted>>

ConfigNext == Load \/ Serve \/ \E chosen \in BOOLEAN : ResolveInstance(chosen)

ConfigSpec == ConfigInit /\ [][ConfigNext]_configVars

-----------------------------------------------------------------------------
Resolved == stage \in {"resolved", "serving"}
IsSet(section, f) == f \in DOMAIN section /\ section[f] \notin {Absent, Zero}

\* The sections that speak of a field, the strongest first.
Sections == (IF input.chosen THEN <<input.instance, input.instanceSimulation>> ELSE <<>>)
              \o <<input.file, input.simulation>>
Strongest(f) ==
  LET set == {i \in DOMAIN Sections : IsSet(Sections[i], f)} IN
    IF set = {} THEN Default[f] ELSE Sections[CHOOSE i \in set : \A j \in set : i <= j][f]

\* A setting comes from the strongest section that sets it: the instance before the file,
\* a section before its legacy alias, whatever is merged when.  Only the alias of a setting
\* that has a default does not come through, unless the file empties the setting.
Shadowed(f) ==
  /\ Default[f] # Zero /\ input.file[f] = Absent /\ IsSet(input.simulation, f)
  /\ ~(input.chosen /\ (IsSet(input.instance, f) \/ IsSet(input.instanceSimulation, f)))
Precedence ==
  Resolved => \A f \in Fields : ~Shadowed(f) => config.settings[f] = Strongest(f)

\* Nothing a setting needs is missing in the end, also when a section empties it.
DefaultsHold == Resolved => \A f \in Fields : Default[f] # Zero => config.settings[f] # Zero

\* An accepted configuration registers no route twice, whichever section a path comes from
\* and however it is written, except for a socket put in the place of the static files.
RoutesDistinct ==
  stage = "serving" /\ "/" \notin {routes[2], routes[3]}
    => Cardinality({routes[i] : i \in DOMAIN routes}) = 3

\* A setting comes from the strongest section that sets it and has its default elsewhere;
\* what is accepted registers no route twice (config).
SettingsMerge == Precedence /\ DefaultsHold /\ RoutesDistinct
=============================================================================
