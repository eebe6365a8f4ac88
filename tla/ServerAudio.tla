---------------------------- MODULE ServerAudio ----------------------------
(***************************************************************************)
(* Selection of the server's audio devices by several panels: a request    *)
(* reads the selection, applies the merge, switches the source and tells   *)
(* everybody, in steps between which other panels' requests run.           *)
(***************************************************************************)
EXTENDS Naturals, FiniteSets

CONSTANTS
  Panels, Ids, Keep,
  Requests,      \* the messages panels send
  MaxRequests, MaxFailures   \* bounds

Directions == {"capture", "playback"}

\* A request names what it changes; devices tells whether it is about the devices at all.
Request ==
  [devices : BOOLEAN, source : {"ws", "server", "bad", Keep},
   enable : [Directions -> {"on", "off", "keep"}], id : [Directions -> Ids \cup {Keep}]]

ServerAudioAssumption ==
  /\ MaxRequests \in Nat /\ MaxFailures \in Nat /\ Keep \notin Ids
  /\ IsFiniteSet(Panels) /\ Requests \subseteq Request

VARIABLES
  supported,           \* audio.Supported(), which the build decides
  selected, enabled,   \* serverCaptureDeviceID ..., serverCaptureEnabled ...
  generation, local,   \* localGeneration, local: what runs of which generation
  source,              \* txSource
  pumps,               \* generations whose capture pump runs
  step, ask, want,     \* of each panel's handler: where it is, the message, the merge,
  opened, note,        \* the generation it opened, the status it composed,
  untold,              \* the panels it has still to send that to
  told,                \* the status each panel has seen last
  overtaken,           \* handlers that have read a selection another one replaced since
  confused,            \* panels whose status may be wrong: requests overlapped, another's failed,
                       \* or an answer was under way when everybody was told
  asks, failures       \* counts, for the bounds

device == <<supported, selected, enabled, generation, local>>
handlers == <<step, ask, want, opened, note, untold>>
ghosts == <<overtaken, confused>>
selection == <<device, source, pumps, handlers, told, ghosts, asks, failures>>

Off == [d \in Directions |-> FALSE]
NoCall == [source |-> Keep]
NoDevice == [generation |-> 0, running |-> Off]

\* serverAudioStatusMessage
Status == [selected |-> selected, enabled |-> enabled, running |-> local.running, source |-> source]

Busy(p) == step[p] # "idle"
\* A handler that has read the selection to change it, and one that only answers its panel.
Changing(p) == step[p] \in {"apply", "pump", "source", "compose", "tell"}
Answering(p) == step[p] \in {"answer", "reply"}
Changers(p) == {q \in Panels \ {p} : Changing(q)}

SelectionInit ==
  /\ supported \in BOOLEAN
  /\ selected \in {[d \in Directions |-> i] : i \in Ids}
  /\ enabled = Off /\ generation = 0 /\ local = NoDevice
  /\ source = "ws" /\ pumps = {}
  /\ step = [p \in Panels |-> "idle"]
  /\ ask = [p \in Panels |-> NoCall] /\ want = ask /\ note = ask
  /\ opened = [p \in Panels |-> 0] /\ untold = [p \in Panels |-> {}]
  /\ told = [p \in Panels |-> Status]
  /\ overtaken = {} /\ confused = {} /\ asks = 0 /\ failures = 0

-----------------------------------------------------------------------------
MergeRunning(r, on, ids) ==
  [enabled  |-> [d \in Directions |-> r.enable[d] = "on"],
   selected |-> [d \in Directions |-> IF r.id[d] = Keep THEN ids[d] ELSE r.id[d]]]

Merge(r, on, ids) ==
  [enabled  |-> [d \in Directions |-> IF r.enable[d] = "keep" THEN on[d] ELSE r.enable[d] = "on"],
   selected |-> [d \in Directions |-> IF r.id[d] = Keep THEN ids[d] ELSE r.id[d]]]

\* Without a source of its own, a request that leaves capture on selects the server's.
SourceOf(r, on) == IF r.source = Keep /\ on["capture"] THEN "server" ELSE r.source

\* What a panel asks while nobody changes anything clears up what it was told wrong.
Asks(p) ==
  /\ step' = [step EXCEPT ![p] = "answer"]
  /\ confused' = IF Changers(p) = {} THEN confused \ {p} ELSE confused

\* A panel's message arrives: the selection is read and merged, an invalid source refused.
Receive(p, r) ==
  /\ step[p] = "idle" /\ asks < MaxRequests
  /\ asks' = asks + 1
  /\ IF r.source = "bad"
       THEN Asks(p) /\ UNCHANGED <<ask, want, overtaken>>
       ELSE /\ ask' = [ask EXCEPT ![p] = r]
            /\ LET merged == Merge(r, enabled, selected) IN
                 want' = [want EXCEPT ![p] =
                   [enabled |-> merged.enabled, selected |-> merged.selected,
                    source |-> IF r.devices THEN SourceOf(r, merged.enabled) ELSE r.source]]
            /\ step' = [step EXCEPT ![p] = IF r.devices THEN "apply" ELSE "source"]
            /\ overtaken' = overtaken \ {p}
            /\ confused' = IF Changers(p) = {} THEN confused ELSE Panels
  /\ UNCHANGED <<device, source, pumps, opened, note, untold, told, failures>>

\* server_audio_refresh, and every new connection
Refresh(p) ==
  /\ step[p] = "idle"
  /\ Asks(p)
  /\ UNCHANGED <<device, source, pumps, ask, want, opened, note, untold, told, overtaken, asks,
                 failures>>

\* applyServerAudio, before anything is touched: a build without audio refuses.
ApplyUnsupported(p) ==
  /\ want[p].enabled # Off /\ ~supported
  /\ step' = [step EXCEPT ![p] = "answer"]
  /\ UNCHANGED <<device, opened, ghosts, failures>>

Overtake(p) == overtaken' = overtaken \cup {q \in Panels \ {p} : Busy(q)}

ApplyFailedKeeps(p) ==
  /\ supported /\ failures < MaxFailures /\ failures' = failures + 1
  /\ local' = NoDevice /\ generation' = generation + 1
  /\ selected' = want[p].selected /\ enabled' = want[p].enabled
  /\ step' = [step EXCEPT ![p] = "answer"]
  /\ Overtake(p) /\ confused' = confused \cup (Panels \ {p})
  /\ UNCHANGED <<supported, opened>>

\* Under localMu: what was open is closed, the new selection opened. Only the one who asked
\* hears of a failure, though the old devices are closed.
ApplyFailed(p) ==
  /\ want[p].enabled # Off /\ supported
  /\ failures < MaxFailures /\ failures' = failures + 1
  /\ local' = NoDevice /\ generation' = generation + 1
  /\ selected' = want[p].selected /\ enabled' = Off
  /\ step' = [step EXCEPT ![p] = "answer"]
  /\ Overtake(p) /\ confused' = confused \cup (Panels \ {p})
  /\ UNCHANGED <<supported, opened>>

ApplyDone(p) ==
  /\ supported \/ want[p].enabled = Off
  /\ generation' = generation + 1
  /\ selected' = want[p].selected /\ enabled' = want[p].enabled
  /\ local' = IF want[p].enabled = Off THEN NoDevice
              ELSE [generation |-> generation + 1, running |-> want[p].enabled]
  /\ opened' = [opened EXCEPT ![p] = generation + 1]
  /\ step' = [step EXCEPT ![p] = "pump"]
  /\ Overtake(p) /\ UNCHANGED <<supported, confused, failures>>

Apply(p) ==
  /\ step[p] = "apply"
  /\ ApplyUnsupported(p) \/ ApplyFailed(p) \/ ApplyDone(p)
  /\ UNCHANGED <<source, pumps, ask, want, note, untold, told, asks>>

\* The pump of the device just opened, started after the unlock.
StartPumpForServer(p) ==
  /\ step[p] = "pump"
  /\ pumps' = IF want[p].enabled["capture"] /\ source = "server"
                THEN pumps \cup {opened[p]} ELSE pumps
  /\ step' = [step EXCEPT ![p] = "source"]
  /\ UNCHANGED <<device, source, ask, want, opened, note, untold, told, ghosts, asks, failures>>

StartPump(p) ==
  /\ step[p] = "pump"
  /\ pumps' = IF want[p].enabled["capture"] THEN pumps \cup {opened[p]} ELSE pumps
  /\ step' = [step EXCEPT ![p] = "source"]
  /\ UNCHANGED <<device, source, ask, want, opened, note, untold, told, ghosts, asks, failures>>

SetSource(p) ==
  /\ step[p] = "source"
  /\ source' = IF want[p].source = Keep THEN source ELSE want[p].source
  /\ step' = [step EXCEPT ![p] = "compose"]
  /\ UNCHANGED <<device, pumps, ask, want, opened, note, untold, told, ghosts, asks, failures>>

ComposeForAsker(p) ==
  /\ step[p] \in {"compose", "answer"}
  /\ note' = [note EXCEPT ![p] = Status]
  /\ step' = [step EXCEPT ![p] = IF step[p] = "compose" THEN "tell" ELSE "reply"]
  /\ untold' = [untold EXCEPT ![p] = {p}]
  /\ UNCHANGED <<device, source, pumps, ask, want, opened, told, ghosts, asks, failures>>

\* serverAudioState under localMu; the source is read after the unlock. A change is for
\* everybody, an answer for the panel that asked.
Compose(p) ==
  /\ step[p] \in {"compose", "answer"}
  /\ note' = [note EXCEPT ![p] = Status]
  /\ step' = [step EXCEPT ![p] = IF step[p] = "compose" THEN "tell" ELSE "reply"]
  /\ untold' = [untold EXCEPT ![p] = IF step[p] = "compose" THEN Panels ELSE {p}]
  /\ UNCHANGED <<device, source, pumps, ask, want, opened, told, ghosts, asks, failures>>

ComposeSource(p) ==
  /\ untold[p] = IF step[p] = "tell" THEN Panels ELSE {p}
  /\ step[p] \in {"tell", "reply"} /\ note[p].source # source
  /\ note' = [note EXCEPT ![p].source = source]
  /\ UNCHANGED <<device, source, pumps, step, ask, want, opened, untold, told, ghosts, asks,
                 failures>>

Finish(p) ==
  /\ step' = [step EXCEPT ![p] = "idle"] /\ opened' = [opened EXCEPT ![p] = 0]
  /\ ask' = [ask EXCEPT ![p] = NoCall] /\ want' = [want EXCEPT ![p] = NoCall]
  /\ note' = [note EXCEPT ![p] = NoCall]

\* broadcastJSON sends to one panel after the other, writeJSON to one. An answer composed
\* before a change is told and sent after it is the last that panel hears.
Tell(p, q) ==
  /\ step[p] \in {"tell", "reply"} /\ q \in untold[p]
  /\ told' = [told EXCEPT ![q] = note[p]]
  /\ untold' = [untold EXCEPT ![p] = @ \ {q}]
  /\ confused' = confused \cup {o \in {q} \ {p} : step[o] = "reply"}
  /\ IF untold'[p] = {} THEN Finish(p) ELSE UNCHANGED <<step, ask, want, opened, note>>
  /\ UNCHANGED <<device, source, pumps, overtaken, asks, failures>>

\* A pump ends when its device has been closed and the channel is drained.
PumpEnds(g) ==
  /\ g \in pumps /\ g # local.generation
  /\ pumps' = pumps \ {g}
  /\ UNCHANGED <<device, source, handlers, told, ghosts, asks, failures>>

HandlerStep(p) ==
  \/ Apply(p) \/ StartPump(p) \/ SetSource(p) \/ Compose(p) \/ ComposeSource(p)
  \/ \E q \in Panels : Tell(p, q)

SelectionNext ==
  \/ \E p \in Panels : HandlerStep(p) \/ Refresh(p) \/ \E r \in Requests : Receive(p, r)
  \/ \E g \in pumps : PumpEnds(g)

\* Goroutines run, and opening a device returns.
SelectionFairness ==
  /\ \A p \in Panels : WF_selection(HandlerStep(p))
  /\ \A g \in 1 .. MaxRequests : WF_selection(PumpEnds(g))
SelectionSpec == SelectionInit /\ [][SelectionNext]_selection /\ SelectionFairness

-----------------------------------------------------------------------------
SelectionTypeOK ==
  /\ selected \in [Directions -> Ids] /\ enabled \in [Directions -> BOOLEAN]
  /\ generation \in 0 .. MaxRequests /\ local.generation \in {0, generation}
  /\ source \in {"ws", "server"} /\ pumps \subseteq 1 .. generation

\* What the bridge believes enabled is what runs, after any failure and in any order of
\* requests.
EnabledRuns == enabled = local.running

\* A request changes what it names and nothing else, unless another one was applied while
\* it was between reading and applying; what it names holds in any case.
Merges ==
  [][\A p \in Panels : step[p] = "apply" /\ step'[p] = "pump" =>
      /\ \A d \in Directions :
           /\ ask[p].enable[d] # "keep" => enabled'[d] = (ask[p].enable[d] = "on")
           /\ ask[p].id[d] # Keep => selected'[d] = ask[p].id[d]
      /\ p \notin overtaken =>
           \A d \in Directions :
             /\ ask[p].enable[d] = "keep" => enabled'[d] = enabled[d]
             /\ ask[p].id[d] = Keep => selected'[d] = selected[d]]_selection

\* When nobody has a request under way, a panel shows what is the case, unless since it last
\* asked changes overlapped, another panel's failed, or a change was told while an answer to
\* it was on its way.
UndisturbedTold ==
  (\A p \in Panels : ~Busy(p)) => \A p \in Panels \ confused : told[p] = Status

\* When no request is under way, what is believed enabled runs, and a panel that nothing
\* confused shows it (serverAudioStatusMessage).
ToldRight == SelectionTypeOK /\ EnabledRuns /\ UndisturbedTold

\* A capture device that stays open is pumped, by a pump of its own, and only it is: the
\* pumps of closed devices end.
PumpFollowsDevice ==
  \A g \in 1 .. MaxRequests :
    /\ (local.generation = g /\ local.running["capture"])
         ~> (g \in pumps \/ local.generation # g)
    /\ (g \in pumps /\ local.generation # g) ~> g \notin pumps
=============================================================================
