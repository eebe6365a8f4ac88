-------------------------------- MODULE Hub --------------------------------
(***************************************************************************)
(* The hub that mirrors the panel into browsers over control WebSockets.   *)
(*                                                                         *)
(* broadcastJSON remembers the latest message of each kind in a snapshot   *)
(* and lists the clients under the mutex, then writes to them without it.  *)
(* A new client joins the hub first and is then sent a copy of the         *)
(* snapshot, so broadcasts and the replay interleave.  Writing never       *)
(* blocks: a client whose queue is full is closed.                         *)
(*                                                                         *)
(* Of the messages the model keeps those about keys - the bitmap of all    *)
(* keys and the change of one - and the emulation profile, whose presence  *)
(* in the snapshot a joining client depends on.                            *)
(***************************************************************************)
EXTENDS Integers, Sequences, FiniteSetsExt

CONSTANTS
  Client,         \* control WebSocket connections
  Broadcaster,    \* goroutines that call broadcastJSON
  Key,            \* keys of the panel
  Coverage,       \* the sets of keys that bitmaps cover
  Capacity,       \* wsTextQueueMessages: 512
  MaxBroadcasts   \* bound on the number of broadcasts

ASSUME SizeAssumption ==
  /\ Capacity \in Nat \ {0} /\ MaxBroadcasts \in Nat
  /\ IsFiniteSet(Client) /\ IsFiniteSet(Key)
  /\ Coverage \subseteq SUBSET Key /\ Key \in Coverage

Keys(covered, down) == [kind |-> "keys", covered |-> covered, down |-> down]
KeyEvent(k, pressed) == [kind |-> "key_event", key |-> k, pressed |-> pressed]
Emulation == [kind |-> "emulation"]
Message == (UNION {{Keys(c, down) : down \in SUBSET c} : c \in Coverage})
             \union {KeyEvent(k, p) : k \in Key, p \in BOOLEAN}
             \union {Emulation}

VARIABLES
  snapshot,   \* the cached messages, each with its place in the list
  clients,    \* the clients in the hub
  open,       \* connections whose done channel is not closed
  queue,      \* textSend of each client
  view,       \* the keys each browser shows as pressed
  pc,         \* each connection: out, seed, blank, copy, replay, live, gone
  copied,     \* what is left of the snapshot copy a joining client is sent
  message,    \* what each broadcaster is sending
  targets,    \* the clients it has still to write to
  count,      \* number of broadcasts so far
  panel,      \* history: the keys a browser following every broadcast would show
  disturbed   \* history: clients during whose joining something was broadcast, and
              \* no bitmap since

connection == <<clients, open, queue, view, pc, copied>>
sending == <<message, targets, count>>
vars == <<snapshot, connection, sending, panel, disturbed>>

-----------------------------------------------------------------------------
\* What a browser shows after a message (app.js).
Apply(shown, m) ==
  CASE m.kind = "keys" -> (shown \ m.covered) \union m.down
    [] m.kind = "key_event" -> IF m.pressed THEN shown \union {m.key} ELSE shown \ {m.key}
    [] OTHER -> shown

\* snapshotKey: messages of one key replace one another.
SameKey(m, n) == m.kind = n.kind /\ (m.kind = "key_event" => m.key = n.key)

\* removeCachedSnapshotPrefix, on behalf of a new bitmap.  Mutant: nothing is removed.
ForgetNothing(items, m) == items
ForgetOutdated(items, m) ==
  IF m.kind = "keys" THEN {e \in items : e.message.kind # "key_event"} ELSE items

\* cacheSnapshotLocked: in place if there is an entry of this key, else at the end.
NextPlace(items) == 1 + Max({0} \union {e.place : e \in items})
Cache(items, m) ==
  LET kept == ForgetOutdated(items, m)
      same == {e \in kept : SameKey(e.message, m)}
  IN  IF same # {}
        THEN (kept \ same) \union {[message |-> m, place |-> e.place] : e \in same}
        ELSE kept \union {[message |-> m, place |-> NextPlace(kept)]}

Init ==
  /\ snapshot = {}
  /\ clients = {}
  /\ open = {}
  /\ queue = [c \in Client |-> <<>>]
  /\ view = [c \in Client |-> {}]
  /\ pc = [c \in Client |-> "out"]
  /\ copied = [c \in Client |-> {}]
  /\ message = [b \in Broadcaster |-> Emulation]
  /\ targets = [b \in Broadcaster |-> {}]
  /\ count = 0
  /\ panel = {}
  /\ disturbed = {}

-----------------------------------------------------------------------------
(***************************************************************************)
(* client.                                                                 *)
(***************************************************************************)

\* writeText: nothing for a closed client, and a full queue closes the client.
\* Mutants: the write waits for room; a message that does not fit is dropped.
WriteTextBlocking(c, m) ==
  /\ c \in open => Len(queue[c]) < Capacity
  /\ queue' = IF c \in open THEN [queue EXCEPT ![c] = Append(@, m)] ELSE queue
  /\ UNCHANGED open
WriteTextDropping(c, m) ==
  /\ queue' = IF c \in open /\ Len(queue[c]) < Capacity
                THEN [queue EXCEPT ![c] = Append(@, m)] ELSE queue
  /\ UNCHANGED open
WriteText(c, m) ==
  IF c \in open
    THEN IF Len(queue[c]) < Capacity
           THEN queue' = [queue EXCEPT ![c] = Append(@, m)] /\ UNCHANGED open
           ELSE open' = open \ {c} /\ UNCHANGED queue
    ELSE UNCHANGED <<queue, open>>

\* writeLoop: the oldest message goes to the browser.
WriteLoop(c) ==
  /\ c \in open
  /\ queue[c] # <<>>
  /\ queue' = [queue EXCEPT ![c] = Tail(@)]
  /\ view' = [view EXCEPT ![c] = Apply(@, Head(queue[c]))]
  /\ UNCHANGED <<snapshot, clients, open, pc, copied, sending, panel, disturbed>>

\* A write to the socket fails, or the browser goes away.
Close(c) ==
  /\ c \in open
  /\ open' = open \ {c}
  /\ UNCHANGED <<snapshot, clients, queue, view, pc, copied, sending, panel, disturbed>>

-----------------------------------------------------------------------------
(***************************************************************************)
(* serveWS, the goroutine of a connection.                                 *)
(***************************************************************************)

Goto(c, l) == pc' = [pc EXCEPT ![c] = l]

\* newClient and hub.add.
Join(c) ==
  /\ pc[c] = "out"
  /\ clients' = clients \union {c}
  /\ open' = open \union {c}
  /\ Goto(c, "seed")
  /\ UNCHANGED <<snapshot, queue, view, copied, sending, panel, disturbed>>

\* writeInitialControlState: hasSnapshotKey finds no emulation profile; if there is
\* one now, the client is given what it starts with.
Seed(c) ==
  /\ pc[c] = "seed"
  /\ \/ Goto(c, "copy")
     \/ /\ \A e \in snapshot : e.message.kind # "emulation"
        /\ Goto(c, "blank")
  /\ UNCHANGED <<snapshot, clients, open, queue, view, copied, sending, panel, disturbed>>

\* publishEmulationSnapshot, to this client: the bitmap with no key pressed.
Blank(c) ==
  /\ pc[c] = "blank"
  /\ WriteText(c, Keys(Key, {}))
  /\ Goto(c, "copy")
  /\ UNCHANGED <<snapshot, clients, view, copied, sending, panel, disturbed>>

\* replaySnapshot, under the mutex.
CopySnapshot(c) ==
  /\ pc[c] = "copy"
  /\ copied' = [copied EXCEPT ![c] = snapshot]
  /\ Goto(c, "replay")
  /\ UNCHANGED <<snapshot, clients, open, queue, view, sending, panel, disturbed>>

\* replaySnapshot, without it: one message, the list from its front.
First(items) == CHOOSE e \in items : \A f \in items : e.place <= f.place
Replay(c) ==
  /\ pc[c] = "replay"
  /\ IF copied[c] # {}
       THEN /\ WriteText(c, First(copied[c]).message)
            /\ copied' = [copied EXCEPT ![c] = @ \ {First(@)}]
            /\ UNCHANGED pc
       ELSE Goto(c, "live") /\ UNCHANGED <<open, queue, copied>>
  /\ UNCHANGED <<snapshot, clients, view, sending, panel, disturbed>>

\* ReadMessage fails once the connection is closed: hub.remove.  Mutant: only the
\* connection is closed.
LeaveHubKept(c) ==
  /\ pc[c] = "live" /\ c \notin open
  /\ Goto(c, "gone")
  /\ UNCHANGED <<snapshot, clients, open, queue, view, copied, sending, panel, disturbed>>
Leave(c) ==
  /\ pc[c] = "live" /\ c \notin open
  /\ clients' = clients \ {c}
  /\ Goto(c, "gone")
  /\ UNCHANGED <<snapshot, open, queue, view, copied, sending, panel, disturbed>>

Serve(c) == Seed(c) \/ Blank(c) \/ CopySnapshot(c) \/ Replay(c) \/ Leave(c)

-----------------------------------------------------------------------------
(***************************************************************************)
(* broadcastJSON.                                                          *)
(***************************************************************************)

\* Under the mutex: update the snapshot, list the clients.
Broadcast(b, m) ==
  /\ targets[b] = {}
  /\ count < MaxBroadcasts
  /\ count' = count + 1
  /\ snapshot' = Cache(snapshot, m)
  /\ message' = [message EXCEPT ![b] = m]
  /\ targets' = [targets EXCEPT ![b] = clients]
  /\ panel' = Apply(panel, m)
  /\ disturbed' = (IF m.kind = "keys" THEN {} ELSE disturbed)
                   \union {c \in Client : pc[c] \in {"seed", "blank", "copy", "replay"}}
  /\ UNCHANGED connection

\* Without it: write to one of them, in the order of a Go map.
WriteOne(b, c) ==
  /\ c \in targets[b]
  /\ WriteText(c, message[b])
  /\ targets' = [targets EXCEPT ![b] = @ \ {c}]
  /\ UNCHANGED <<snapshot, clients, view, pc, copied, message, count, panel, disturbed>>

Next ==
  \/ \E c \in Client : WriteLoop(c) \/ Close(c) \/ Join(c) \/ Serve(c)
  \/ \E b \in Broadcaster : \/ \E m \in Message : Broadcast(b, m)
                            \/ \E c \in Client : WriteOne(b, c)

Spec == Init /\ [][Next]_vars

\* Broadcasts and connection goroutines that have started go on.  Browsers may
\* stop reading: nothing is assumed about writeLoop.
Fairness ==
  /\ \A c \in Client : WF_vars(Serve(c))
  /\ \A b \in Broadcaster : WF_vars(\E c \in Client : WriteOne(b, c))
FairSpec == Spec /\ Fairness

-----------------------------------------------------------------------------
(***************************************************************************)
(* Properties.                                                             *)
(***************************************************************************)

\* The variables keep their types, and the queues their capacity.
TypeOK ==
  /\ snapshot \subseteq [message : Message, place : Nat \ {0}]
  /\ clients \subseteq Client /\ open \subseteq Client
  /\ queue \in [Client -> Seq(Message)]
  /\ \A c \in Client : Len(queue[c]) <= Capacity
  /\ view \in [Client -> SUBSET Key]
  /\ pc \in [Client -> {"out", "seed", "blank", "copy", "replay", "live", "gone"}]
  /\ copied \in [Client -> SUBSET [message : Message, place : Nat \ {0}]]
  /\ message \in [Broadcaster -> Message]
  /\ targets \in [Broadcaster -> SUBSET Client]
  /\ count \in 0 .. MaxBroadcasts
  /\ panel \subseteq Key
  /\ disturbed \subseteq Client

\* The keys a browser shows as pressed that starts with none and is sent a list of messages:
\* of those about a key, the last decides.
Touches(m, k) ==
  \/ m.kind = "keys" /\ k \in m.covered
  \/ m.kind = "key_event" /\ k = m.key
Shown(items) ==
  {k \in Key : \E e \in items :
                 /\ k \in Apply({}, e.message)
                 /\ \A f \in items : e.place < f.place => ~Touches(f.message, k)}

\* The snapshot stands for the whole history: replayed to a browser that shows
\* nothing, it has the effect of every broadcast since the start, although it
\* keeps one message of each kind in the order the kinds first appeared.  (Bitmaps
\* have to cover the whole panel: a smaller one also removes the changes of keys it
\* does not cover.)
SnapshotIsHistory == Shown(snapshot) = panel

\* Nothing is on its way to client c.
Settled(c) ==
  /\ pc[c] = "live" /\ queue[c] = <<>>
  /\ \A b \in Broadcaster : c \notin targets[b]

\* A browser shows the panel if nothing was broadcast while it joined or a bitmap
\* was broadcast since: broadcasts reach it all, in order, or it is closed, and a
\* bitmap repairs what the replay may have got wrong.
UndisturbedMirrors ==
  \A c \in open : Settled(c) /\ c \notin disturbed => view[c] = panel

\* README.md: "The embedded Web UI mirrors the configured Kroma panel, including
\* key state": any connected browser with nothing on its way shows the panel.
Mirrors == \A c \in open : Settled(c) => view[c] = panel

\* Nobody waits for a browser: a broadcast ends, whatever browsers do, and a connection
\* closed for any reason leaves the hub (broadcastJSON, serveWS).
NobodyWaits ==
  /\ \A b \in Broadcaster : (targets[b] # {}) ~> (targets[b] = {})
  /\ \A c \in Client : (c \in clients /\ c \notin open) ~> (c \notin clients)
=============================================================================
