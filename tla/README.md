# prtp-bridge in TLA+

`prtp-bridge` connects browsers, and sound devices of the host, to one port of a
Kroma intercom matrix. It speaks PRTP over UDP with the matrix (audio packets
that carry up to four control bytes each), serves a web page with two
WebSockets (control and audio), and reads names from the matrix over TCP/2222
through a helper process. This directory holds TLA+ models of its protocols, its
concurrency and its data conversions, the TLC runs that check them, and proofs
checked by TLAPS.

Line numbers below are those of `src/internal/prtpbridge/gateway/gateway.go`
unless another file is named.

## Inventory

| part | state | operations | who calls it |
|---|---|---|---|
| RX read loop (1244-1421) | read deadline, fragment assembler, reorder buffer or sequence tracker, unstuffing accumulator, `sentSync` | `ReadFrom`, `dispatchPacket`, `flushReorder`, `processPacket` | one goroutine |
| fragment assembler (121-183) | address, start time, bytes of a partial packet | `push`, `reset` | RX loop |
| reorder buffer (185-280) | `initialized`, `expected` (a byte), `pending`, `waitingFrom` | `push`, `flushExpired`, `drainReady` | RX loop |
| sequence tracker (282-311) | `initialized`, `expected` | `observe` | RX loop, when reordering is off |
| PRTP control receive (1316-1371, 1832-1946) | escape flag, accumulator, `sentSync` | unstuffing, `emitInfo`, invalid-frame response | RX loop |
| peer (402-425) | `udpPeerAddr` under `peerMu` | `getPeer`, `setPeer` | all goroutines |
| emulation (487-517, 580-602, 1792-1830) | profile and `EmulationState` under `emuMu`, an atomic flag in the state | `getEmulation`, `setEmulation`, `announceEmulationOnce`, `publishEmulationSnapshot` | main, RX loop, names fetches |
| TX control queue (61-112, 530-579) | started frame, high and normal lists under `ctrlMu` | `enqueue`, `pendingBytes`, `pop`, `queueControlDrain` | RX loop, browsers, fetches, ticker |
| TX audio channel and ticker (518-528, 629-701) | channel of 4 blocks, time of the last real audio, sequence byte | `queueAudioBlock`, `writeAudioBlock` | speakers (browser audio, capture pump, tone, echo), ticker |
| TX source (335-350) | `txSource` under a mutex | get, set | all |
| hub and clients (1516-1781) | set of clients, snapshot; per client two queues and `done` | `add`, `remove`, `broadcast`, `broadcastJSON`, `replaySnapshot`; `writeText`, `writeBinary`, `writeLoop`, `close` | RX loop, fetches, statistics, one goroutine per connection plus its `writeLoop` |
| control requests (1015-1173) | none of its own | keys, raw PRTP, audio selection, names, crosspoint | connection goroutines |
| server audio (744-960) | devices and selection under `localMu`, `localGeneration`, playback queue | `applyServerAudio`, capture pump, playback goroutine | browsers, RX loop |
| local audio devices (`audio/local_audio_malgo.go`) | ring of samples, capture channel | callbacks of the audio library, `Play`, `Close` | device threads |
| matrix helper (`matrixhelper/helper.go`) | a mutex, the socket file | names, crosspoint, health | the gateway, over a Unix socket |
| matrix client (`matrix/matrix.go`) | one TCP connection per fetch | `Exchange`, `FetchNames`, `FetchCurrentMap`, map parser | helper |
| PRTP framing (`prtp/prtp.go`) | none | CRC, stuffing, audio packets, profiles | gateway |
| G.711, resampling, configuration | tables, filter history, options | conversions, validation | gateway |
| browser panel (`webui/app.js`) | panel, connection, microphone | message handlers, reconnect | the page |
| browser jitter buffer (`webui/rx-worklet.js`) | packet queue, fades, rate | `enqueue`, `process` | audio thread of the browser |

What makes this code hard:

* **Time and order at the receiver.** A byte of sequence number that wraps, a
  wait measured from one instant and a read deadline measured from another,
  packets late, lost and duplicated.
* **Many goroutines, one packet stream.** Control frames of several priorities
  and audio blocks of several sources meet in one ticker, over two queues with
  different locks; the audio channel is emptied by whoever finds it full.
* **Pairs of facts learned in different goroutines.** A peer and an emulation
  profile, either one first.
* **State replayed to late joiners** while it changes.
* **Slow or vanishing partners**: browsers that stop reading, clients that give
  up on the helper, a matrix that repeats frames.

What makes each part correct: the receiver hands on each packet once, in order,
as soon as its wait allows; a control frame leaves whole, in order, and always
leaves; audio of one source stays in order; a profile is announced once and not
forgotten; the snapshot stands for the history and a browser shows the panel;
no partner can block the bridge; the helper serves one fetch at a time; a map
counts as complete only when it is.

## Modules

| module | models | abstract specification |
|---|---|---|
| `RxFragments` | assembler of packets split over datagrams, with its senders and UDP | |
| `RxReorder` | reorder buffer and read loop | |
| `RxStream` | `RxReorder` with a sending peer and a UDP network | `OrderedStream` |
| `RxControl` | control bytes out of packets, frames, `emitInfo`, replies | |
| `TxPath` | control queue, audio channel, ticker, the goroutines that feed them | |
| `Announce` | peer, profile and their announcement | |
| `Identity` | profiles, when one replaces another, the identity text | |
| `Hub` | control clients, snapshot, broadcast, replay | |
| `ClientQueues` | the queues of one connection, its writers, sender and closing | `ClientPromise` |
| `ServerAudio` | `server_audio_select`, `applyServerAudio`, capture pumps, status messages | |
| `ServerPlayback` | read loop to speaker: queue, goroutine, resampler | |
| `LocalAudio` | one device: opening, callbacks, `Play`, pump, `Close` | |
| `WsInput` | audio from browsers: rate, resampler, blocks | |
| `Resampling` | `Int16StreamResampler`, `ResampleInt16`, `FIRFilter` | |
| `RateConversion` | a signal fed to them in pieces of any length | |
| `JitterBuffer` | `rx-worklet.js` | |
| `MatrixSession` | `FetchNames`, `FetchCurrentMap`, `Exchange` and a matrix with faults | `MapFetch` |
| `MatrixHelper` | helper requests, mutex, socket file, process starts and stops | |
| `MapParser` | `ParseMapData` and what a fetch keeps of a map | |
| `Framing` | CRC, stuffing, both readers, audio packet | |
| `G711` | codec tables and conversions | |
| `Config` | file, legacy sections, instance, validation, routes | |
| `RxProofs` | proofs about `RxReorder` and `RxStream` | |
| `IncomingProofs` | proofs about `RxFragments` and `RxControl` | |
| `TxPathProofs`, `HubProofs`, `ClientQueuesProofs` | proofs about the modules they are named after | |
| `ProfileProofs` | proofs about `Announce`, `Config` and `Identity` | |
| `MatrixProofs` | proofs about `MatrixSession` and `MatrixHelper` | |
| `SoundProofs` | proofs about `ServerAudio`, `LocalAudio`, `WsInput`, `JitterBuffer` and `RateConversion` | |
| `MC...` | instances for TLC | |

Operators written as mutants stand next to the definitions they vary. They are
the plausible bugs with which each property is shown to bite, and no
specification uses them.

`MCIncoming`, `MCMatrix`, `MCSound`, `MCProgress` and `MCData` each hold several
components that take no notice of each other here. A variable `part` says which
of them runs; it is fixed by `Init`, and the variables of the others keep their
initial values. One run then checks what several would, with the sum and not the
product of their states. Where another part's goroutines would be bound by
fairness to move, that part is switched off (`TxOff`, `QueuesOff`, `SoundOff` in
`MCProgress`). The components whose properties are also proved are extended, so
that a run checks the very definition the theorem states (`RxFragments` in
`MCIncoming`, `ClientQueues` in `MCProgress`, both matrix modules in `MCMatrix`,
all four of `MCSound`). Operators that would clash there carry the name of their
component: `HelperInit`, `SelectionNext`, `InputSpec`, `BufferTypeOK` and so on.
The others are instances.

### RxReorder

The state is that of `rxReorderBuffer` plus the read loop's deadline.
`waitingFrom` and the deadline are instants in the code; the model keeps their
ages (`age`, `idle`), which saturate where no comparison tells more. `ready`
holds what the last step handed to `processPacket`, `stats` what it counted.
`Push` has one action per way through `push`; `Receive` is a datagram in
`dispatchPacket`, `Timeout` an expired read deadline, `Arm` the top of the loop,
`Tick` the clock. `NoPacket` is a read that brings nothing to push, a datagram
the assembler keeps or drops or an error other than the deadline: the loop arms
the deadline anew. A tick may fall anywhere between, so packets may also be
processed late. The sequence space has `2 * Half` numbers instead of 256. The
choices of how far a gap or a run reaches (`Gap`, `Run`) determine one number;
they replace the loops of `flushExpired` and `drainReady`.

### RxStream

A packet is its index in the peer's stream and carries the index modulo the
space. The network may lose any packet, duplicate `MaxCopies` of them and
deliver in any order. `InStep` states what a byte of sequence number can serve:
no packet in flight is older than half the space, and the peer does not run
ahead of what the receiver expects by half the space (a burst of losses, or a
wait longer than 127 packets, about four seconds of audio). Outside it the code
gives no guarantee: after an outage of 128 to 255 packets everything is stale
until the byte comes round, and a packet left in the buffer can be replayed as
current. The receiver implements `OrderedStream`: what it hands on is a
subsequence of what was sent, in order; `ImplementsOrdered` adds that it leaves
out only what was lost or came too late. `StreamSpec` has the steps, and
`FairStreamSpec`, which the run uses, the fairness of the receiver as well.
`StreamAssumption` says that packets carry their index modulo the space; it is a
hypothesis of the theorems and assumed of the instance in `MCRxStream`, because
`RxReorder` by itself takes packets with any numbers.

### RxFragments

A datagram is a run of units of one packet. The code sees lengths, addresses,
the time and the first bytes; the model also knows which packet a unit is of,
so that it can tell a mixture. `Push` has one action per way through `push`.
Two senders split packets as the peer of the repository's test does, send whole
ones and one that is too long; the network loses, holds back and overtakes.
`MixedOnlyFromDamaged` is what the code gives: two halves of different packets
are joined only when each packet has lost its other half. That is true of a
first piece longer than half a packet.

### RxControl and Framing

`Framing` has the operators: the check byte bit by bit, stuffing, the state
machine of `ReadWirePayload` and of the read loop (`TakeByte`), the audio
packet. `RxControl` is a script of frames the matrix sends, cut into packets of
one or four control bytes, any of which may be lost; the unstuffing state
(escape flag, accumulated bytes) outlives the packets, as in the code. `EmitInfo`
gives the events for the browsers and the replies: acknowledgement, one state
synchronisation after the first ping, identity when asked; a BP7100 asks again
for a spoilt frame and never synchronises. The code reads the profile for every
frame (1362); here it does not change during a conversation. `LossIsLocal` bounds how far a loss
reaches: the frames it touched and at most the next. With what is said of the answers,
the synchronisation (`SyncOnce`) and the count of acknowledgements and of requests
to repeat (`Answered`), it is `Converses`. `Understood` compares what the browsers are shown with what
the frames of the script mean. `GluedFramesPass` (within
`FramesRoundTrip`) states a weakness of the format: two frames glued by a lost
terminator pass the check as one.

### TxPath

A control frame is a name with a length; its bytes are numbered so that mixed
frames can be told from whole ones. Each producer is a goroutine with a program
counter: `Enqueue` (under `ctrlMu`), `ControlDrain`, then, for a silent block or
a real one, `Offer`, `Flush` per receive, and `Again`, exactly the
non-blocking sends and receives of `queueAudioBlock`. The ticker takes a block
or checks for control bytes and a peer (`Tick`, `Check`), pops (`Pop`, under
`ctrlMu`) and writes. `peer` is a Boolean because only whether it is nil
matters here. `quiet` stands for the sources `silence` and `tone`, `recent` for
the window of two frame durations after real audio, which may end at any time.
The sequence byte of transmitted packets and the outcome of `WriteTo` are left
out: neither is read again.

### Announce and Identity

`main`, the read loop `rx` and any number of fetches run
`announceEmulationOnce` step by step: `Announce` is the compare-and-swap,
`SendIdentity` the enqueued frame, `Publish` the snapshot messages. `selection`
numbers the `EmulationState`s. A fetch sets the profile (`Select`) and then
asks for the peer (`FetchPeer`); the read loop sets the peer (`LearnPeer`) and
then asks for the profile (`RxLoad`). `Identity` has what these abstract:
`NewEmulationProfile`, `emulationProfileFromMatrixTarget`, what `setEmulation`
compares before it replaces a profile, and the bytes of the identity read back
by `ParseIdentityText`. A name is a sequence of printable, blank and
non-printable characters, three places wide instead of ten.

### Hub and ClientQueues

`Broadcast` is the part of `broadcastJSON` under the mutex (cache, list the
clients); `WriteOne` writes to one client, in any order as a Go map is ranged
over. A connection goes through `Join`, `Seed`, `Blank`, `CopySnapshot`,
`Replay` per message, and then waits for its end (`Leave`). `WriteText` closes a
client with a full queue; `WriteLoop` delivers to the browser, whose handling
of key messages is `Apply`. The snapshot is a set of messages with their places
in the code's list: a replaced entry keeps its place, a new one goes behind all
(`NextPlace`), and the replay takes the `First`. `Shown` is what a browser shows
that starts with nothing and is sent such a list. Three messages that every client is sent first
(configuration, devices, device status) are left out; they only take room in
the queue. Kinds of messages other than keys (labels, LEDs, names) follow the
same caching rules with no rule like that of bitmaps.

`Coverage` says which sets of keys bitmaps cover. The runs use bitmaps of the
whole panel, as `publishEmulationSnapshot` and the panel's group count have it.
With smaller bitmaps `SnapshotIsHistory` fails: `cacheSnapshotLocked` forgets
the changes of every key, those outside the bitmap too.

`ClientQueues` opens the box that is atomic in `Hub`: every `select` of
`writeText`, `writeBinary` and `writeLoop` is a step, a `select` with several
ready cases takes any of them, `close` closes the channel before the socket, and
a write to the socket lasts until the browser takes it or it fails. It
implements `ClientPromise`, which is what `Hub` takes for granted: the texts of
each writer arrive in order without a gap up to some point, frames in order with
some missing.

### ServerAudio, ServerPlayback, LocalAudio

`ServerAudio` has one handler per panel with a program counter: it reads the
selection and merges the request, applies it under `localMu` (closing, opening,
perhaps failing; a build without audio refuses before that), starts a pump after
the unlock, sets the source, composes a status and sends it to one panel after
the other. The answers to a refresh, to an invalid source and to a failure, and
the status of a new connection, are composed and sent in steps of their own as
well. Other handlers run in between, so `overtaken` notes who read a selection
that was then replaced, and `confused` the panels that may show something wrong
until they ask again while nobody changes anything: all of them if two changes
overlapped, the others if one's change failed (only the one who asked hears of
it), and a panel whose answer was composed before a change was told to it and
sent after. `Merges` and `UndisturbedTold` say what holds for everyone else. The
message with the list of devices, which says the same just before the status, is
left out. `ServerPlayback` is the queue of the newest frames with
the device looked up, used and replaced between any two steps. `LocalAudio` is
one device in every combination of directions: opening in steps each of which
may fail, the callbacks of miniaudio's threads, `Play`, the capture channel with
its pump, and `Close` at any time. Stopping a device waits for its callback, as
miniaudio does; that is the only thing taken from the library. `Play` gets frames
of one period each, where the code hands on what the resampler makes.

### WsInput, Resampling, RateConversion, JitterBuffer

The samples of a connection are a ramp, so that a converted sample tells from
which place it was taken; as marks of places its values have no bound of 16 bits,
and `Between` has no clipping, as there is nothing to clip between two samples
(`NothingToClip` in `SoundProofs`). The filter ahead of the converter (1187,
1197-1199) is left out of `WsInput`; it makes one sample of one, and
`RateConversion` has it. `Resampling` counts positions in parts of the outgoing
rate, so that the code's floating-point positions are integers. `RateConversion`
feeds the converters and the filter a signal piece by piece and remembers all that
went in and came out. In
`JitterBuffer` a sample is its number and whether it is loud; `process`
renders a block in one step, with the rate any that the smoothing may have
reached between the old and the wanted one.

### MatrixSession, MatrixHelper, MapParser

`MatrixSession` is the client's goroutine against a matrix that may be in the
middle of an old transfer, repeats frames whose acknowledgement is late, splits
them over segments, garbles one, sends frames nobody asked for (`Chatter`, which
the client skips), refuses or vanishes. Nothing limits how often it repeats or
chatters, only how many frames are on their way at a time (`MaxComing`).
Deadlines pass at any time, also between the two segments of a frame (`half`: what a read that timed
out had consumed is lost). It implements `MapFetch`: the whole current map or an
error, once. The byte of sequence numbers has three values, so that it wraps
during a download. What is external (the matrix) follows the comments of the
client and the protocol documents.

`MatrixHelper` has requests that are served, refused, given up or cut off, one
mutex per helper process, and processes that are started by systemd, stopped,
killed and succeeded by another, with the socket file between them. A request
given up leaves its fetch running, as the handler does not look at its context;
`UnlockNames` is the end of such a fetch, `UnlockCrosspoint` that of a request
that does not talk to the matrix.

`MapParser` reads the nested records of KMP and the zero-terminated items of
kmap1-3 byte by byte. The maps it is checked with are written by an encoder of
the formats in `MCMapParser`, from the protocol notes and the repository's test.

### G711 and Config

`G711` builds the encoding table as `MakeEncodeLUT` does from the decoding
table. The 256 numbers of `table.go` are stated by the rule they follow, two
halves of eight segments of sixteen steps, and not one by one. `Config` keeps one setting of each kind (with a default, with a
legacy alias, a flag, a path, a certificate and its key): `Load` decodes over
the defaults, legacy sections fill what is empty, an instance is merged,
`Validate` checks, and the gateway registers its routes.

## Runs

| run | shows | bounds |
|---|---|---|
| `rx_reorder` | `WindowOK`, `WaitOK`, `ReleasedInSequence`, `TimeoutReleases`, `Accounting`, `SilenceDrains` | 6 sequence numbers, wait and poll of 2 ticks, one packet per number and one that is not audio |
| `rx_stream` | `SameLap`, `ImplementsOrdered`, `BufferedIsDelivered` | 6 sequence numbers, 8 packets, one duplicate, wait of 1 tick |
| `tx_path` | `PeerBeforeBytes`, `FramesIntact`, `InOrder` | frames of 3, 2 and 1 bytes, 2 bytes per packet, channel of 2, two control senders, a speaker of 2 blocks |
| `hub` | `SnapshotIsHistory`, `UndisturbedMirrors`, `NobodyWaits` | one browser, one broadcaster, 2 keys, queue of 2, 3 broadcasts |
| `hub_mirror` | `Mirrors` is violated (below) | one browser, one key, queue of 3, 2 broadcasts |
| `announce` | `AnnouncedOnce`, `NothingForgotten`, `Shown` | 2 profiles, 3 fetches, every configuration |
| `incoming` | `Reassembles`; `Converses`, `Understood` | 6 packets of two senders in pieces, any of them lost, one held back; 8 frames in packets of 1 or 4 control bytes, 2 losses, a panel and a BP7100 |
| `matrix` | `ImplementsFetch`, `FetchSettles`; `OneConnection`, `HelperSettles` | 5 chunks, 3 sequence numbers, 2 frames on their way, 2 faults; two fetches, a crosspoint, two helper processes |
| `sound` | `Merges`, `ToldRight`; `DeviceHolds`; `NoSeam`; `PlaysForward` | two panels, 3 requests and any number of refreshes, one failure; queues of 2 with 4 chunks each way; two browsers, 3 rates, 9 samples; ring of 16, ceiling of 10, messages of 4 and 17 |
| `progress` | `ControlLeaves`; `KeepsPromise`; `SoundFlows`; `Closes` | one sender and a speaker; queues of one, two writers of 3 messages; two requests; 3 frames, 2 devices; queues of one |
| `data` | `FramesRoundTrip`, `CodecNearest`, `LabelsKeyed`, `SettingsMerge`, `PiecesDontMatter`, `ProfileRead` | payloads of up to 4 bytes over 6 values; both edges of every sixteen samples; maps of up to 3 records; four sections in every combination; 6 samples at 5 pairs of rates; names of up to 5 characters |
| `g711_alaw` | `StandardALaw` is violated (below) | the samples of `data` |

Why the bounds are enough. In `rx_reorder` a space of six has two numbers in
the window, two outside and a wrap; gaps of one and two, a run over the wrap,
and a wait that runs out at each point all occur, and the theorems hold for
every size. In `rx_stream` the stream is longer than the space, so that a
number comes round with an old packet still buffered or in flight. In `tx_path`
a frame spans packets, both priorities wait together, and two goroutines flush
the channel while the ticker takes from it. In `hub` the queue overflows, the
replay overlaps broadcasts, and a bitmap follows and precedes changes. In
`announce` main, the read loop and fetches overlap in every order. In `incoming`
any two packets are lost, so that a frame loses its start, its terminator or an
escape, and two consecutive losses glue frames; of the pieces, first and second
halves are lost in turn and come late. In `matrix` the sequence number wraps in
mid-transfer and an old transfer runs into the new one; a helper is killed
before, while and after it serves. In `sound` two requests overlap in every way
and a third follows; a device is closed inside each of its callbacks; the ring
overflows by one message. In `data` the inputs are those at which the code's
comparisons change: the stuffed bytes, ports and keys at both ends of their
range and past them, texts equal to an identifier, rates that divide and that do
not, names longer than there is room.

Deadlock is checked in `rx_reorder`, `rx_stream` and `tx_path`. The other runs
end: browsers gone, everything announced, the script read, the fetch done, the
bound on requests reached.

**Composite properties.** Where a component has several facts that belong
together, the property a run checks is their conjunction and its parts are
definitions of the component's module: `InOrder` is `ClassInOrder`,
`AudioInOrder` and `HighFirst`; `DeviceHolds` is the types, `NoLeak`,
`NoUseOfClosed`, `HeardInOrder` and `NewestKept`; `KeepsPromise` is the types of
`ClientQueues`, `NewestFrameKept` and the refinement of `ClientPromise`; `Closes`
of `MCProgress` is about devices (`Sound!Closes`) and connections (`ClosedEnds`,
`WritesGoOn`); `PlaysForward` of `MCSound` is six facts about
the jitter buffer, and so on. Each part has a mutant of its own, but for the
type invariants of the later modules, which are parts too.

**Fairness.** `RxReorder`: the loop re-arms, an expired deadline ends
`ReadFrom`, the clock runs; nothing about packets. `TxPath`: the ticker goes on
and a goroutine that has started to send goes on (no step of theirs blocks);
nothing about anyone sending, speaking or the peer appearing. `Hub` and
`ClientQueues`: connection goroutines, writers and started broadcasts go on;
nothing about browsers reading or leaving, but a write to a socket ends at its
deadline, as `writeRaw` sets one. `MatrixSession`: the client's goroutine runs,
the deadline of an exchange passes, that of a frame of the map when there is
nothing to read, and a matrix that has not vanished answers. `MatrixHelper`: Go's
mutex starves nobody, hence strong fairness of `Lock`, and a crosspoint request
ends; that a fetch ends is not assumed, as nothing in the code bounds it.
`ServerAudio`, `ServerPlayback`, `LocalAudio`: started handlers and goroutines go
on, callbacks return; nobody has to ask for or close anything.

**SilenceDrains** promises that the buffer empties unless packets keep
arriving. That exception is real: stale packets and duplicates, swallowed
fragments and failed reads re-arm the deadline and do not flush, so a steady flow
of them holds buffered packets back. `BufferedIsDelivered` has the same exception
for reads that bring no packet.

**FetchSettles** promises that a fetch ends unless it is downloading and frames
that are skipped come without end: `FetchCurrentMap` arms a deadline of five
seconds for each frame (`matrix.go:402`) and has none for the whole, and it goes
on after frames of other kinds (435), old chunks (455) and duplicates (469). Of a
matrix that stays, garbles nothing, answers in time (`onTime`) and does not repeat
for ever it promises the map. **HelperSettles** promises that a request is settled
without its own time limit unless a fetch of the same process holds the mutex for
ever: the helper calls `FetchNames` with the mutex held (`helper.go:146-148`) and
without the request's context. What the client does in that case is give up after
its fifteen seconds; the fetch goes on.

**Finding 1: a browser can be left with the old state.** `README.md:7` of the
repository says that the Web UI "mirrors the configured Kroma panel, including
key state". `hub_mirror` shows a browser that joins while a key changes and ends
up showing the older state: the client joins the hub first, the copy of the
snapshot is taken, a key change is broadcast and queued to the client, and only
then the copy is queued. The browser applies the old message last.
`UndisturbedMirrors` is what the code does guarantee: the panel is right if
nothing was broadcast while the browser joined, or once a bitmap has been
broadcast since. It is checked with one broadcaster, because key messages come
from the read loop alone; two broadcasters write to the clients in either order.

**Finding 2: the mode `alaw` turns the sign.** `gateway.go:389` speaks of
"standard A-law G.711". `AlawEncode` (`codec.go:305`) sets bit 7 for a negative
sample while `AlawDecode` takes bit 7 for a positive one, and it clips the
sample to 11 bits unscaled where decoding multiplies by 8. `g711_alaw` shows a
loud sample that comes back negative. The custom mode, which the bridge uses by
default, is right (`CodecNearest`).

**Observed while modelling**, without a run of their own:

* The versions of a legacy `simulation` section never take effect: the defaults
  are set before the file is decoded, so the alias finds them filled
  (`config.go:138`; `Shadowed` in `Config`).
* A socket path of `/` is accepted and takes the place of the static files
  (`config.go:188`; the exception in `RoutesDistinct`).
* A name whose tenth character is not printable makes the identity longer than
  the receiver expects (`prtp.go:364`; `IdentityRead` is for printable names).
  Default names made of type and port are cut at ten characters
  (`gateway.go:1959`).
* For a map of unknown version the texts after the target's name are guessed to
  be its labels (`matrix.go:363`), which
  `docs/PORT_2222_WIRE_PROTOCOL.md:177-178` warns against.
* The helper starts the next fetch right after a failed one (`helper.go:145`);
  `docs/PORT_2222_WIRE_PROTOCOL.md:133-134` asks for a pause.
* The announcement of a profile publishes the default labels over those a fetch
  has shown (`gateway.go:1375`).
* All browsers share one input rate; a browser that announces another changes
  the conversion of everyone's audio (`gateway.go:1179`).
* The capture pump converts each chunk by itself, half a sample off per chunk
  where the rates do not divide (`DriftPerPiece`, `gateway.go:896`).

## Proofs

Every theorem is for every value of the constants: every size of the sequence
space, of queues and of packets, every set of goroutines, clients, requests and
keys. The assumptions on constants are those named in the modules (`...Assumption`:
sizes are positive, sets of names are disjoint, sets are finite); TLC evaluates
them in the runs. They are stated with `ASSUME` in the module or, where an `MC`
module instantiates the module for one part only, as a hypothesis of the theorem.
Theorems of the form `Spec => []P` need no fairness. Each is proved by an
inductive invariant (`IInv`, in `HubProofs` `HistoryInv` and `MirrorInv`): it
holds initially, every action keeps it (a lemma per action, or per group of
actions that leave the same things alone), and it implies the property.

**`RxProofs`.** `TypeOK /\ WindowOK /\ WaitOK` of `RxReorder` is inductive: that
the window is kept needs the type of `pending`, that a flush finds a packet needs
the window, and that a timeout releases needs `WaitOK` to know the wait is over.
From it follow `TimeoutReleases`, `ReleasedInSequence` and `Accounting` (each
packet that arrives is handed on, buffered, or counted as dropped; what a flush
skips is counted as lost). For `RxStream` the bytes are tied to the packets'
indices: what is in flight and what is buffered lies less than half the space
away from the next packet, so `i % SeqSpace` determines `i` (`SameLapCorrect`).
Distances of bytes then are differences of indices, and each step of the receiver
is a step of `OrderedStream` or leaves it alone (`ImplementsOrderedCorrect`). The
lemmas before are arithmetic on the ring of numbers (`Ahead`, `Distance`) and
what `DrainReady` and `Flush` leave behind.

**`TxPathProofs`.** Of the control queue, the invariant says that each accepted
frame either waits, with the frames of its priority in the order they were
accepted, or has been started, its bytes being a run of the bytes sent
(`Control`); of the audio channel, that a goroutine's blocks leave and wait in
the order they were spoken, below the one it is about to offer (`AudioAscends`),
though `Flush` and the ticker both receive. Bytes in the queue, packets being
built and blocks in the channel mean that the peer is known (`PeerFirst`).
`HighFirst` is proved of each step: `Pop` starts a normal frame only when no high
one waits.

**`ProfileProofs`.** *The announcement*: `OneSender` is the mutual exclusion that the
compare-and-swap gives; `FlagKept` says that who set the flag sends and
publishes; `SomeoneAnnounces` and `SomeonePublishes` name, at every moment, a
process responsible for the current profile, which is why nothing is forgotten
when all are done.

*The settings*: `SettingsMergeCorrect` is for any settings, defaults, sections and
files. The invariant says of each setting what the merging of sections has left in it
so far: `Read` after `Load`, from the file and its alias or the default (`Given`),
beside what the instance has to say (`GivenToInstance`); `ResolvedRight` after
`ResolveInstance`, the one over the other, and that `accepted` is what `Validate` says
of the result. Aliases and defaults are applied twice, and the second time change
nothing (`ResolvesRight`). `ConfigAssumption` only says which
settings there are and what sections consist of.

*The profile*: `ProfileReadCorrect` is for any sections, names, defaults and type codes.
Every profile, made at the start or found by a fetch, is one that can be made of the
section (`MadeFor`), with a name that begins and ends with a character (`TrimSpaceNeat`).
Two of those that `Same` does not tell apart are equal, also where `setEmulation` does not
look (`SameIsEqual`), so the one kept is the one selected. The identity has each part at
its place (`Placed`), the text with its blanks reads as what fits of the name
(`NameRead`), and versions come back from their bytes (`UserVersionRead`,
`FPGAVersionRead`).

**`HubProofs`.** Two invariants. *The snapshot*: it holds one entry of each key
at distinct places, and a bitmap before the changes that followed it (`Lists`);
from that, caching a message has on `Shown` the effect of applying it
(`CacheShows`), so the snapshot stands for the history with any number of
broadcasters (`HistoryCorrect`). *The browsers*: what a browser will show once it
has read its queue (`Ahead`), then the rest of its copy, then the message a
broadcast still has for it, is the panel (`MirrorInv`). A joining client keeps
that while its copy is queued because replaying the first entry and then the rest
is replaying the list (`ReplayedFirst`); a broadcast meanwhile disturbs it.
`MirrorsCorrect` assumes one broadcaster, and both assume that bitmaps cover the
panel: the code does not give the properties otherwise (see the hazards). The
effect of a list is stated by its last message about a key, not by recursion, so
that it can be reasoned about.

**`ClientQueuesProofs`.** Texts of a writer are numbered without a gap in what
was sent and what waits, up to the newest unless the connection is closed
(`NoGap`), frames ascend (`FramesAscend`), and after an eviction there is room,
because only the sender's loop touches the queue in between and it only takes
(`RoomMade`). Each step then is one of `ClientPromise` or leaves it alone
(`KeepsPromiseCorrect`), and the newest frame gets in (`NewestFrameCorrect`).

**`MatrixProofs`.** *The session*: the frames on the wire are those of an old transfer,
marked by `OldChunk`, and then of the map, a chunk perhaps repeated but none
before its predecessor (`InOrder`: each frame is preceded by the one before it,
on the wire or already taken); a head is followed by its tail (`Pieces`). So a
frame that carries the wanted number is the wanted chunk, though numbers wrap and
the old transfer uses them too, and the data is a beginning of the current map
(`Beginning`). `ImplementsFetchCorrect`: a fetch ends once, with the whole map or
an error. *The helper*: at most one process of it is alive
(`OneAlive`), the socket path belongs to it or to one that was killed
(`PathOwned`), a handler that runs is of the process that is alive
(`HandlersLive`), and one handler holds the mutex (`OneHolder`). Hence one
connection to the matrix at most (`OneConnectionCorrect`), and a process that
starts never finds the path in use (`StartsCorrect`).

**`IncomingProofs`.** *The assembler*: what is handed on has the length of a packet and comes from
one address, in time, however the senders split their packets: the bytes kept are
of the remembered address and each joined within the limit (`Sound`,
`OneOriginCorrect`). Under `PeerAssumption`, which says how the peer of the
repository's test splits (pieces of a packet follow each other, the first is more
than half, only packets begin with a header), the invariant says more: a buffer that
begins a packet holds more than half of one (`Headed`), and its sender is about to
continue it (`InRun`), or packets of which it has bytes are damaged, and so is one
its sender would continue (`Spoilt`, both in `Kept`); what is held back or lost is
noted as damaged (`Network`). From that, undamaged packets are never mixed. After a
pause or a whole packet what is kept is the beginning of the packet that arrives
(`Following`), so the next ones are handed on as they were sent
(`ReassemblesCorrect`).

*The control frames*: for any payloads, any way the peer cuts the stream into packets,
and any number of losses (`ConversesCorrect`). The invariant
follows the reader through the frame it is in, if none of its bytes so far was lost:
when the frame before arrived too, the accumulated bytes are the beginning of what the
frame stands for and the escape flag says whether the reader is between an escape and
its byte; when it did not, the flag alone is right, so that the terminator is read as
one and the next frame begins with nothing accumulated (`FrameInStep`, `Reads`). A lost
byte ends the promise for that frame and needs nothing proved of the reader. Frames
that ended whole behind whole ones were handled (`Tells`), nothing fails its check while
nothing is lost (`Clean`), and the replies are accounted for by counting (`Accounted`).
Under it lie lemmas about the operators: what each byte becomes when it is stuffed and
where (`Stuffing`, `FrameBytes`), that a frame with its computed check byte passes the
check (`FrameIsValid`), and where each frame lies in the stream (`StreamIs`).
`ControlAssumption` has two parts that are not about sizes. A payload begins with a byte
that needs no stuffing: it is the address 0x69 or a message type (`NormalizePayload`,
`prtp.go:43-57`). Without it an escape flag that a loss left set would
swallow the escape of the first byte and leave the reader out of step for longer. And
`CheckByteCancels`, a fact about the check byte's table of 65536 entries and no
parameter: TLC evaluates it, as the prover would have to by cases.

**`SoundProofs`.** *The device*: what is allocated follows from where the opening or
closing is, and the capture channel is closed only at the very end (`Allocated`);
a capture callback runs only while its device does (`CaptureRuns`), so it never
meets the closed channel. Who found a queue full and emptied it is the only one
to fill it (`Drained`), so the newest chunk gets in. Samples heard, buffered and
queued ascend (`Samplewise`: each queued chunk lies above the buffer and below
those after it). Together these give `DeviceHolds`.

*The selection*: a handler about to apply has merged its request with the selection
as it is, unless another was applied meanwhile (`MergesHold`), which is `Merges`.
Changes that overlap confuse every panel (`OverlapConfuses`); so for a panel that
is not confused one handler at most changes anything, though others may be answering.
What the panel was told, or the answer composed for it, is the case (`Right`) until
that handler has changed something, and again once the handler, which tells what is the
case, has told it (`ToldInv`). Each generation was asked for (`Counted`, which bounds them).
`MergesCorrect`, `ToldRightCorrect`.

*The input*: `NoSeamCorrect` says that what a browser says advances by its rate from
sample to sample, within blocks and from one to the next, however it was cut into
messages, for all rates and block sizes and any number of connections. The
invariant follows each connection (`Talks`): its converter keeps at most the
last sample it was given and stands at the place the next message goes on from
(`Ready`), `pcmBuf` goes on from what was said (`RisesFrom`), and the next converted
sample from the end of `pcmBuf` (`Ahead`). The arithmetic is in lemmas of its own:
quotients (`Dividing`, `QuotientBound`), a ramp interpolated at even steps is a
ramp (`RisesOverRamp`, `ConvertsRamp`), what joins where a message ends (`Joins`),
and blocks cut from the buffer leave the rest in order (`Cutting`).
No bound is needed on rates, blocks or messages, the code's 8333 and 256 included;
that the converter never has anything to clip is `NothingToClip`.

*The converters*: `PiecesDontMatterCorrect` is for any two rates, any coefficients,
samples and lengths of pieces. After a signal of n samples the stream converter holds
the last of them, and how many it has made follows from n and the rates alone
(`ReadSoFar`, `AsMany`), each of them read from its place in the whole signal
(`Streamed`, `ReadsTheSame`); so the pieces do not matter. The filter's ring is a
function of the signal as well (`RingAt`): a step of `Tap` turns it by one (`RingTurns`),
and reading it backwards meets the signal from the newest sample to the oldest
(`RingReads`), which is the convolution; what the sum adds up to is not used. The drift
of the capture pump, which converts each piece by itself, is bounded piece by piece
(`PieceDrifts`). Positions are exact here; what the code's rounding of floating-point
positions adds is not covered.

*The jitter buffer*: `PlaysForwardCorrect` is for a ring of any size, any messages,
resets and targets, and any rates that the smoothing may take. The fill level is the
way from the reading to the writing position round the ring (`Way`), and the newest
samples lie behind the writing position as far as it reaches (`Holds`). So the fill
level alone tells which sample of the stream is read (`Sample`, `SampleRead`); playing
and dropping lower it, and so move forward, while a message that overflows the ring
never raises what is kept of the old (`EnqueueKeeps`). A fade has consecutive samples
that stay behind what they fade into even at the lowest rate, and ends before what was
left is played at the highest (`Fades`); hence none is left over when the buffer runs
dry. `BufferIInv` is these facts of the ring and the fade (`Good`) with the parts of
`PlaysForward` that speak of the last block. The sizes of samples, rings and rates are
numbers of parts of a sample, so the arithmetic is of products and remainders:
`Quotient`, `Wraps`, `Places`. `BufferAssumption` states what this needs of the limits:
the target is longer than a fade and than a block, and from the ceiling down to it more
is dropped than a fade played at the lowest rate falls back. In the code
a fade has 4 ms, a block 128 samples, the rate is in 0.995 to 1.03, the target two to
eight packets (61 to 246 ms) and the ceiling 350 ms (`rx-worklet.js:48-54`,
`app.js:98-102`). `Rendered` and `TrimLeadingSilence` are
therefore written without recursion: a block has the first samples for which there is
enough, and what is silent ends at the first sample that is not.

**What stays with TLC, and why.** Liveness (`SilenceDrains`, `BufferedIsDelivered`,
`NobodyWaits`, `ControlLeaves`, `FetchSettles`, `HelperSettles`, `SoundFlows`,
`Closes`, `ClosedEnds`, and `WritesGoOn`): fairness and `ENABLED` are beyond the prover. What
recursive definitions compute for every input (`MapParser`, `G711`
and the properties of the run `data` but three): that takes induction over data. Where
it could be replaced by a least element of a set of numbers (`LeastOne`, `Climbs` in
`IncomingProofs` and `SoundProofs`) the recursive functions of `Framing`, `RxControl`
and `Resampling` and the fold of `FlattenSeq` are shown to exist and followed step by step. `Understood` compares with
a table of meanings written for one conversation, and stays with TLC too.

## Not modelled

Not modelled, with the reason:

* Start-up, statistics and shutdown of the gateway: wiring. Every goroutine
  waits on the context or its own channel, and `srv.Shutdown` has a time limit;
  the ends that can go wrong (pumps, devices, client writers) are modelled where
  they live.
* The sequence tracker used when the reorder buffer is off: it counts gaps for
  the statistics and decides nothing.
* `app.js` but for key messages, static files: rendering and browser APIs.
* The tone source, the dump files, device enumeration, command lines,
  `ParsePortRef`, installation scripts and capture analysis: conversions and I/O
  without a protocol of their own.
* Hazards no property covers, because the code does not rule them out: an outage
  of half the sequence space, a failed `WriteTo` (the control bytes are gone), a
  peer that changes in the middle of a frame, an older profile announced after a
  newer one, two broadcasts in different orders, a bitmap of a part of the panel,
  a map whose end comes too early, stale packets that come without end.
