------------------------------ MODULE RxReorder ------------------------------
(***************************************************************************)
(* The receive-side reorder buffer of the gateway (rxReorderBuffer in      *)
(* gateway.go) together with the UDP read loop that drives it.             *)
(*                                                                         *)
(* PRTP audio packets carry an 8-bit sequence number.  The read loop calls *)
(* push for each datagram; push hands packets on in sequence, keeps those  *)
(* that arrive ahead of the expected number, and drops the others as       *)
(* stale.  A gap is given up when nothing filled it for the configured     *)
(* wait: on the next buffered packet, or when the read deadline expires.   *)
(*                                                                         *)
(* Time is counted in ticks.  Only two ages matter to the code: how long   *)
(* ago waitingFrom was set, and how long ago the read deadline was set;    *)
(* both saturate once no comparison can tell larger values apart.          *)
(***************************************************************************)
EXTENDS Integers, Sequences, FiniteSets

CONSTANTS
  Half,    \* half of the sequence-number space: 128 in the code
  Wait,    \* udp.rx_reorder_ms in ticks; the buffer exists only if it is > 0
  Poll,    \* the read deadline (one second) when nothing is buffered
  Packet,  \* datagrams of the fixed PRTP size, as the fragment assembler passes them
  Audio,   \* those that prtp.IsAudioPacket accepts
  SeqByte    \* the sequence number (byte 1) of an audio packet

SeqSpace == 2 * Half
SeqNumbers == 0 .. SeqSpace - 1

ASSUME HalfAssumption == Half \in Nat /\ Half > 1
ASSUME TimeAssumption == Wait \in Nat /\ Wait > 0 /\ Poll \in Nat /\ Poll > 0
ASSUME PacketAssumption == Audio \subseteq Packet /\ SeqByte \in [Audio -> SeqNumbers]

VARIABLES
  initialized,  \* a first audio packet has been seen
  expected,     \* next sequence number in order
  pending,      \* buffered packets by sequence number
  waiting,      \* waitingFrom is set (not the zero time)
  age,          \* ticks since waitingFrom was set
  reading,      \* the loop is blocked in ReadFrom under an armed deadline
  idle,         \* ticks since that deadline was set
  ready,        \* what the last step handed to processPacket, in order
  stats         \* the rxReorderStats of the last step

buffer == <<initialized, expected, pending, waiting, age>>
vars == <<initialized, expected, pending, waiting, age, reading, idle, ready, stats>>

-----------------------------------------------------------------------------
(***************************************************************************)
(* Sequence arithmetic on a byte.                                          *)
(***************************************************************************)

\* The sequence number d places after s, for d up to SeqSpace.
Ahead(s, d) == IF s + d < SeqSpace THEN s + d ELSE s + d - SeqSpace

\* seqDistance: how many places `to' lies after `from'.
Distance(from, to) == IF from <= to THEN to - from ELSE to - from + SeqSpace

NoPackets == <<>>    \* the empty map and the empty slice

Stats(gaps, reordered, missing, stale) ==
  [gapEvents |-> gaps, reordered |-> reordered, missing |-> missing, stale |-> stale]
NoStats == Stats(0, 0, 0, 0)

HasPending == DOMAIN pending # {}

\* Exactly n buffered packets follow one another from sequence number e on.
Run(e, buf, n) ==
  /\ \A k \in 0 .. n - 1 : Ahead(e, k) \in DOMAIN buf
  /\ Ahead(e, n) \notin DOMAIN buf

\* Nothing is buffered in the first `skip' places from e, then something is;
\* the search gives up after Half places.
Gap(e, buf, skip) ==
  /\ \A k \in 0 .. skip - 1 : Ahead(e, k) \notin DOMAIN buf
  /\ skip < Half => Ahead(e, skip) \in DOMAIN buf

\* Mutant of Without: released packets stay in the map.
WithoutDelete(buf, gone) == buf
Without(buf, gone) == [s \in DOMAIN buf \ gone |-> buf[s]]

-----------------------------------------------------------------------------
Init ==
  /\ initialized = FALSE
  /\ expected = 0
  /\ pending = NoPackets
  /\ waiting = FALSE
  /\ age = 0
  /\ reading = FALSE
  /\ idle = 0
  /\ ready = <<>>
  /\ stats = NoStats

\* The end of drainReady: the wait starts anew for the packets that stay behind.
\* Mutant: it does not.
RestartWaitNever == waiting' = FALSE /\ age' = 0
RestartWait == waiting' = (DOMAIN pending' # {}) /\ age' = 0

\* drainReady: hand on `first' and then the n packets that follow from e on, and
\* restart the wait if others stay behind.
DrainReady(e, buf, first, n) ==
  /\ Run(e, buf, n)
  /\ expected' = Ahead(e, n)
  /\ pending' = Without(buf, {Ahead(e, k) : k \in 0 .. n - 1})
  /\ ready' = first \o [k \in 1 .. n |-> buf[Ahead(e, k - 1)]]
  /\ RestartWait

\* flushExpired once the wait is over: give up the missing numbers before the
\* first buffered packet and drain from there.  A buffer that holds nothing
\* within half the space would be thrown away.
Flush(buf, gaps) ==
  \E skip \in 0 .. Half :
    /\ Gap(expected, buf, skip)
    /\ IF skip < Half
         THEN /\ \E n \in 0 .. Half : DrainReady(Ahead(expected, skip), buf, <<>>, n)
              /\ stats' = Stats(gaps, 0, skip, 0)
         ELSE /\ expected' = Ahead(expected, Half)
              /\ pending' = NoPackets
              /\ ready' = <<>>
              /\ waiting' = FALSE
              /\ age' = 0
              /\ stats' = Stats(gaps, 0, Half, Cardinality(DOMAIN buf))

-----------------------------------------------------------------------------
(***************************************************************************)
(* push, one action per way through it.                                    *)
(***************************************************************************)

\* A packet of the right size that is not audio passes through.
PushOther(p) ==
  /\ p \notin Audio
  /\ ready' = <<p>>
  /\ stats' = NoStats
  /\ UNCHANGED buffer

\* Mutant of PushFirst: the first number is expected again.
PushFirstAgain(p) ==
  /\ p \in Audio /\ ~initialized
  /\ initialized' = TRUE
  /\ expected' = SeqByte[p]
  /\ ready' = <<p>>
  /\ stats' = NoStats
  /\ UNCHANGED <<pending, waiting, age>>

\* The first audio packet sets the sequence.
PushFirst(p) ==
  /\ p \in Audio /\ ~initialized
  /\ initialized' = TRUE
  /\ expected' = Ahead(SeqByte[p], 1)
  /\ ready' = <<p>>
  /\ stats' = NoStats
  /\ UNCHANGED <<pending, waiting, age>>

\* Mutant of PushInOrder: expected is not moved before draining.
PushInOrderStays(p) ==
  /\ p \in Audio /\ initialized
  /\ SeqByte[p] = expected
  /\ \E n \in 0 .. Half :
       /\ DrainReady(expected, pending, <<p>>, n)
       /\ stats' = Stats(0, n, 0, 0)
  /\ UNCHANGED initialized

\* The expected packet goes through and releases those it held up.
PushInOrder(p) ==
  /\ p \in Audio /\ initialized
  /\ SeqByte[p] = expected
  /\ \E n \in 0 .. Half :
       /\ DrainReady(Ahead(expected, 1), pending, <<p>>, n)
       /\ stats' = Stats(0, n, 0, 0)
  /\ UNCHANGED initialized

\* Mutants of InWindow: one number too few, and no limit ahead.
InWindowNarrow(s) == Distance(expected, s) \in 1 .. Half - 2
InWindowOpen(s) == s # expected

InWindow(s) == Distance(expected, s) \in 1 .. Half - 1

\* The buffer already holds a packet with this number.  Mutant: never mind.
AlreadyPendingNever(s) == FALSE
AlreadyPending(s) == s \in DOMAIN pending

\* A packet from the near future is buffered; the wait starts with the first one
\* and, once over, the gap is given up at once.
PushAhead(p) ==
  /\ p \in Audio /\ initialized
  /\ InWindow(SeqByte[p])
  /\ ~AlreadyPending(SeqByte[p])
  /\ LET buf == [s \in DOMAIN pending \union {SeqByte[p]} |->
                   IF s = SeqByte[p] THEN p ELSE pending[s]]
     IN  IF waiting /\ age >= Wait
           THEN Flush(buf, 1)
           ELSE /\ pending' = buf
                /\ waiting' = TRUE
                /\ age' = IF waiting THEN age ELSE 0
                /\ ready' = <<>>
                /\ stats' = Stats(1, 0, 0, 0)
                /\ UNCHANGED expected
  /\ UNCHANGED initialized

\* A second copy of a buffered packet, and a packet from the past, are dropped.
PushStale(p) ==
  /\ p \in Audio /\ initialized
  /\ SeqByte[p] # expected
  /\ InWindow(SeqByte[p]) => AlreadyPending(SeqByte[p])
  /\ ready' = <<>>
  /\ stats' = Stats(0, 0, 0, 1)
  /\ UNCHANGED buffer

Push(p) ==
  \/ PushOther(p)
  \/ PushFirst(p)
  \/ PushInOrder(p)
  \/ PushAhead(p)
  \/ PushStale(p)

-----------------------------------------------------------------------------
(***************************************************************************)
(* The read loop.                                                          *)
(***************************************************************************)

\* Mutant of Deadline: one tick short of the wait.
DeadlineEarly == IF HasPending THEN Wait - 1 ELSE Poll

Deadline == IF HasPending THEN Wait ELSE Poll

\* Mutant of Arm: the old deadline stays armed.
ArmKeepsDeadline ==
  /\ ~reading
  /\ reading' = TRUE
  /\ ready' = <<>>
  /\ stats' = NoStats
  /\ UNCHANGED <<buffer, idle>>

\* SetReadDeadline, then ReadFrom.
Arm ==
  /\ ~reading
  /\ reading' = TRUE
  /\ idle' = 0
  /\ ready' = <<>>
  /\ stats' = NoStats
  /\ UNCHANGED buffer

\* ReadFrom returns a datagram; dispatchPacket pushes it.
Receive(p) ==
  /\ reading
  /\ Push(p)
  /\ reading' = FALSE
  /\ UNCHANGED idle

\* ReadFrom returns a datagram the fragment assembler keeps or drops, or fails for another
\* reason than the deadline: nothing is pushed, and the loop comes around.  What comes as the
\* deadline expires is as good as what comes just before.
NoPacket ==
  /\ reading
  /\ idle < Deadline
  /\ reading' = FALSE
  /\ ready' = <<>>
  /\ stats' = NoStats
  /\ UNCHANGED <<buffer, idle>>

\* ReadFrom times out; flushExpired gives up the gap if it has waited enough.
Timeout ==
  /\ reading
  /\ idle >= Deadline
  /\ reading' = FALSE
  /\ IF HasPending /\ waiting /\ age >= Wait
       THEN Flush(pending, 0) /\ UNCHANGED initialized
       ELSE /\ ready' = <<>>
            /\ stats' = NoStats
            /\ UNCHANGED buffer
  /\ UNCHANGED idle

\* Time passes, in ReadFrom or while a packet is being processed.
Tick ==
  /\ age' = IF waiting /\ age < Wait THEN age + 1 ELSE age
  /\ idle' = IF reading /\ idle < Wait + Poll THEN idle + 1 ELSE idle
  /\ UNCHANGED <<initialized, expected, pending, waiting, reading, ready, stats>>

Next ==
  \/ Arm
  \/ \E p \in Packet : Receive(p)
  \/ NoPacket
  \/ Timeout
  \/ Tick

Spec == Init /\ [][Next]_vars

\* The loop re-arms its deadline, an expired deadline ends ReadFrom, and the
\* clock runs.  Nothing is assumed about datagrams arriving.
FairSpec == Spec /\ WF_vars(Arm) /\ WF_vars(Timeout) /\ WF_vars(Tick)

-----------------------------------------------------------------------------
(***************************************************************************)
(* Properties.                                                             *)
(***************************************************************************)

\* The variables keep their types; a packet is buffered under its own number.
TypeOK ==
  /\ initialized \in BOOLEAN
  /\ expected \in SeqNumbers
  /\ DOMAIN pending \subseteq SeqNumbers
  /\ \A s \in DOMAIN pending : pending[s] \in Audio /\ SeqByte[pending[s]] = s
  /\ waiting \in BOOLEAN
  /\ age \in 0 .. Wait
  /\ reading \in BOOLEAN
  /\ idle \in 0 .. Wait + Poll
  /\ ready \in Seq(Packet)
  /\ stats \in [gapEvents : Nat, reordered : Nat, missing : Nat, stale : Nat]

\* Every buffered packet lies strictly ahead of the expected number and within
\* half the space: none is overtaken and left behind in the map, and the loop of
\* flushExpired always finds one, so its closing "drop everything" never runs.
WindowOK == \A s \in DOMAIN pending : InWindow(s)

\* The wait is running exactly when something is buffered.  waitingFrom is never
\* younger than the read deadline, so an expired deadline means an expired wait.
WaitOK ==
  /\ waiting <=> HasPending
  /\ initialized \/ ~waiting
  /\ reading /\ waiting => idle <= age \/ age = Wait

\* A read deadline that expires over a buffered packet releases at least one: the
\* loop never times out, finds the wait one instant short, and blocks again.
TimeoutReleases == [][Timeout /\ HasPending => ready' # <<>>]_vars

\* What one call hands on carries consecutive numbers that end just before the
\* number expected next, also when a gap was given up in between or the number
\* wrapped from 255 to 0.
ReleasedInSequence ==
  \A k \in 1 .. Len(ready) :
    ready[k] \in Audio => Distance(SeqByte[ready[k]], expected) = Len(ready) - k + 1

Arrived(n) ==
  n + Cardinality(DOMAIN pending)
    = Len(ready') + Cardinality(DOMAIN pending') + stats'.stale

\* No packet is lost or duplicated without being counted: what arrives is handed
\* on, still buffered or stale.  The expected number moves by what is handed on
\* plus what is reported missing.
Accounting ==
  [][ /\ \A p \in Audio :
           Receive(p) =>
             /\ Arrived(1)
             /\ initialized =>
                  expected' = Ahead(expected, Len(ready') + stats'.missing)
      /\ Timeout =>
           /\ Arrived(0)
           /\ expected' = Ahead(expected, Len(ready') + stats'.missing) ]_vars

\* If the socket falls silent, the buffer empties: every packet held back behind a gap is
\* released without another packet having to arrive.  As long as datagrams or errors keep
\* coming, each arms the deadline anew, and packets that are not to be buffered, or are
\* none, leave the gap as it is: the code does not promise more.
SilenceDrains ==
  \/ []<>~HasPending
  \/ []<><<NoPacket \/ \E p \in Packet : Receive(p)>>_vars

=============================================================================
