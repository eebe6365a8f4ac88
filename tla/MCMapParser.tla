---------------------------- MODULE MCMapParser ----------------------------
(***************************************************************************)
(* The parser checked against the maps themselves: a state is a map, a     *)
(* step gives it one more port record or the last record one more button.  *)
(* Each map is written in the formats and read back, whole and cut short.  *)
(***************************************************************************)
EXTENDS MapParser

CONSTANTS
  Indexes, Types, Keys,   \* bytes the records carry
  MaxItems                \* bound on the ports and buttons of a map

A == <<65>>
LowerB == <<98>>
Names == {<<>>, A, PortIDs[0]}
Labels == {<<>>, LowerB, PortIDs[0]}

VARIABLES map, items
vars == <<map, items>>

Init == map = <<>> /\ items = 0

AddPort ==
  \E i \in Indexes, t \in Types, n \in Names :
    map' = Append(map, [index |-> i, type |-> t, name |-> n, buttons |-> <<>>])

AddButton ==
  /\ map # <<>>
  /\ \E k \in Keys, l \in Labels :
       map' = [map EXCEPT ![Len(map)].buttons = Append(@, [key |-> k, label |-> l])]

Next == items < MaxItems /\ items' = items + 1 /\ (AddPort \/ AddButton)
Spec == Init /\ [][Next]_vars

-----------------------------------------------------------------------------
\* The three formats, as the protocol notes and the repository's test write them.
Tlv(s) == <<130, Len(s)>> \o s
Rec(tag, body) == <<tag, Len(body) % 256, Len(body) \div 256>> \o body
EncodeButton(b) == Rec(204, <<32, b.key>> \o Tlv(b.label) \o <<195, 4, 0, 32, 0, 34, b.key>>)
Joined(Op(_), s) == FlattenSeq([k \in DOMAIN s |-> Op(s[k])])
EncodePort(p) == Rec(194, <<32, p.index, 33, p.type>> \o Tlv(p.name) \o Joined(EncodeButton, p.buttons))
Kmp(v) == <<75, 77, 80, v>> \o <<13, 38, 8, 0, 0, 32, 0>> \o Joined(EncodePort, map) \o <<255>>

TextButton(b) == <<172, b.key>> \o b.label \o <<0>>
TextPort(v, p) ==
  <<173, p.index, p.type>> \o p.name \o <<0, 0>> \o (IF v = 1 THEN <<>> ELSE <<1, 0, 0>>)
  \o Joined(TextButton, p.buttons)
Kmap(v) ==
  Versions[v] \o <<0, 174, 1>> \o A \o <<0>> \o Joined(LAMBDA p : TextPort(v, p), map) \o <<175, 0, 0, 0, 0, 255>>

Formats == {Kmp(2), Kmap(1), Kmap(3)}
Parsed == {ParseMapData(bytes) : bytes \in Formats}

-----------------------------------------------------------------------------
PortsOf(i) == SelectSeq(map, LAMBDA p : p.index = i)
AllLabels ==
  Joined(LAMBDA p : Joined(LAMBDA b : IF b.label = <<>> THEN <<>>
                                      ELSE <<[port |-> p.index, key |-> b.key, label |-> b.label]>>, p.buttons), map)

\* The labels of port i and key k, oldest first.
At(i, k) == SelectSeq(AllLabels, LAMBDA l : l.port = i /\ l.key = k)
Ref(i) == [index |-> i, type |-> 0, name |-> <<>>]

\* Every label comes out under the port and the key it was given to and no other, the last
\* one where there are several, whatever the labels and names read like and whichever
\* format carries them (FetchNames, ParseMapData).
IsRowOf(i, row) ==
  /\ \A k \in 0 .. MaxKeys - 1 :
       At(i, k) # <<>> => k < Len(row) /\ row[k + 1] = Last(At(i, k)).label
  /\ \A k \in DOMAIN row : row[k] # <<>> => At(i, k - 1) # <<>>
  /\ row # <<>> => Last(row) # <<>>
KeyedByPort ==
  \A i \in Indexes \cap KnownPorts : \A row \in {SnapshotOf(p, Ref(i)).labels : p \in Parsed} : IsRowOf(i, row)

\* Records of one port merge: it is listed once, under the last name that says more than
\* its identifier if there is one, and with a type if any record has one; a record without
\* name or type takes nothing away (appendPort, UniquePorts).
AreMerged(ports) ==
  /\ {ports[k].index : k \in DOMAIN ports} = {map[k].index : k \in DOMAIN map} \cap KnownPorts
  /\ \A j, k \in DOMAIN ports : j < k => ports[j].index < ports[k].index
  /\ \A k \in DOMAIN ports :
       LET recs == PortsOf(ports[k].index)
           named == SelectSeq(recs, LAMBDA p : Says(p))
           typed == {recs[j].type : j \in DOMAIN recs} \ {0}
       IN /\ named # <<>> => ports[k].name = Last(named).name
          /\ named = <<>> => ~Says(ports[k])
          /\ IF typed = {} THEN ports[k].type = 0 ELSE ports[k].type \in typed
PortsMerge == \A ports \in {p.ports : p \in Parsed} : AreMerged(ports)

\* A map that stops anywhere, which the download accepts, yields the first of the labels
\* and never one that the whole map does not have at that place (of the largest maps,
\* those of one port).
Cuts ==
  {ParseMapData(c).labels : c \in UNION {{SubSeq(bytes, 1, n) : n \in DOMAIN bytes} : bytes \in Formats}}
CutKeepsThePrefix ==
  items < MaxItems \/ Len(map) = 1 =>
    \A cut \in Cuts, whole \in {p.labels : p \in Parsed} : IsPrefix(cut, whole)
=============================================================================
