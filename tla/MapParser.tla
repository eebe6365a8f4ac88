----------------------------- MODULE MapParser -----------------------------
(***************************************************************************)
(* What the client makes of a downloaded map: the ports with their names   *)
(* and the button labels, each under its port and key.  Two formats, the   *)
(* nested records of KMP and the older zero-terminated texts of kmap1-3,   *)
(* and for any other the guess at the labels.  A map is a sequence of      *)
(* bytes, a text is a sequence of characters.                              *)
(***************************************************************************)
EXTENDS Integers, SequencesExt

Space == 32
Lower(s) == [k \in DOMAIN s |-> IF s[k] \in 65 .. 90 THEN s[k] + 32 ELSE s[k]]

TrimSpace(s) ==
  LET ink == {k \in DOMAIN s : s[k] # Space} IN
    IF ink = {} THEN <<>>
    ELSE SubSeq(s, CHOOSE k \in ink : \A j \in ink : k <= j, CHOOSE k \in ink : \A j \in ink : j <= k)

Visible(bytes) == TrimSpace(SelectSeq(bytes, LAMBDA b : b \in 32 .. 126))

\* A field ends at the first 0x00 or 0xFF.
PrintableASCIIField(bytes) ==
  LET stop == SelectInSeq(bytes, LAMBDA b : b \in {0, 255}) IN
    Visible(IF stop = 0 THEN bytes ELSE SubSeq(bytes, 1, stop - 1))

KnownPorts == 0 .. 13
PortIDs == [i \in KnownPorts |->
              IF i < 4 THEN <<68, 73, 71, 48 + i>>                   \* DIG0 to DIG3
              ELSE IF i < 8 THEN <<65, 78, 65, 71, 44 + i>>          \* ANAG0 to ANAG3
              ELSE IF i < 12 THEN <<78, 69, 84, 40 + i>>             \* NET0 to NET3
              ELSE <<72, 69, 65, 68, 36 + i>>]                       \* HEAD0, HEAD1

\* One pass of a list of ports in the order of the records.  A name that says more than
\* the identifier of the port wins over one that does not; a type of zero is no type.
Says(port) == port.name \notin {<<>>, PortIDs[port.index]}
MergePortLast(old, new) == new

MergePort(old, new) ==
  IF Says(new) \/ ~Says(old)
    THEN [new EXCEPT !.type = IF @ = 0 THEN old.type ELSE @]
    ELSE [old EXCEPT !.type = IF @ = 0 THEN new.type ELSE @]

AppendPort(ports, port) ==
  IF port.index \notin KnownPorts THEN ports
  ELSE LET at == SelectInSeq(ports, LAMBDA p : p.index = port.index) IN
         IF at = 0 THEN Append(ports, port) ELSE [ports EXCEPT ![at] = MergePort(@, port)]

\* By index, each once.
UniquePorts(ports) ==
  SortSeq(FoldLeft(AppendPort, <<>>, ports), LAMBDA p, q : p.index < q.index)

UniqueStrings(strings) ==
  LET add(out, s) ==
        IF TrimSpace(s) = <<>> \/ \E k \in DOMAIN out : Lower(out[k]) = Lower(TrimSpace(s))
          THEN out ELSE Append(out, TrimSpace(s))
  IN FoldLeft(add, <<>>, strings)

-----------------------------------------------------------------------------
\* The records with a tag and a two-byte length, low byte first; what does not fit is
\* stepped over one byte at a time.
Records(bytes, tag, from) ==
  LET take[off \in 1 .. Len(bytes) + 1] ==
        IF off + 2 > Len(bytes) THEN <<>>
        ELSE LET n == bytes[off + 1] + 256 * bytes[off + 2] IN
               IF bytes[off] # tag \/ n = 0 \/ off + 2 + n > Len(bytes) THEN take[off + 1]
               ELSE <<SubSeq(bytes, off + 3, off + 2 + n)>> \o take[off + 3 + n]
  IN IF from > Len(bytes) THEN <<>> ELSE take[from]

\* The texts with a tag of 0x82 and a length of one byte.
Texts(bytes) ==
  LET take[off \in 1 .. Len(bytes) + 1] ==
        IF off + 1 > Len(bytes) THEN <<>>
        ELSE LET n == bytes[off + 1] IN
               IF bytes[off] # 130 \/ n = 0 \/ off + 1 + n > Len(bytes) THEN take[off + 1]
               ELSE <<PrintableASCIIField(SubSeq(bytes, off + 2, off + 1 + n))>> \o take[off + 2 + n]
  IN take[1]

Inked(texts) == SelectSeq(texts, LAMBDA s : s # <<>>)
extractTLVStrings(bytes) == Inked(Texts(bytes))
FirstText(bytes) == LET all == Texts(bytes) IN IF all = <<>> THEN <<>> ELSE all[1]

Before(bytes, tag) ==
  LET at == SelectInSeq(bytes, LAMBDA b : b = tag) IN IF at = 0 THEN bytes ELSE SubSeq(bytes, 1, at - 1)

\* The byte after the first byte equal to the tag, ahead of any text or inner record.
NoAttr == -1
recordByteAttrAnywhere(record, tag) ==
  LET at == SelectLastInSeq(record, LAMBDA b : b = tag) IN
    IF at = 0 \/ at = Len(record) THEN NoAttr ELSE record[at + 1]

recordByteAttr(record, tag) ==
  LET head == Before(Before(record, 130), 204)
      at == SelectInSeq(head, LAMBDA b : b = tag)
  IN IF at = 0 \/ at = Len(head) THEN NoAttr ELSE head[at + 1]

ParseButtonRecord(record, port) ==
  LET key == recordByteAttr(record, 32) IN
    IF key = NoAttr \/ FirstText(record) = <<>> THEN <<>>
    ELSE <<[port |-> port, key |-> key, label |-> FirstText(record)]>>

ParsePortRecord(res, record) ==
  LET port == recordByteAttr(record, 32)
      type == recordByteAttr(record, 33)
      name == FirstText(Before(record, 204))
      buttons == Records(record, 204, 1)
  IN IF port = NoAttr THEN res
     ELSE [res EXCEPT
            !.ports = IF port \notin KnownPorts THEN @
                      ELSE AppendPort(@, [index |-> port, type |-> IF type = NoAttr THEN 0 ELSE type,
                                          name |-> IF name = <<>> THEN PortIDs[port] ELSE name]),
            !.labels = @ \o FlattenSeq([k \in DOMAIN buttons |-> ParseButtonRecord(buttons[k], port)])]

NoMap == [version |-> 0, strings |-> <<>>, ports |-> <<>>, labels |-> <<>>]

ParseBinaryMap(bytes) ==
  FoldLeft(ParsePortRecord,
           [NoMap EXCEPT !.version = bytes[4],
                         !.strings = <<SubSeq(bytes, 1, 3) \o <<48 + bytes[4]>>>> \o extractTLVStrings(bytes)],
           Records(bytes, 194, 5))

IsBinary(bytes) == Len(bytes) >= 4 /\ SubSeq(bytes, 1, 3) = <<75, 77, 80>>

-----------------------------------------------------------------------------
\* The older format, cut into items.  An item that the bytes do not complete is the last.
CStringToTheEnd(bytes, off) ==
  LET at == SelectInSubSeq(bytes, off, Len(bytes), LAMBDA b : b = 0)
      stop == IF at = 0 THEN Len(bytes) + 1 ELSE at
  IN IF off > Len(bytes) THEN [ok |-> FALSE]
     ELSE [ok |-> TRUE, text |-> Visible(SubSeq(bytes, off, stop - 1)), next |-> IF at = 0 THEN stop ELSE stop + 1]

CString(bytes, off) ==
  LET stop == SelectInSubSeq(bytes, off, Len(bytes), LAMBDA b : b = 0) IN
    IF off > Len(bytes) \/ stop = 0 THEN [ok |-> FALSE]
    ELSE [ok |-> TRUE, text |-> Visible(SubSeq(bytes, off, stop - 1)), next |-> stop + 1]

\* n texts in a row, as many as are complete.
CStrings(bytes, off, n) ==
  FoldLeft(LAMBDA acc, k : LET c == CString(bytes, acc.next) IN
             IF ~acc.ok \/ ~c.ok THEN [acc EXCEPT !.ok = FALSE]
             ELSE [ok |-> TRUE, texts |-> Append(acc.texts, c.text), next |-> c.next],
           [ok |-> TRUE, texts |-> <<>>, next |-> off], [k \in 1 .. n |-> k])

\* After its tag an item has a number of bytes and then its texts: one or, of a port, two
\* and, after the first version, a byte and two more.
Fixed == 170 :> 5 @@ 171 :> 4 @@ 172 :> 1 @@ 173 :> 2 @@ 175 :> 4 @@ 181 :> 1

MoreTexts(bytes, c) ==
  IF ~c.ok \/ c.next > Len(bytes) THEN [c EXCEPT !.ok = FALSE]
  ELSE LET d == CStrings(bytes, c.next + 1, 2) IN [d EXCEPT !.texts = c.texts \o @]
ItemTexts(bytes, version, off) ==
  CASE bytes[off] \in {170, 172} -> CStrings(bytes, off + 1 + Fixed[bytes[off]], 1)
    [] bytes[off] = 173 -> LET c == CStrings(bytes, off + 3, 2) IN IF version = 1 THEN c ELSE MoreTexts(bytes, c)
    [] OTHER -> CStrings(bytes, off + 1 + Fixed[bytes[off]], 0)

Item(bytes, off, c) ==
  IF ~c.ok THEN [kind |-> "cut", texts |-> c.texts]
  ELSE CASE bytes[off] = 172 -> [kind |-> "label", key |-> bytes[off + 1], texts |-> c.texts]
         [] bytes[off] = 173 -> [kind |-> "port", index |-> bytes[off + 1], type |-> bytes[off + 2], texts |-> c.texts]
         [] OTHER -> [kind |-> "text", texts |-> c.texts]

Items(bytes, version, from) ==
  LET after(off, c, items) == <<Item(bytes, off, c)>> \o (IF c.ok THEN items[c.next] ELSE <<>>)
      item[off \in 1 .. Len(bytes) + 1] ==
        IF off > Len(bytes) \/ bytes[off] = 255 THEN <<[kind |-> "end"]>>
        ELSE IF bytes[off] \notin DOMAIN Fixed THEN item[off + 1]
        ELSE IF off + Fixed[bytes[off]] > Len(bytes) THEN <<[kind |-> "cut", texts |-> <<>>]>>
        ELSE after(off, ItemTexts(bytes, version, off), item)
  IN item[IF from > Len(bytes) + 1 THEN Len(bytes) + 1 ELSE from]

\* A label belongs to the last port before it.
TakeItem(acc, item) ==
  CASE item.kind = "port" ->
         [acc EXCEPT !.port = item.index, !.res.strings = @ \o Inked(item.texts),
                     !.res.ports = AppendPort(@, [index |-> item.index, type |-> item.type, name |-> item.texts[1]])]
    [] item.kind = "label" ->
         [acc EXCEPT !.res.strings = @ \o Inked(item.texts),
                     !.res.labels = IF acc.port < 0 \/ item.texts[1] = <<>> THEN @
                                    ELSE Append(@, [port |-> acc.port, key |-> item.key, label |-> item.texts[1]])]
    [] item.kind \in {"text", "cut"} -> [acc EXCEPT !.res.strings = @ \o Inked(item.texts)]
    [] OTHER -> acc

Versions == [v \in 1 .. 3 |-> <<107, 109, 97, 112, 48 + v>>]     \* kmap1, kmap2, kmap3

Normalised(res) == [res EXCEPT !.strings = UniqueStrings(@), !.ports = UniquePorts(@)]

\* A map that ends in the middle of an item is left as it came.
TakeItems(start, items) ==
  LET res == FoldLeft(TakeItem, [port |-> -1, res |-> start], items).res
  IN IF Last(items).kind = "cut" THEN res ELSE Normalised(res)

\* After the version there may be a block of a byte and a text.
ParseTextMap(bytes, version, header, off) ==
  LET block == IF off <= Len(bytes) /\ bytes[off] = 174 THEN CStrings(bytes, off + 2, 1)
               ELSE [ok |-> TRUE, texts |-> <<>>, next |-> off]
      start == [NoMap EXCEPT !.version = version, !.strings = <<header>> \o Inked(block.texts)]
  IN IF ~block.ok THEN start ELSE TakeItems(start, Items(bytes, version, block.next))

ParseMapData(bytes) ==
  IF IsBinary(bytes) THEN Normalised(ParseBinaryMap(bytes))
  ELSE LET header == CString(bytes, 1) IN
         IF ~header.ok THEN NoMap
         ELSE IF \E v \in 1 .. 3 : Lower(header.text) = Versions[v]
           THEN ParseTextMap(bytes, CHOOSE v \in 1 .. 3 : Lower(header.text) = Versions[v],
                             header.text, header.next)
           ELSE [NoMap EXCEPT !.strings = Inked(<<header.text>>) \o extractTLVStrings(bytes)]

-----------------------------------------------------------------------------
\* The labels of one port by key, up to the last one there is.
ButtonLabelsForPortAll(labels, target, max) ==
  LET row == FoldLeft(LAMBDA out, l : IF l.key >= max THEN out ELSE [out EXCEPT ![l.key + 1] = l.label],
                      [k \in 1 .. max |-> <<>>], labels)
      last == SelectLastInSeq(row, LAMBDA s : s # <<>>)
  IN SubSeq(row, 1, last)

ButtonLabelsForPort(labels, target, max) ==
  LET row == FoldLeft(LAMBDA out, l : IF l.port # target.index \/ l.key >= max THEN out
                                      ELSE [out EXCEPT ![l.key + 1] = l.label],
                      [k \in 1 .. max |-> <<>>], labels)
      last == SelectLastInSeq(row, LAMBDA s : s # <<>>)
  IN SubSeq(row, 1, last)

PortByIndex(ports, ref) ==
  LET at == SelectInSeq(ports, LAMBDA p : p.index = ref.index) IN IF at = 0 THEN ref ELSE ports[at]

\* Device names and addresses are no labels. Only the prefixes of device names occur here;
\* the list of whole names and the addresses are left out.
isMetadataString(s) ==
  Len(s) >= 2 /\ Lower(s)[1] = 116 /\ Lower(s)[2] \in {104, 109, 112}   \* TH, TM, TP

\* For a map of neither format: the texts after the first that names the target.
likelyButtonLabels(strings, ports, target, max) ==
  LET skip == {Lower(PortIDs[i]) : i \in KnownPorts} \cup {Lower(ports[k].name) : k \in DOMAIN ports}
      anchors == {Lower(s) : s \in {target.name, target.id}} \ {<<>>}
      at == SelectInSubSeq(strings, 1, Len(strings) - 1, LAMBDA s : Lower(s) \in anchors)
      after == IF at = 0 THEN strings ELSE SubSeq(strings, at + 1, Len(strings))
      fit == SelectSeq(UniqueStrings(after), LAMBDA s : Len(s) <= 20 /\ Lower(s) \notin skip /\ ~isMetadataString(s))
  IN SubSeq(fit, 1, IF Len(fit) < max THEN Len(fit) ELSE max)

\* What the fetch keeps of a map for a port: the port, its labels by key.
MaxKeys == 32
SnapshotOf(map, ref) ==
  LET target == PortByIndex(map.ports, ref)
      own == ButtonLabelsForPort(map.labels, target, MaxKeys)
      guess == own = <<>> /\ map.version = 0 /\ map.strings # <<>> /\ map.labels = <<>>
  IN [target |-> target,
      labels |-> IF guess THEN likelyButtonLabels(map.strings, map.ports, [name |-> target.name, id |-> PortIDs[ref.index]], MaxKeys)
                 ELSE own]
=============================================================================
