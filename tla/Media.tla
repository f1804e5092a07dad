------------------------------- MODULE Media -------------------------------
(***************************************************************************)
(* The textual metadata of an image, all of it or none                     *)
(* (src/src/convert/image_metadata.rs).                                    *)
(*                                                                         *)
(* A png, jpeg or webp is the sequence of its chunks, a heic that of its   *)
(* boxes, in the order they are written.  A value is the sequence of its   *)
(* words, empty when it is blank.  A chunk or a box that is not "whole" is *)
(* one its parser refuses: cut, undecodable, or past its parent.           *)
(***************************************************************************)
EXTENDS Integers, Sequences, FiniteSets, SequencesExt

CONSTANTS MaxRows, MaxRowBytes,        \* of all rows of an image
          MaxInflated,                 \* of one compressed chunk
          MaxXmlDepth, MaxXmlEvents,   \* of one xmp packet
          MaxBoxes                     \* boxes of a heic, resource blocks of a segment

ASSUME MediaAssumption ==
  {MaxRows, MaxRowBytes, MaxInflated, MaxXmlDepth, MaxXmlEvents, MaxBoxes} \subseteq Nat

LOCAL Seg == INSTANCE Segments

Collector == [error |-> "none", rows |-> <<>>, bytes |-> 0]

MediaFail(s, code) == IF s.error = "none" THEN [s EXCEPT !.error = code] ELSE s
Malformed(s) == MediaFail(s, "malformed")

\* A row under the ceilings; a blank value makes none.
PushRow(s, carrier, language, value) ==
  CASE s.error # "none" \/ value = <<>> -> s
    [] Len(s.rows) + 1 > MaxRows \/ s.bytes + Len(value) > MaxRowBytes -> MediaFail(s, "limit-exceeded")
    [] OTHER -> [s EXCEPT !.bytes = @ + Len(value),
                   !.rows = Append(@, [carrier |-> carrier, language |-> language, value |-> value])]

CollectExif(s, chunk) ==
  IF chunk.whole THEN PushRow(s, "exif", "none", chunk.value) ELSE Malformed(s)

-----------------------------------------------------------------------------
(* An xmp packet: start, empty and end tags, text and references.  A       *)
(* scored property is open from its start tag to the end tag at its depth; *)
(* each text run in it is one alternative or list item.                    *)

XmpStart(s) == [s |-> s, depth |-> 0, open |-> FALSE, at |-> 0, runs |-> <<>>, current |-> <<>>,
                language |-> "none"]

FlushRun(x) == [x EXCEPT !.current = <<>>,
                         !.runs = IF x.current = <<>> THEN @ ELSE Append(@, x.current)]

\* The compact form: a scored property as an attribute.
AttributeRow(x, carrier, attribute) == [x EXCEPT !.s = PushRow(@, carrier, "none", attribute)]

XmpOpen(x, carrier, event) ==
  LET deeper == [AttributeRow(x, carrier, event.attribute) EXCEPT !.depth = @ + 1]
  IN  CASE x.depth + 1 > MaxXmlDepth -> [x EXCEPT !.s = MediaFail(@, "xml-exceeded")]
        [] ~x.open /\ event.scored ->
             [deeper EXCEPT !.open = TRUE, !.at = x.depth + 1, !.runs = <<>>, !.current = <<>>,
                            !.language = "none"]
        [] x.open -> [FlushRun(deeper) EXCEPT
                        !.language = IF event.language # "none" THEN event.language ELSE @]
        [] OTHER -> deeper

\* Faulty variant: any end tag closes the open property.
XmpEndAny(x, carrier) ==
  LET run == IF x.open THEN FlushRun(x) ELSE x
      closes == x.open
      row == PushRow(x.s, carrier, run.language, FlattenSeq(run.runs))
  IN  CASE x.depth = 0 -> [x EXCEPT !.s = Malformed(@)]
        [] closes -> [run EXCEPT !.depth = @ - 1, !.open = FALSE, !.s = row]
        [] OTHER -> [run EXCEPT !.depth = @ - 1]

\* The parser refuses an end tag of nothing open.
XmpEnd(x, carrier) ==
  LET run == IF x.open THEN FlushRun(x) ELSE x
      closes == x.open /\ x.at = x.depth
      row == PushRow(x.s, carrier, run.language, FlattenSeq(run.runs))
  IN  CASE x.depth = 0 -> [x EXCEPT !.s = Malformed(@)]
        [] closes -> [run EXCEPT !.depth = @ - 1, !.open = FALSE, !.s = row]
        [] OTHER -> [run EXCEPT !.depth = @ - 1]

\* Text of no open property is passed over, an undefined reference never.
XmpStep(x, carrier, event) ==
  CASE x.s.error # "none" -> x
    [] event.e = "start" -> XmpOpen(x, carrier, event)
    [] event.e = "empty" -> AttributeRow(x, carrier, event.attribute)
    [] event.e = "text" -> IF x.open THEN [x EXCEPT !.current = @ \o event.value] ELSE x
    [] event.e = "undefined" -> [x EXCEPT !.s = Malformed(@)]
    [] event.e = "end" -> XmpEnd(x, carrier)

\* The end of the packet is an event as well; a property still open there
\* has no row.
CollectXmp(s, carrier, packet) ==
  LET step(x, event) == XmpStep(x, carrier, event)
      read == SubSeq(packet, 1, IF Len(packet) <= MaxXmlEvents THEN Len(packet) ELSE MaxXmlEvents)
      end == FoldLeft(step, XmpStart(s), read).s
  IN  IF Len(packet) + 1 > MaxXmlEvents THEN MediaFail(end, "xml-exceeded") ELSE end

\* The packet of a chunk, once its text is known to be utf-8.
CollectPacket(s, carrier, chunk) ==
  IF chunk.whole THEN CollectXmp(s, carrier, chunk.packet) ELSE Malformed(s)

-----------------------------------------------------------------------------
(* Png, jpeg and webp *)

Each(s, image, kind, Read(_, _)) == FoldLeft(Read, s, SelectSeq(image, LAMBDA c : c.kind = kind))

\* A compressed chunk inflates within the ceiling or fails the image.
Inflated(s, chunk, Then(_, _)) ==
  CASE ~chunk.whole -> Malformed(s)
    [] chunk.inflates > MaxInflated -> MediaFail(s, "decompress-exceeded")
    [] OTHER -> Then(s, chunk)

\* The reader is driven to the end of the stream, so that text after the
\* pixels counts and a cut stream fails.
CollectPng(image) ==
  LET text(s, c) == PushRow(s, "png-text", "none", c.value)
      ztext(s, c) == Inflated(s, c, LAMBDA t, d : PushRow(t, "png-ztext", "none", d.value))
      itxt(s, c) == Inflated(s, c, LAMBDA t, d : IF d.keyword = "xmp" THEN CollectXmp(t, "png-itxt-xmp", d.packet)
                                                ELSE PushRow(t, "png-itxt", "none", d.value))
      exif == Each(Collector, image, "exif", CollectExif)
      texts == Each(exif, image, "text", text)
      ztexts == Each(texts, image, "ztext", ztext)
  IN  IF ~\E i \in DOMAIN image : image[i].kind = "end" THEN Malformed(Collector)
      ELSE Each(ztexts, image, "itxt", itxt)

\* A dataset of a resource block, and the block: refused when cut, with a
\* bad marker, or of a form that is not modelled.
ParseIim(s, dataset) == CASE ~dataset.whole -> Malformed(s)
                          [] dataset.scored -> PushRow(s, "iptc-iim", "none", dataset.value)
                          [] OTHER -> s

CollectIptc(s, segment) ==
  LET block(t, k) == LET b == segment.blocks[k]
                         read == IF b.id = "iptc" THEN FoldLeft(ParseIim, t, b.datasets) ELSE t
                     IN  CASE b.cut = "header" -> Malformed(t)
                           [] k > MaxBoxes -> MediaFail(t, "limit-exceeded")
                           [] b.cut = "pad" -> Malformed(read)
                           [] OTHER -> read
  IN  FoldLeft(block, s, [k \in DOMAIN segment.blocks |-> k])

\* More than one xmp segment is an extended packet, which is not guessed at.
CollectJpeg(image) ==
  LET xmp == SelectSeq(image, LAMBDA c : c.kind = "xmp")
      exif == Each(Collector, image, "exif", CollectExif)
      packet == CASE xmp = <<>> -> exif
                  [] Len(xmp) = 1 -> CollectPacket(exif, "jpeg-app1-xmp", xmp[1])
                  [] OTHER -> Malformed(exif)
  IN  Each(packet, image, "app13", CollectIptc)

CollectWebp(image) ==
  LET chunk(s, c) == CASE c.kind = "exif" -> CollectExif(s, c)
                       [] c.kind = "xmp" -> CollectPacket(s, "webp-xmp", c)
                       [] OTHER -> s
  IN  FoldLeft(chunk, Collector, image)

-----------------------------------------------------------------------------
(* Heic: the boxes of the file, with "in" for those of a meta box.  "infe" *)
(* and "loc" are the entries of the item info and item location boxes.  A  *)
(* file has as many byte positions as it has boxes; an item's extents name *)
(* ranges of them, or of the idat box.                                     *)

\* The last of each kind counts, among the boxes of the last meta box.
MetaOf(boxes) == LET metas == {i \in DOMAIN boxes : boxes[i].kind = "meta"}
                 IN  IF metas = {} THEN 0 ELSE CHOOSE i \in metas : \A j \in metas : j <= i
BoxesIn(boxes, meta, kind) ==
  SelectSeq(boxes, LAMBDA b : b.kind = kind /\ b.in = meta)

\* A walk fails at a box that does not fit its parent, or at one too many;
\* "counted" is what was walked before.  A meta box is skipped over, its
\* own boxes are walked later.
WalkBoxes(s, boxes, counted) ==
  LET bad == {i \in DOMAIN boxes : ~boxes[i].fits \/ counted + i > MaxBoxes}
      first == CHOOSE i \in bad : \A j \in bad : i <= j
  IN  CASE bad = {} -> s
        [] ~boxes[first].fits -> Malformed(s)
        [] OTHER -> MediaFail(s, "limit-exceeded")

\* Every extent is charged before it is read, and lies in its region.
ResolveItem(s, location, idat, length) ==
  LET budget == IF length <= MaxRowBytes THEN length ELSE MaxRowBytes
      region == IF location.method = 0 THEN length ELSE IF idat = <<>> THEN -1 ELSE idat[Len(idat)].size
      read(o, extent) ==
            CASE o.s.error # "none" -> o
              [] o.charged + extent[2] > budget -> [o EXCEPT !.s = MediaFail(@, "limit-exceeded")]
              [] location.method > 1 -> [o EXCEPT !.s = MediaFail(@, "unsupported")]
              [] region < extent[1] + extent[2] -> [o EXCEPT !.s = Malformed(@)]
              [] OTHER -> [o EXCEPT !.charged = @ + extent[2]]
  IN  FoldLeft(read, [s |-> s, charged |-> 0], location.extents)

\* An item without a location is passed over, an exif item too short for
\* its offset as well; an xmp item has to hold markup.
CollectItem(s, entry, locations, idat, length) ==
  LET mine == SelectSeq(locations, LAMBDA l : l.id = entry.id)
      item == ResolveItem(s, mine[1], idat, length)
  IN  CASE s.error # "none" \/ mine = <<>> -> s
        [] item.s.error # "none" -> item.s
        [] entry.type = "exif" -> IF item.charged = 0 THEN s ELSE CollectExif(s, entry)
        [] entry.type = "xmp" -> IF item.charged = 0 THEN Malformed(s) ELSE CollectPacket(s, "heic-mime", entry)
        [] OTHER -> s

CollectMeta(s, boxes, meta, counted) ==
  LET entries == BoxesIn(boxes, meta, "infe")
      locations == BoxesIn(boxes, meta, "loc")
      idat == BoxesIn(boxes, meta, "idat")
      xmp == BoxesIn(boxes, meta, "uuid")
      tables == [k \in 1..Cardinality({entries, locations} \ {<<>>}) |-> [fits |-> TRUE]]
      parts == xmp \o idat \o tables
      walked == WalkBoxes(s, parts, counted)
      packets == FoldLeft(LAMBDA t, b : CollectPacket(t, "heic-uuid", b), walked, xmp)
      listed == WalkBoxes(packets, entries, counted + Len(parts))
      versions == IF \A i \in DOMAIN entries : entries[i].type # "unmodelled" THEN listed
                  ELSE MediaFail(listed, "unsupported")
      located == IF \A i \in DOMAIN locations : locations[i].fits THEN versions ELSE Malformed(versions)
      item(t, entry) == CollectItem(t, entry, locations, idat, Len(boxes))
  IN  IF entries = <<>> \/ locations = <<>> THEN packets ELSE FoldLeft(item, located, entries)

CollectHeic(boxes) ==
  LET top == SelectSeq(boxes, LAMBDA b : b.in = 0)
      walked == WalkBoxes(Collector, top, 0)
      packets == FoldLeft(LAMBDA t, b : CollectPacket(t, "heic-uuid", b), walked, BoxesIn(boxes, 0, "uuid"))
  IN  IF MetaOf(boxes) = 0 THEN packets ELSE CollectMeta(packets, boxes, MetaOf(boxes), Len(top))

-----------------------------------------------------------------------------
(* The child *)

Extract(format, image) ==
  CASE format = "png" -> CollectPng(image)
    [] format = "jpeg" -> CollectJpeg(image)
    [] format = "webp" -> CollectWebp(image)
    [] format = "heic" -> CollectHeic(image)

\* One hidden line per row, sorted, so that the order of the chunks does not
\* show.  Carriers are listed in their order.
Carriers == <<"exif", "heic-mime", "heic-uuid", "iptc-iim", "jpeg-app1-xmp", "png-itxt",
              "png-itxt-xmp", "png-text", "png-ztext", "webp-xmp">>
RowBefore(a, b) ==
  LET rank(r) == CHOOSE k \in DOMAIN Carriers : Carriers[k] = r.carrier
      less == {k \in DOMAIN a.value : k > Len(b.value) \/ a.value[k] # b.value[k]}
  IN  CASE rank(a) # rank(b) -> rank(a) < rank(b)
        [] a.language # b.language -> a.language = "none"
        [] less = {} -> FALSE
        [] OTHER -> LET k == CHOOSE k \in less : \A l \in less : k <= l
                    IN  k <= Len(b.value) /\ a.value[k] < b.value[k]

Newline == [carrier |-> "newline", language |-> "none", value |-> <<>>]

RenderRows(rows) ==
  LET put(o, row) == LET end == Append(o.text, row)
                     IN  [text |-> Append(end, Newline),
                          segs |-> Append(o.segs, Seg!Hidden(Seg!Span(Len(o.text), Len(end), "metadata")))]
  IN  FoldLeft(put, [text |-> <<>>, segs |-> <<>>], SortSeq(rows, RowBefore))

ExtractChild(format, image) ==
  LET child(s) ==
        CASE s.error # "none" -> [error |-> s.error, text |-> <<>>, segs |-> <<>>]
          [] s.rows = <<>> -> [error |-> "not-applicable", text |-> <<>>, segs |-> <<>>]
          [] OTHER -> [error |-> "none"] @@ RenderRows(s.rows)
  IN  child(Extract(format, image))

-----------------------------------------------------------------------------
(* What an image says, for the checks: its fields as a bag                 *)

\* How many of a packet's elements are open before event i.
XmpDepth(packet, i) == Cardinality({j \in 1..i - 1 : packet[j].e = "start"})
                         - Cardinality({j \in 1..i - 1 : packet[j].e = "end"})

\* The end tag of the element that starts at i, 0 if there is none.
XmpClose(packet, i) ==
  LET ends == {j \in i + 1..Len(packet) : packet[j].e = "end" /\ XmpDepth(packet, j + 1) = XmpDepth(packet, i)}
  IN  IF ends = {} THEN 0 ELSE CHOOSE j \in ends : \A k \in ends : j <= k

\* The scored properties: complete, and not part of another one.
XmpProperties(packet) ==
  LET scored == {i \in DOMAIN packet : packet[i].e = "start" /\ packet[i].scored}
      around(j, i) == j < i /\ (XmpClose(packet, j) = 0 \/ i < XmpClose(packet, j))
  IN  {i \in scored : XmpClose(packet, i) # 0 /\ ~\E j \in scored : around(j, i)}

XmpFields(packet, carrier) ==
  LET inner(i) == {j \in DOMAIN packet : i < j /\ j < XmpClose(packet, i)}
      value(i) == FlattenSeq([j \in DOMAIN packet |->
                    IF j \in inner(i) /\ packet[j].e = "text" THEN packet[j].value ELSE <<>>])
      tagged(i) == {j \in inner(i) : packet[j].e = "start" /\ packet[j].language # "none"}
      language(i) == IF tagged(i) = {} THEN "none"
                     ELSE packet[CHOOSE j \in tagged(i) : \A k \in tagged(i) : k <= j].language
      attributes == {i \in DOMAIN packet : packet[i].e \in {"start", "empty"}}
  IN  {[carrier |-> carrier, language |-> language(i), value |-> value(i)] : i \in XmpProperties(packet)}
        \cup {[carrier |-> carrier, language |-> "none", value |-> packet[i].attribute] : i \in attributes}

XmpRefused(packet) ==
  \/ Len(packet) + 1 > MaxXmlEvents
  \/ \E i \in DOMAIN packet : \/ packet[i].e = "undefined"
                              \/ packet[i].e = "end" /\ XmpDepth(packet, i) = 0
                              \/ packet[i].e = "start" /\ XmpDepth(packet, i) + 1 > MaxXmlDepth

\* The carrier of a chunk with one value, and of one with a packet.
ValueCarrier == [exif |-> "exif", text |-> "png-text", ztext |-> "png-ztext", itxt |-> "png-itxt"]
PacketCarrier == [png |-> "png-itxt-xmp", jpeg |-> "jpeg-app1-xmp", webp |-> "webp-xmp"]

HasPacket(c) == c.kind = "xmp" \/ (c.kind = "itxt" /\ c.keyword = "xmp")

ChunkFields(format, c) ==
  CASE HasPacket(c) -> XmpFields(c.packet, PacketCarrier[format])
    [] c.kind \in DOMAIN ValueCarrier -> {[carrier |-> ValueCarrier[c.kind], language |-> "none", value |-> c.value]}
    [] c.kind = "app13" ->
         {[carrier |-> "iptc-iim", language |-> "none", value |-> d.value] :
            d \in UNION {{e \in ToSet(b.datasets) : e.scored} : b \in {x \in ToSet(c.blocks) : x.id = "iptc"}}}
    [] OTHER -> {}

ChunkRefused(c) ==
  \/ c.kind \in {"exif", "xmp", "ztext", "itxt"} /\ ~c.whole
  \/ c.kind \in {"ztext", "itxt"} /\ c.inflates > MaxInflated
  \/ HasPacket(c) /\ XmpRefused(c.packet)
  \/ c.kind = "app13" /\ \/ Len(c.blocks) > MaxBoxes
                         \/ \E b \in ToSet(c.blocks) : \/ b.cut # "no"
                                                       \/ b.id = "iptc" /\ \E d \in ToSet(b.datasets) : ~d.whole

\* Where an item's bytes are, and that they are there.
ItemPlaced(boxes, entry, l) ==
  LET idat == BoxesIn(boxes, MetaOf(boxes), "idat")
      limit == CASE l.method = 0 -> Len(boxes)
                 [] l.method = 1 /\ idat # <<>> -> idat[Len(idat)].size
                 [] OTHER -> -1
      total == FoldLeft(LAMBDA n, x : n + x[2], 0, l.extents)
  IN  /\ \A x \in ToSet(l.extents) : x[1] + x[2] <= limit
      /\ total <= Len(boxes) /\ total <= MaxRowBytes

\* The items that have a place, the first one their table gives.
Items(boxes) ==
  LET locations == BoxesIn(boxes, MetaOf(boxes), "loc")
      located == {i \in DOMAIN boxes : /\ MetaOf(boxes) # 0 /\ boxes[i].in = MetaOf(boxes) /\ boxes[i].kind = "infe"
                                       /\ \E l \in ToSet(locations) : l.id = boxes[i].id}
      place(i) == SelectSeq(locations, LAMBDA l : l.id = boxes[i].id)[1]
  IN  {[entry |-> boxes[i], place |-> place(i),
        size |-> FoldLeft(LAMBDA n, x : n + x[2], 0, place(i).extents)] : i \in located}

ItemFields(item) ==
  CASE item.size = 0 -> {}
    [] item.entry.type = "exif" -> {[carrier |-> "exif", language |-> "none", value |-> item.entry.value]}
    [] item.entry.type = "xmp" -> XmpFields(item.entry.packet, "heic-mime")
    [] OTHER -> {}

HeicPackets(boxes) == {b \in ToSet(boxes) : b.kind = "uuid" /\ (b.in = 0 \/ b.in = MetaOf(boxes))}
HeicFields(boxes) == UNION {XmpFields(b.packet, "heic-uuid") : b \in HeicPackets(boxes)}
                       \cup UNION {ItemFields(item) : item \in Items(boxes)}

\* Boxes of earlier meta boxes are not walked, nor entries without a table.
HeicRefused(boxes) ==
  LET meta == MetaOf(boxes)
      tables == meta # 0 /\ BoxesIn(boxes, meta, "infe") # <<>> /\ BoxesIn(boxes, meta, "loc") # <<>>
      kinds == {boxes[i].kind : i \in {j \in DOMAIN boxes : boxes[j].in = meta /\ meta # 0}}
      walked == {i \in DOMAIN boxes : \/ boxes[i].in = 0
                                      \/ boxes[i].in = meta /\ boxes[i].kind \notin {"infe", "loc"}}
      entries == {i \in DOMAIN boxes : tables /\ boxes[i].in = meta /\ boxes[i].kind = "infe"}
  IN  \/ \E i \in walked \cup entries : ~boxes[i].fits
      \/ Cardinality(walked) + Cardinality(kinds \cap {"infe", "loc"}) + Cardinality(entries) > MaxBoxes
      \/ \E b \in HeicPackets(boxes) : ~b.whole \/ XmpRefused(b.packet)
      \/ \E i \in entries : boxes[i].type = "unmodelled"
      \/ tables /\ \E l \in ToSet(BoxesIn(boxes, meta, "loc")) : ~l.fits
      \/ \E item \in Items(boxes) :
           \/ ~ItemPlaced(boxes, item.entry, item.place)
           \/ item.entry.type = "xmp" /\ (item.size = 0 \/ ~item.entry.whole \/ XmpRefused(item.entry.packet))
           \/ item.entry.type = "exif" /\ item.size > 0 /\ ~item.entry.whole

Refuses(format, image) ==
  CASE format = "heic" -> HeicRefused(image)
    [] format = "png" /\ ~\E c \in ToSet(image) : c.kind = "end" -> TRUE
    [] format = "jpeg" /\ Len(SelectSeq(image, LAMBDA c : c.kind = "xmp")) > 1 -> TRUE
    [] OTHER -> \E c \in ToSet(image) : ChunkRefused(c)

Fields(format, image) ==
  {f \in IF format = "heic" THEN HeicFields(image) ELSE UNION {ChunkFields(format, c) : c \in ToSet(image)} :
     f.value # <<>>}

\* The child of an image has a hidden line for every field of every surface,
\* in one order, and nothing else; whatever is refused anywhere in the
\* image, or past a ceiling, leaves no child at all.
ChildIsWhole(out, refused, fields) ==
  LET over == \/ Cardinality(fields) > MaxRows
              \/ MapThenSumSet(LAMBDA f : Len(f.value), fields) > MaxRowBytes
      lines == [k \in 1..Len(out.segs) |-> SubSeq(out.text, out.segs[k].start + 1, out.segs[k].end)]
  IN  CASE refused -> out.error \notin {"none", "not-applicable"}
        [] ~refused /\ over -> out.error = "limit-exceeded"
        [] ~refused /\ fields = {} -> out.error = "not-applicable"
        [] OTHER ->
             /\ out.error = "none"
             /\ Seg!Valid(out.segs, Len(out.text)) /\ \A k \in DOMAIN out.segs : out.segs[k].hidden
             /\ {<<f>> : f \in fields} = ToSet(lines) /\ Len(lines) = Cardinality(fields)
             /\ out.text = FlattenSeq([k \in DOMAIN lines |-> Append(lines[k], Newline)])

MetadataWhole(format, image) ==
  ChildIsWhole(ExtractChild(format, image), Refuses(format, image), Fields(format, image))

\* A property that its packet never closes, over some text.
LeftOpen(packet) ==
  \E i, j \in DOMAIN packet : /\ i < j /\ packet[i].e = "start" /\ packet[i].scored
                              /\ XmpClose(packet, i) = 0 /\ packet[j].e = "text"

\* What an image holds beside what its child is made of.
Leftover(format, image) ==
  LET meta == MetaOf(image)
      placed == {item.entry : item \in Items(image)}
      short(item) == item.entry.type = "exif" /\ item.size = 0
      unplaced(box) == box.in = meta /\ box.kind = "infe" /\ box.type \in {"exif", "xmp"} /\ box \notin placed
      earlier(box) == box.in \notin {0, meta} /\ box.kind \in {"infe", "uuid"}
  IN  IF format # "heic" THEN \E c \in ToSet(image) : HasPacket(c) /\ LeftOpen(c.packet)
      ELSE \/ \E box \in ToSet(image) : earlier(box) \/ unplaced(box)
           \/ \E box \in HeicPackets(image) : LeftOpen(box.packet)
           \/ \E item \in Items(image) : \/ short(item)
                                         \/ item.entry.type = "xmp" /\ LeftOpen(item.entry.packet)

ChildLeavesNothing(format, image) ==
  ExtractChild(format, image).error = "none" => ~Leftover(format, image)

=============================================================================
