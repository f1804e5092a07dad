------------------------------ MODULE Readers ------------------------------
(***************************************************************************)
(* The readers of the converters, each fed any source it can meet, one     *)
(* event after the other.  Every prefix is a source too, so that cut files *)
(* are among them.                                                         *)
(***************************************************************************)
EXTENDS Sheets, Records, Html, Documents, Plain, Mail, Media, Speech, Routing

CONSTANT MaxEvents   \* bound on the events of a source, per reader

VARIABLES reader, source

vars == <<reader, source>>

Sources == {"ods", "xlsx", "xls", "html", "eml", "xmp", "png", "jpeg", "webp", "heic", "audio",
            "parquet", "sqlite", "markdown", "extract", "plain", "table", "rules", "provider"}

Init == reader \in Sources /\ source = <<>>

Feed(x) == /\ Len(source) < MaxEvents[reader]
           /\ source' = Append(source, x)
           /\ UNCHANGED reader

Seen(e) == Cardinality({i \in DOMAIN source : source[i].e = e})

-----------------------------------------------------------------------------
(* Workbooks: sheets have distinct names, and the grid is declared before  *)
(* it is filled                                                            *)

FeedOds ==
  /\ reader = "ods"
  /\ ReadOds(source).error # "resource_limit"
  /\ \/ Seen("table") < 2
        /\ \E h \in {FALSE, source = <<>>} :
             Feed([e |-> "table", name |-> Seen("table"), hidden |-> h])
     \/ /\ Seen("table") > Seen("end")
        /\ \/ Feed([e |-> "end"])
           \/ Seen("row") = 0 /\ Seen("column") < 2
                /\ \E x \in {<<2, "no">>, <<1, "flag">>, <<2, "flag">>} :
                     Feed([e |-> "column", repeat |-> x[1], how |-> x[2]])
           \/ Seen("row") < 3
                /\ \E x \in {<<1, "no">>, <<2, "no">>, <<1, "flag">>} :
                     Feed([e |-> "row", repeat |-> x[1], how |-> x[2]])
           \/ Seen("row") > 0 /\ Seen("cell") < 2
                /\ \E x \in {<<1, TRUE>>, <<2, FALSE>>, <<2, TRUE>>, <<0, TRUE>>} :
                     Feed([e |-> "cell", repeat |-> x[1], content |-> x[2]])

FeedXlsx ==
  /\ reader = "xlsx"
  /\ FoldLeft(OoxmlStep, OoxmlStart, source).error = "none"
  /\ \/ /\ Seen("part") < 2
        /\ \E x \in {<<FALSE, "worksheet">>, <<TRUE, "worksheet">>, <<FALSE, "chart">>,
                     <<FALSE, "odd">>, <<FALSE, "none">>} :
             Feed([e |-> "part", name |-> Seen("part"), hidden |-> x[1], target |-> x[2]])
     \/ /\ Seen("part") > 0
        /\ \/ \E x \in {<<1, 2, "zero">>, <<2, 2, "zero">>, <<2, 1, "no">>, <<1, 4, "no">>} :
                Feed([e |-> "col", min |-> x[1], max |-> x[2], how |-> x[3]])
           \/ \E x \in {<<-1, "flag">>, <<-1, "no">>, <<0, "no">>, <<1, "flag">>, <<3, "flag">>, <<4, "no">>} :
                Feed([e |-> "row", r |-> x[1], how |-> x[2]])
           \/ \E x \in {<<1, 1>>, <<1, 2>>, <<3, 1>>, <<3, 2>>, <<0, 1>>} :
                Feed([e |-> "c", r |-> x[1], c |-> x[2]])

\* Cells and sizes come after the globals, sheet names and the mark of an
\* encrypted file within them.
FeedXls ==
  /\ reader = "xls"
  /\ \/ Feed([e |-> "BOF"])
     \/ source # <<>> /\ Feed([e |-> "EOF"])
     \/ /\ source # <<>> /\ Seen("EOF") = 0
        /\ \/ Feed([e |-> "FILEPASS"])
           \/ \E at \in {4, 5, 7}, k \in {"worksheet", "chart"} :
                Feed([e |-> "BOUNDSHEET", at |-> at, kind |-> k, name |-> at, hidden |-> FALSE])
     \/ /\ Seen("EOF") = 1 /\ Seen("BOF") = 2
        /\ \/ \E r \in 0..1 : Feed([e |-> "ROW", first |-> r, last |-> r, how |-> "flag"])
           \/ \E x \in {<<0, 1>>, <<1, 1>>, <<1, 0>>} :
                Feed([e |-> "COLINFO", first |-> x[1], last |-> x[2], how |-> "zero"])
           \/ \E r, c \in 0..1 : Feed([e |-> "CELL", first |-> r, last |-> c])

-----------------------------------------------------------------------------
(* Structured data: the rows of a table come after it, with its columns;   *)
(* only a database can hold text that is not valid                         *)

FeedRecords ==
  LET tables == SelectSeq(source, LAMBDA x : x.e = "table")
      row(n, x) == [k \in 1..n |-> IF k = 1 THEN <<"a">> ELSE x]
  IN  /\ reader \in {"parquet", "sqlite"}
      /\ \/ source = <<>> /\ \E whole \in BOOLEAN : Feed([e |-> "file", whole |-> whole])
         \/ /\ source # <<>> /\ source[1].whole /\ (reader = "sqlite" \/ tables = <<>>)
            /\ \E name \in 1..3 \ {tables[k].name : k \in DOMAIN tables}, columns \in 1..2 :
                 Feed([e |-> "table", name |-> name, cells |-> row(columns, <<"tab">>)])
         \/ /\ tables # <<>>
            /\ \E x \in {<<>>, <<"lf", "cr">>} \cup IF reader = "sqlite" THEN {<<"invalid">>} ELSE {},
                  whole \in BOOLEAN :
                 Feed([e |-> "row", whole |-> whole, cells |-> row(Len(tables[Len(tables)].cells), x)])

-----------------------------------------------------------------------------
(* Documents: the pieces of a markdown text, well nested; tables have two  *)
(* columns, and the text of a tight item comes first in it                 *)

Starts(tag) == [e |-> "start", tag |-> tag]
Ends1(tag) == [e |-> "end", tag |-> tag]
TextAt(n) == [e |-> "text", tag |-> "none", word |-> <<"word", Len(source), n>>]
Cell(filled, n) == <<Starts("cell")>> \o (IF n \in filled THEN <<TextAt(n)>> ELSE <<>>) \o <<Ends1("cell")>>
Line2(tag, filled) == <<Starts(tag)>> \o Cell(filled, 1) \o Cell(filled, 2) \o <<Ends1(tag)>>

\* A piece knows which tags it leaves open; the parser closes them at the end.
OpenTags == IF source = <<>> THEN <<>> ELSE source[Len(source)].open
Markdown == FlattenSeq([k \in DOMAIN source |-> source[k].events])
            \o [k \in DOMAIN OpenTags |-> Ends1(OpenTags[Len(OpenTags) + 1 - k])]

FeedMarkdown ==
  LET in == IF OpenTags = <<>> THEN "none" ELSE OpenTags[Len(OpenTags)]
      piece(events, open) == Feed([events |-> events, open |-> open])
      opened(tag) == Append(OpenTags, tag)
  IN  /\ reader = "markdown"
      /\ \/ /\ in \in {"none", "item"}
            /\ \/ piece(<<Starts("paragraph"), TextAt(1), Ends1("paragraph")>>, OpenTags)
               \/ piece(<<Starts("paragraph"), TextAt(1), [e |-> "break", tag |-> "none"], TextAt(2),
                          Ends1("paragraph")>>, OpenTags)
               \/ piece(<<Starts("list")>>, opened("list"))
         \/ in = "none" /\ \E filled \in SUBSET (1..2) :
              piece(<<Starts("table")>> \o Line2("head", filled), opened("table"))
         \/ in = "table" /\ \E filled \in SUBSET (1..2) : piece(Line2("row", filled), OpenTags)
         \/ in = "list" /\ (piece(<<Starts("item")>>, opened("item")) \/ piece(<<Starts("item"), TextAt(1)>>, opened("item")))
         \/ in # "none" /\ piece(<<Ends1(in)>>, SubSeq(OpenTags, 1, Len(OpenTags) - 1))

\* What the extractors say of a document, and then its words.
FeedExtract ==
  LET said(n) == [k \in 1..n |-> <<"word", k, 1>>]
      nothing == [error |-> "none", words |-> <<>>]
  IN  /\ reader = "extract"
      /\ \/ /\ source = <<>>
            /\ \E format \in {"docx", "doc", "pdf"}, error \in {"none", "unsupported", "malformed"},
                  messages \in SUBSET {"pages need OCR", "skipped"},
                  other \in {[nothing EXCEPT !.error = "panic"]} \cup {[nothing EXCEPT !.words = said(n)] : n \in 0..3}
                            \cup {[nothing EXCEPT !.words = <<Invisible>>], [nothing EXCEPT !.words = <<said(2)[2], said(1)[1]>>]} :
                 Feed([e |-> "extracted", format |-> format, error |-> error, messages |-> messages, secondary |-> other, layer |-> other])
         \/ source # <<>> /\ source[1].error = "none" /\ Feed(TextAt(1))

Extracted == LET words == SelectSeq(source, LAMBDA x : x.e = "text")
             IN  [markdown |-> words \o <<Ends1("paragraph")>>] @@ source[1]

FeedPlain ==
  /\ reader = "plain"
  /\ \E bytes \in {<<b>> : b \in {0, 10, 13, 97, 216, 220, 254}} \cup {Mark8, Mark16le, Mark16be} : Feed([bytes |-> bytes])

-----------------------------------------------------------------------------
(* Html: raw text elements hold text only until their own end tag, and a   *)
(* text node ends where a tag begins                                       *)

Within1(s, tags) == s.open # <<>> /\ s.open[Len(s.open)].tag \in tags

NodeEnded == \A i \in DOMAIN source : i = Len(source) /\ source[i].e = "text" => source[i].last

FeedHtml ==
  /\ reader = "html"
  /\ \E s \in {Strip(source)} :
     /\ s.error # "resource_limit"
     /\ \/ /\ NodeEnded /\ Seen("start") < 3 /\ ~Within1(s, {"script", "title"})
           /\ \E tag \in {"head", "title", "script", "template", "br", "td", "tr", "p", "b"} :
                /\ tag = "head" => [e |-> "start", tag |-> tag] \notin {source[i] : i \in DOMAIN source}
                /\ Feed([e |-> "start", tag |-> tag])
        \/ /\ NodeEnded /\ Seen("end") < 2
           /\ \E tag \in {"head", "title", "script", "template", "tr", "p"} :
                /\ \E i \in DOMAIN source : source[i] = [e |-> "start", tag |-> tag]
                /\ Within1(s, {"script", "title"}) => Within1(s, {tag})
                /\ Feed([e |-> "end", tag |-> tag])
        \/ Seen("text") < 4
           /\ \E x \in {<<<<"word", Len(source) + 1>>, TRUE>>, <<Space, TRUE>>, <<Half(1), FALSE>>, <<Half(2), TRUE>>} :
                Feed([e |-> "text", text |-> <<x[1]>>, last |-> x[2]])

-----------------------------------------------------------------------------
(* Messages: a part is written inside the last open multipart part or one  *)
(* around it                                                               *)

Part(type, attached, bytes) == [type |-> type, attached |-> attached, bytes |-> bytes]

FeedMail ==
  /\ reader = "eml"
  /\ \E part \in {Part("text/plain", FALSE, 1), Part("text/plain", TRUE, 2), Part("text/html", FALSE, 0),
                   Part("text/html", FALSE, -1), Part("image", FALSE, 1), Part("message/rfc822", FALSE, 1)}
                  \cup {Part(type, FALSE, 0) : type \in Multipart} \cup {Part("multipart/mixed", TRUE, 1)},
        parent \in IF source = <<>> THEN {0} ELSE {Len(source)} \cup Ancestors(source, Len(source)) :
       /\ parent # 0 => source[parent].type \in Multipart
       /\ Feed([parent |-> parent] @@ part)

-----------------------------------------------------------------------------
(* Images: an xmp packet on its own, chunks with whole and with damaged    *)
(* content, and boxes; a word is known by the event it came with           *)

Word == <<Len(source) + 1>>
Tag(e, scored, language, attribute) ==
  [e |-> e, scored |-> scored, language |-> language, attribute |-> attribute]
XmpText == [e |-> "text", value |-> Word]

FeedXmp ==
  /\ reader = "xmp" /\ ~XmpRefused(source)
  /\ \/ \E event \in {Tag("start", TRUE, "none", <<>>), Tag("start", FALSE, "fr", <<>>),
                       Tag("start", FALSE, "none", Word)} : Seen("start") < 4 /\ Feed(event)
     \/ Seen("empty") = 0 /\ Feed(Tag("empty", FALSE, "none", Word))
     \/ Seen("text") < 2 /\ Feed(XmpText)
     \/ Feed([e |-> "end"])
     \/ Feed([e |-> "undefined"])

\* A packet with one field, one cut inside its field, one that is refused.
Packets == {<<Tag("start", TRUE, "none", <<>>), XmpText, [e |-> "end"]>>,
            <<Tag("start", TRUE, "none", <<>>), XmpText>>, <<[e |-> "undefined"]>>}

Exif(whole) == [kind |-> "exif", whole |-> whole, value |-> Word]

FeedPng ==
  /\ reader = "png"
  /\ \/ \E whole \in BOOLEAN : Feed(Exif(whole))
     \/ \E value \in {<<>>, Word} : Feed([kind |-> "text", value |-> value])
     \/ \E whole \in BOOLEAN, n \in {MaxInflated, MaxInflated + 1} :
          Feed([kind |-> "ztext", whole |-> whole, inflates |-> n, value |-> Word])
     \/ Feed([kind |-> "itxt", whole |-> TRUE, inflates |-> 0, keyword |-> "title", value |-> Word])
     \/ \E p \in Packets : Feed([kind |-> "itxt", whole |-> TRUE, inflates |-> 0, keyword |-> "xmp", packet |-> p])
     \/ Feed([kind |-> "end"])

Block(id, cut, datasets) == [id |-> id, cut |-> cut, datasets |-> datasets]
Dataset(whole, scored) == [whole |-> whole, scored |-> scored, value |-> Word]
Segments8bim ==
  {<<>>, <<Block("other", "no", <<>>), Block("iptc", "no", <<Dataset(TRUE, FALSE), Dataset(TRUE, TRUE)>>)>>,
   <<Block("iptc", "no", <<Dataset(TRUE, TRUE), Dataset(FALSE, FALSE)>>)>>,
   <<Block("iptc", "pad", <<Dataset(TRUE, TRUE)>>)>>, <<Block("iptc", "header", <<>>)>>,
   [k \in 1..MaxBoxes + 1 |-> Block("other", "no", <<>>)]}

FeedJpeg ==
  /\ reader = "jpeg"
  /\ \/ \E whole \in BOOLEAN : Feed(Exif(whole))
     \/ \E whole \in BOOLEAN, p \in Packets : Feed([kind |-> "xmp", whole |-> whole, packet |-> p])
     \/ \E blocks \in Segments8bim : Feed([kind |-> "app13", blocks |-> blocks])

FeedWebp ==
  /\ reader = "webp"
  /\ \/ \E whole \in BOOLEAN : Feed(Exif(whole))
     \/ \E whole \in BOOLEAN, p \in Packets : Feed([kind |-> "xmp", whole |-> whole, packet |-> p])
     \/ Feed([kind |-> "other"])

\* The boxes of a meta box follow it.
FeedHeic ==
  LET meta == MetaOf(source)
      box(kind, in) == [kind |-> kind, in |-> in, fits |-> TRUE]
  IN  /\ reader = "heic"
      /\ \/ \E fits \in BOOLEAN : Feed([box("meta", 0) EXCEPT !.fits = fits])
         \/ \E in \in {0, meta}, p \in Packets : Feed(box("uuid", in) @@ [whole |-> TRUE, packet |-> p])
         \/ /\ meta # 0
            /\ \/ \E type \in {"exif", "other", "unmodelled"} :
                    Feed(box("infe", meta) @@ [id |-> 1, type |-> type, whole |-> TRUE, value |-> Word])
               \/ \E whole \in BOOLEAN, p \in Packets :
                    Feed(box("infe", meta) @@ [id |-> 1, type |-> "xmp", whole |-> whole, packet |-> p])
               \/ \E id \in 1..2, method \in 0..2, extents \in {<<>>, << <<0, 1>>, <<1, 1>> >>, << <<0, 2>>, <<0, 2>> >>, << <<0, 9>> >>} :
                    Feed(box("loc", meta) @@ [id |-> id, method |-> method, extents |-> extents])
               \/ \E size \in {1, 2} : Feed(box("idat", meta) @@ [size |-> size])

FeedImage == \/ FeedXmp \/ FeedPng \/ FeedJpeg \/ FeedWebp \/ FeedHeic

-----------------------------------------------------------------------------
(* Recordings: the container, its packets, and what the engine hears; only *)
(* the heads of m4a containers vary                                        *)

Track(format, tracks, codec, config, declared) ==
  [e |-> "track", format |-> format, tracks |-> tracks, codec |-> codec, config |-> config,
   declared |-> declared, rate |-> 1]
Packet(track, frames, rate, channels) ==
  [e |-> "packet", at |-> Len(source), track |-> track, frames |-> frames, rate |-> rate,
   channels |-> channels, whole |-> TRUE, cut |-> FALSE, squares |-> 2]

FeedAudio ==
  /\ reader = "audio"
  /\ \/ /\ source = <<>>
        /\ \E track \in {Track(format, 1, "pcm", "none", 0) : format \in {"wav", "aiff"}}
                          \cup {Track("m4a", 1, "aac", config, 0) : config \in {"lc", "sbr", "none"}}
                          \cup {Track("m4a", n, codec, "lc", rate) : n \in 0..2, codec \in {"aac", "alac"}, rate \in {1, 2}} :
             Feed(track)
     \/ /\ source # <<>> /\ Seen("heard") = 0
        /\ ~\E i \in 2..Len(source) : source[i].cut
        /\ \E packet \in {Packet(1, 1, 1, 1), Packet(1, 2, 1, 1), Packet(1, 2, 1, 2), Packet(1, 1, 2, 1),
                           Packet(1, 0, 0, 0), Packet(2, 1, 1, 1), [Packet(1, 1, 1, 1) EXCEPT !.whole = FALSE],
                           [Packet(1, 1, 1, 1) EXCEPT !.cut = TRUE],
                           [Packet(1, 1, 1, 1) EXCEPT !.squares = 0], [Packet(1, 2, 1, 1) EXCEPT !.squares = 0]} :
             Feed(packet)
     \/ /\ Seen("packet") > 0
        /\ \E x \in {<<0, 0>>, <<0, 1>>, <<1, 2>>, <<2, 1>>, <<-1, 0>>} :
             Feed([e |-> "heard", at |-> Len(source), from |-> x[1], to |-> x[2]])

-----------------------------------------------------------------------------
(* Configuration: format tables, rules and provider roles *)

FeedTable ==
  /\ reader = "table"
  /\ \E id \in {"a", "b", "c", Unknown}, names \in SUBSET {"x", "y"}, refines \in {"none", "a", "b"} :
       Feed([e |-> "format", id |-> id, names |-> names, refines |-> refines])

FeedRules ==
  /\ reader = "rules"
  /\ \E formats \in {<<>>, <<"a">>, <<"b">>, <<"a", "b">>, <<Unknown>>} :
       \/ \E id \in Known \cup {"other"}, version \in {"current", "old"} :
            /\ id = "metadata" => formats = <<>>
            /\ id = "other" \/ version = "old" => formats = <<"a">>
            /\ Feed([e |-> "converter", id |-> id, version |-> version, formats |-> formats])
       \/ Feed([e |-> "unsupported", reason |-> Len(source), formats |-> formats])

\* Whatever can be written for one role, and little for the other.
FeedProvider ==
  LET written == DOMAIN Kind \cup DOMAIN Link \cup {l \o <<"all">> : l \in DOMAIN Link}
      tool == <<"opt", "app", "tool">>
  IN  /\ reader = "provider"
      /\ \E role \in Roles \ {source[k].role : k \in DOMAIN source},
            path \in written \cup {l \o <<"tool">> : l \in DOMAIN Link} \cup {<<"opt", "..", "app">>},
            roots \in {S \in SUBSET written : Cardinality(S) < 3} :
           /\ source # <<>> => path = tool /\ Cardinality(roots) < 2
           /\ Feed([e |-> "role", role |-> role, path |-> path, roots |-> roots])

Next == \/ FeedOds \/ FeedXlsx \/ FeedXls \/ FeedRecords
        \/ FeedMarkdown \/ FeedExtract \/ FeedPlain \/ FeedHtml \/ FeedMail
        \/ FeedImage \/ FeedAudio
        \/ FeedTable \/ FeedRules \/ FeedProvider

Spec == Init /\ [][Next]_vars

\* A worksheet's text carries a hidden mark exactly where the application would
\* hide a row, a column or the sheet, at whichever row the grid starts
\* (visibility.rs readers, workbook.rs render_sheet).
SheetsMarkHidden == reader \in {"ods", "xlsx", "xls"} => HiddenIsMarked(reader, source)

\* Every visible word of a source reaches its text once and in order, with the
\* breaks of the rows and cells around it and of the blocks that end between
\* two words; nothing of a head, script or template does, no byte is misread,
\* and what an extractor knew to be missing is a warning or a failure.  Where a
\* block begins and none has ended, no break is asked for: the text of a tight
\* item reads joined to that of a list nested in it (html.rs strip_html_with_budget, document.rs
\* markdown_to_plain and convert, pdf.rs convert_pdf, mod.rs passthrough).
TextIsFaithful ==
  /\ reader = "html" => VisibleTextIsKept(source)
  /\ reader = "markdown" => PlainIsFaithful(Markdown)
  /\ reader = "extract" /\ source # <<>> => NothingSilentlyPartial(source[1].format, Extracted)
  /\ reader = "plain" => TextIsExact(FlattenSeq([k \in DOMAIN source |-> source[k].bytes]))

\* Of the renditions the walk chooses, every part is shown or lifted as a
\* member, once and in order, and counted against the ceilings, to which the
\* renditions not chosen add one part each.  What lies inside one of these is
\* neither lifted nor counted: those are findings (eml.rs walk).
MailIsAccounted == reader = "eml" /\ source # <<>> => \A headers \in BOOLEAN : EveryPartAccounted(source, headers)

\* All rows or none: a child of image metadata holds every row of the carriers
\* it reads and fails if any of these is refused, and a dump holds every table,
\* row and cell of the data in its place, with segments that cut it at its
\* tables.  Not read, and so dropped beside others, are the boxes of a meta box
\* before the last one, an item without a location, an exif item shorter than
\* its offset, and a property still open where its packet ends: those are a
\* finding, NoPartialChild (image_metadata.rs extract, records.rs
\* convert_records).
RowsAreComplete ==
  /\ reader \in {"xmp", "png", "jpeg", "webp", "heic"} =>
       MetadataWhole(IF reader = "xmp" THEN "jpeg" ELSE reader,
                     IF reader = "xmp" THEN <<[kind |-> "xmp", whole |-> TRUE, packet |-> source]>> ELSE source)
  /\ (reader = "sqlite" /\ source # <<>>) \/ (reader = "parquet" /\ source \notin {<<>>, <<[e |-> "file", whole |-> TRUE]>>})
       => RowsAreWhole(reader, source)

\* A transcript comes of all samples that the stream yields of the one audio
\* track, in their order, and its segments come in the order of their times.
\* A file that is cut within a packet has ended like any other, and the times
\* are the engine's: TimecodesAreMoments is a finding
\* (audio_asr.rs decode_to_wav, subprocess.rs render_transcript).
TranscriptIsWhole ==
  reader = "audio" /\ source # <<>> =>
    TranscriptWhole(source[1], SelectSeq(source, LAMBDA x : x.e = "packet"),
                    SelectSeq(source, LAMBDA x : x.e = "heard"))

\* A file's bytes and name lead to one format, its format to one converter or
\* one reason in every build, and a configured provider to enumerated trees
\* alone (detect.rs, Registry::parse, provider.rs).
EveryFileHasOneRoute ==
  /\ reader = "table" => DetectsAsClaimed(source)
  /\ reader = "rules" => RoutesAgree(source)
  /\ reader = "provider" => GrantsEnumerated(source)

-----------------------------------------------------------------------------
(* What the code's comments say and the readers do not do                  *)

\* "Attachments become container members" (eml.rs:11): every attachment that
\* is not itself a rendition is lifted out of a message that converts.
AttachmentsAreLifted ==
  reader = "eml" /\ source # <<>> => EveryAttachmentLifted(source)

\* The renditions not chosen "still count against the part ceilings"
\* (eml.rs:230): a message that converts has no more parts than the ceiling.
PartsAreCounted == reader = "eml" /\ source # <<>> => EveryPartCounted(source)

\* "Fail closed with no partial artifact on every malformation. A multi-block
\* surface, an oversized block, or a malformed block fails the whole child"
\* (image_metadata.rs:24-26): a child leaves out nothing its image holds.
NoPartialChild ==
  /\ reader = "xmp" => ChildLeavesNothing("jpeg", <<[kind |-> "xmp", whole |-> TRUE, packet |-> source]>>)
  /\ reader \in {"png", "jpeg", "webp", "heic"} => ChildLeavesNothing(reader, source)

\* "Timestamps let a reviewer jump to the moment in the source recording"
\* (docs/DESIGN.md:101): no time of a transcript lies past its recording.
TimecodesAreMoments ==
  reader = "audio" /\ source # <<>> =>
    TimesWithin(Transcribe(source[1], SelectSeq(source, LAMBDA x : x.e = "packet"),
                           SelectSeq(source, LAMBDA x : x.e = "heard")))

=============================================================================
