------------------------------- MODULE Plain -------------------------------
(***************************************************************************)
(* The passthrough of text (convert/mod.rs): a source is a sequence of     *)
(* bytes, a text one of code points.  Of the multi-byte sequences of UTF-8 *)
(* only the byte order mark is written here, and composition to NFC is     *)
(* left out.                                                               *)
(***************************************************************************)
EXTENDS Integers, Sequences, SequencesExt

Mark8 == <<239, 187, 191>>
Mark16le == <<255, 254>>
Mark16be == <<254, 255>>
ByteOrderMark == 65279

After(mark, bytes) == SubSeq(bytes, Len(mark) + 1, Len(bytes))

Decoded(error, text) == [error |-> error, text |-> text]

\* Byte pairs to code points; a high surrogate joins the low one after it.
DecodeUtf16(bytes, bigEndian) ==
  LET unit(k) == IF bigEndian THEN 256 * bytes[2 * k - 1] + bytes[2 * k] ELSE 256 * bytes[2 * k] + bytes[2 * k - 1]
      high(u) == u \in 55296..56319
      low(u) == u \in 56320..57343
      extend(d, u) ==
        CASE d.open # 0 /\ low(u) -> [d EXCEPT !.open = 0, !.text = Append(@, 65536 + 1024 * (d.open - 55296) + u - 56320)]
          [] d.open = 0 /\ high(u) -> [d EXCEPT !.open = u]
          [] d.open = 0 /\ ~high(u) /\ ~low(u) -> [d EXCEPT !.text = Append(@, u)]
          [] OTHER -> [d EXCEPT !.error = "invalid_utf16"]
      read == FoldLeft(extend, [error |-> "none", text |-> <<>>, open |-> 0],
                       [k \in 1..Len(bytes) \div 2 |-> unit(k)])
  IN  CASE Len(bytes) % 2 = 1 \/ read.open # 0 -> Decoded("invalid_utf16", <<>>)
        [] OTHER -> Decoded(read.error, read.text)

DecodeUtf8(bytes) ==
  LET extend(d, b) ==
        CASE b < 128 /\ d.open = <<>> -> [d EXCEPT !.text = Append(@, b)]
          [] b >= 128 /\ Append(d.open, b) = Mark8 -> [d EXCEPT !.open = <<>>, !.text = Append(@, ByteOrderMark)]
          [] b >= 128 /\ IsStrictPrefix(Append(d.open, b), Mark8) -> [d EXCEPT !.open = Append(@, b)]
          [] OTHER -> [d EXCEPT !.error = "invalid_utf8"]
      read == FoldLeft(extend, [error |-> "none", text |-> <<>>, open |-> <<>>], bytes)
  IN  IF read.open # <<>> THEN Decoded("invalid_utf8", <<>>) ELSE Decoded(read.error, read.text)

\* The four-byte marks come first: one of them begins with a two-byte one.
DecodeText(bytes) ==
  CASE IsPrefix(Mark16le \o <<0, 0>>, bytes) \/ IsPrefix(<<0, 0>> \o Mark16be, bytes) -> Decoded("unsupported-encoding", <<>>)
    [] IsPrefix(Mark16le, bytes) /\ ~IsPrefix(<<0, 0>>, After(Mark16le, bytes)) -> DecodeUtf16(After(Mark16le, bytes), FALSE)
    [] IsPrefix(Mark16be, bytes) -> DecodeUtf16(After(Mark16be, bytes), TRUE)
    [] OTHER -> LET read == DecodeUtf8(bytes)
                IN  IF IsPrefix(<<ByteOrderMark>>, read.text) THEN [read EXCEPT !.text = Tail(@)] ELSE read

\* CRLF and a lone CR become LF.
NormalizeText(text) ==
  LET put(x, c) == CASE c = 13 -> [out |-> Append(x.out, 10), cr |-> TRUE]
                     [] c = 10 /\ x.cr -> [x EXCEPT !.cr = FALSE]
                     [] OTHER -> [out |-> Append(x.out, c), cr |-> FALSE]
  IN  FoldLeft(put, [out |-> <<>>, cr |-> FALSE], text).out

Passthrough(bytes) ==
  LET judge(raw, text) ==
        CASE raw.error # "none" -> Decoded(raw.error, <<>>)
          [] raw.error = "none" /\ 0 \in ToSet(raw.text) -> Decoded("nul_bytes", <<>>)
          [] raw.error = "none" /\ text = <<>> /\ bytes # <<>> -> Decoded("empty_output", <<>>)
          [] OTHER -> Decoded("none", text)
      of(raw) == judge(raw, NormalizeText(raw.text))
  IN  of(DecodeText(bytes))

-----------------------------------------------------------------------------
(* What the text must be *)

\* A code point in two or four bytes.
Encode16(c, bigEndian) ==
  LET pair(u) == IF bigEndian THEN <<u \div 256, u % 256>> ELSE <<u % 256, u \div 256>>
  IN  IF c < 65536 THEN pair(c)
      ELSE pair(55296 + ((c - 65536) \div 1024)) \o pair(56320 + ((c - 65536) % 1024))
Encode8(c) == IF c = ByteOrderMark THEN Mark8 ELSE <<c>>

\* The lines of a text end where a line of its source did.
Ends(text) == SelectSeq([k \in DOMAIN text |-> k],
                        LAMBDA k : text[k] = 13 \/ (text[k] = 10 /\ ~(k > 1 /\ text[k - 1] = 13)))
Visible(text) == SelectSeq(text, LAMBDA c : c \notin {10, 13})

\* A converted text is what its source says in one encoding, with its line
\* ends unified and no character lost or added; plain ascii always converts.
IsExact(bytes, raw, out) ==
  LET bytes16(be) == FoldLeft(LAMBDA s, c : s \o Encode16(c, be), IF be THEN Mark16be ELSE Mark16le, raw)
      bytes8 == FoldLeft(LAMBDA s, c : s \o Encode8(c), <<>>, raw)
  IN  /\ out.error = "none" =>
           /\ bytes \in {bytes16(TRUE), bytes16(FALSE), bytes8, Mark8 \o bytes8}
           /\ Visible(out.text) = Visible(raw) /\ Len(Ends(out.text)) = Len(Ends(raw))
           /\ ToSet(out.text) \cap {0, 13} = {}
      /\ out.error # "none" => bytes # <<>> /\ (\E k \in DOMAIN bytes : bytes[k] \notin {10, 13, 97})

TextIsExact(bytes) == IsExact(bytes, DecodeText(bytes).text, Passthrough(bytes))

=============================================================================
