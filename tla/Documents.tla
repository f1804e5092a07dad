----------------------------- MODULE Documents -----------------------------
(***************************************************************************)
(* Documents and PDF text layers (convert/document.rs, differential.rs,    *)
(* anydoc_log.rs, pdf.rs).                                                 *)
(*                                                                         *)
(* The extractors and the markdown parser are external: a document is the  *)
(* sequence of events of its markdown, well nested, and what the           *)
(* extractors said of it.  "paragraph" stands for the block elements that  *)
(* hold text: headings and code blocks too.                                *)
(***************************************************************************)
EXTENDS Integers, Sequences, FiniteSets, SequencesExt

\* A text is made of words, line feeds and tabs.
Lf == <<"lf">>
Tabulator == <<"tab">>

Stripped(out) == LET kept == {k \in 0..Len(out) : k = 0 \/ out[k] # Lf}
                 IN  SubSeq(out, 1, CHOOSE k \in kept : \A j \in kept : j <= k)

CloseBlock(out) == IF Stripped(out) = <<>> THEN <<>> ELSE Stripped(out) \o <<Lf, Lf>>

CloseLine(out) == IF out = <<>> \/ out[Len(out)] = Lf THEN out ELSE Append(out, Lf)

PlainStart == [out |-> <<>>, firstCell |-> TRUE]

\* Faulty variant: only the head of a table begins a row.
BeginsTable(x) == x.e = "start" /\ x.tag = "head"

BeginsRow(x) == x.e = "start" /\ x.tag \in {"head", "row"}

PlainStep(s, x) ==
  CASE BeginsRow(x) -> [s EXCEPT !.firstCell = TRUE]
    [] x.e = "start" /\ x.tag = "cell" ->
         [out |-> IF s.firstCell THEN s.out ELSE Append(s.out, Tabulator), firstCell |-> FALSE]
    [] x.e = "end" /\ x.tag \in {"paragraph", "list", "table"} -> [s EXCEPT !.out = CloseBlock(@)]
    [] x.e = "end" /\ x.tag \in {"item", "head", "row"} -> [s EXCEPT !.out = CloseLine(@)]
    [] x.e = "text" -> [s EXCEPT !.out = Append(@, x.word)]
    [] x.e = "break" -> [s EXCEPT !.out = Append(@, Lf)]
    [] OTHER -> s

MarkdownToPlain(markdown) ==
  LET closed(out) == IF out = <<>> THEN <<>> ELSE Append(out, Lf)
  IN  closed(Stripped(FoldLeft(PlainStep, PlainStart, markdown).out))

-----------------------------------------------------------------------------
(* The second opinion on doc and ppt *)

NormalizeForDiff(text) == SelectSeq(text, LAMBDA c : c \notin {Lf, Tabulator})

\* Words have one byte, and one space lies between two of them.
DiffLength(words) == IF words = <<>> THEN 0 ELSE 2 * Len(words) - 1

CommonTokens(a, b) ==
  LET occurs(s, w) == Cardinality({k \in DOMAIN s : s[k] = w})
      fewer(w) == IF occurs(a, w) < occurs(b, w) THEN occurs(a, w) ELSE occurs(b, w)
  IN  FoldLeft(LAMBDA n, w : n + fewer(w), 0, SetToSeq(ToSet(a)))

CompareTexts(primary, secondary) ==
  LET p == DiffLength(primary)
      s == DiffLength(secondary)
      agree == 10 * p >= 9 * s /\ 10 * s >= 9 * p
      dice == 40 * CommonTokens(primary, secondary) >= 19 * (Len(primary) + Len(secondary))
  IN  CASE agree /\ dice -> "agreement"
        [] ~(agree /\ dice) /\ 2 * p < s -> "failure"
        [] OTHER -> "divergence"

\* A second extractor that fails or panics never sinks the first.
Check(text, secondary) ==
  IF secondary.error # "none" THEN "unavailable"
  ELSE CompareTexts(NormalizeForDiff(text), secondary.words)

-----------------------------------------------------------------------------
(* The converters *)

\* What the extractor logged while it worked becomes warnings.
CaptureAnydoc(document) == {<<"anydoc_recovery", message>> : message \in document.messages}

NotConverted(code) == [error |-> code, text |-> <<>>, warnings |-> {}, recovered |-> FALSE]

ConvertDocument(format, document) ==
  LET warnings(verdict) == CaptureAnydoc(document)
                           \cup IF verdict = "agreement" THEN {} ELSE {<<"differential", verdict>>}
      judge(text, verdict) ==
        CASE document.error # "none" -> NotConverted(document.error)
          [] document.error = "none" /\ text = <<>> -> NotConverted("empty_output")
          [] document.error = "none" /\ text # <<>> /\ verdict = "failure" -> NotConverted("differential-divergence")
          [] OTHER -> [error |-> "none", text |-> text, warnings |-> warnings(verdict), recovered |-> FALSE]
      of(text) == judge(text, IF format \in {"doc", "ppt"} THEN Check(text, document.secondary) ELSE "agreement")
  IN  of(MarkdownToPlain(document.markdown))

PromoteWarning(message) == <<IF message = "pages need OCR" THEN "pdf_partial_text" ELSE "anydoc_recovery", message>>

\* Control and format characters alone are no text layer.
Invisible == <<"invisible">>
RecoverTextLayer(document) ==
  IF document.layer.error = "none" /\ \E k \in DOMAIN document.layer.words : document.layer.words[k] # Invisible
  THEN document.layer.words ELSE <<>>

ConvertPdf(document) ==
  LET warnings == {PromoteWarning(message) : message \in document.messages}
      text == MarkdownToPlain(document.markdown)
      layer == RecoverTextLayer(document)
      partial == \E w \in warnings : w[1] = "pdf_partial_text"
  IN  CASE document.error = "none" ->
             IF text = <<>> THEN NotConverted("empty_output")
             ELSE [error |-> "none", text |-> text, warnings |-> warnings, recovered |-> FALSE]
        [] document.error = "unsupported" ->
             IF layer = <<>> THEN NotConverted("pdf_no_text_layer")
             ELSE [error |-> "none", text |-> layer, recovered |-> TRUE,
                   warnings |-> warnings \cup IF partial THEN {} ELSE {<<"pdf_partial_text", "recovered">>}]
        [] OTHER -> NotConverted(document.error)

-----------------------------------------------------------------------------
(* What a reader of the text finds *)

WordAt(out, w) == CHOOSE k \in DOMAIN out : out[k] = w

\* The words are all there, in order, and between two of them lie a blank
\* line where a block ended, a line feed where an item or a row did, and a tab
\* for every cell begun after the first of its row; nothing else ends the text.
\* A block that only begins asks for nothing, as in the code: the text of a
\* tight item and that of a list nested in it are joined.
IsFaithful(markdown, words, out) ==
  LET among(i, j, e, tags) == Cardinality({k \in i..j : markdown[k].e = e /\ markdown[k].tag \in tags})
      gap(i, j) == SubSeq(out, WordAt(out, markdown[i].word) + 1, WordAt(out, markdown[j].word) - 1)
      count(text, c) == Cardinality({k \in DOMAIN text : text[k] = c})
      right(i, j, g) ==
        LET blank == \E k \in 2..Len(g) : g[k] = Lf /\ g[k - 1] = Lf
        IN  /\ count(g, Tabulator) = among(i, j, "start", {"cell"}) - among(i, j, "start", {"row", "head"})
            /\ CASE among(i, j, "end", {"paragraph", "list", "table"}) > 0 -> blank
                 [] among(i, j, "end", {"paragraph", "list", "table", "item", "head", "row"}) = 0 ->
                      count(g, Lf) = among(i, j, "break", {"none"})
                 [] OTHER -> count(g, Lf) > 0 /\ ~blank
  IN  /\ NormalizeForDiff(out) = [n \in DOMAIN words |-> markdown[words[n]].word]
      /\ \A n \in 1..Len(words) - 1 : right(words[n], words[n + 1], gap(words[n], words[n + 1]))
      /\ out # <<>> => out[Len(out)] = Lf /\ Stripped(out) = SubSeq(out, 1, Len(out) - 1)

PlainIsFaithful(markdown) ==
  IsFaithful(markdown, SelectSeq([i \in DOMAIN markdown |-> i], LAMBDA i : markdown[i].e = "text"),
             MarkdownToPlain(markdown))

\* Whatever the extractors knew to be missing is a failure or a warning.
SaysItsGaps(format, document, out) ==
  LET secondary == document.secondary.words
  IN  out.error = "none" =>
        /\ out.text # <<>>
        /\ \A message \in document.messages : \E w \in out.warnings : w[2] = message
        /\ document.error # "none" => \E w \in out.warnings : w[1] = "pdf_partial_text"
        /\ format \in {"doc", "ppt"} /\ document.secondary.error = "none" =>
             /\ 2 * DiffLength(NormalizeForDiff(out.text)) >= DiffLength(secondary)
             /\ out.warnings = {} => \A w \in ToSet(secondary) : w \in ToSet(out.text)

NothingSilentlyPartial(format, document) ==
  SaysItsGaps(format, document,
              IF format = "pdf" THEN ConvertPdf(document) ELSE ConvertDocument(format, document))

=============================================================================
